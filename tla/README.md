# Verification of spark-build

TLA+ models of the parts of this repository that decide something: the tool
that publishes Universe packages, the command line that turns `dcos spark run`
into a submission, the StatsD sink that runs inside Spark's processes, the
scripts that deploy many dispatchers in parallel and their streaming
infrastructure, the builder and publishers of packages, and the session in which
the integration tests run.
TLC checks each model on small instances; TLAPS proves the properties that
matter most for every instance.  The reference is always the code.

## 1. The system and its parts

spark-build packages Apache Spark for DC/OS.  It contains no Spark code of its
own apart from the metrics sink; it builds, publishes, installs, submits and
tests.

| Component | Code | State | Operations | Hard behaviour |
| --- | --- | --- | --- | --- |
| Universe release tool | `tools/release_builder.py`, `tools/universe/` | the S3 release directories, the docker registry, branches and pull requests of the Universe repository, what the Universe server publishes; per run: the rewritten stub universe | `release_package`, `move_package` | runs share everything and lock nothing; a failure anywhere leaves the steps before it done; forced and retried runs; stale reads of S3, of the repository and of the server |
| CLI: `dcos spark run` | `cli/dcos-spark/submit_builder.go`, `security.go`, `utils.go`, `main.go` | the map of properties of one submission | `buildSubmitJson` with its stages, the POST to the dispatcher | five sources of a property merged in a fixed order; three lists of secrets that must stay zipped; validation far from use |
| StatsD reporter | `spark-statsd-reporter/` | the cached instance details, the schedule, packets, the server's series | `start`, `report`, `stop`, the polling cycle | two threads, SparkEnv appearing late, UDP, cycles that end in the middle |
| CLI: other commands | `cli/dcos-spark/main.go` | none | one HTTP request each | lost answers |
| Dispatcher container | `docker/runit/`, `conf/spark-env.sh` | property files inside the container | `run` at every start | restarts append again |
| Scale-test deployment | `scale-tests/deploy-dispatchers.py`, `run.sh` and the test scripts | quotas, installed dispatchers, output files | parallel installation | partial failure of a pool of workers |
| Streaming infrastructure | `scale-tests/setup_streaming.py`, `scale_tests_utils.py` | services with their accounts and secrets, one output file | install all, clean up what the file lists | keys replaced before the check for an installed service, killed runs and cleanups, matching by position |
| Test SDK | `testing/sdk_*.py` | Marathon applications, package repositories, accounts, secrets, permissions | install, uninstall, janitor, add and remove repositories, create and delete accounts | retries, lost answers, commands whose failure nobody sees |
| Package build and publishing | `tools/universe/package_builder.py`, `tools/publish_*.py` | built files, an S3 directory, a local directory and its web server, the CLI's repositories | template, hash, upload, serve, register | upload order, rebuilds after hashing, port and script races, stale repositories |
| Test session | `spark-testing/spark_utils.py`, `tests/common/fixtures.py`, `tests/` | service account, permissions, repositories, dispatcher, ZooKeeper state, drivers | fixtures of session and module scope, `run_tests` | unwinding through `finally`, killed sessions, shared account |
| KDC, airgap, volume, vagrant tools | `tools/` | none worth a model | sequential scripts | none |

How they interact: the package build leaves a stub universe and artifacts in
S3, which the release tool copies to a release directory and announces in the
Universe repository; a test session adds the stub universe's URL to the
cluster's repositories, and the test SDK installs the published package, which starts
the dispatcher container; `dcos spark run` reads the dispatcher's definition
from Marathon and posts a submission to it; the driver and executors that
result carry the StatsD sink when the dispatcher was given a StatsD address.
The components share no memory: one uses the files, services or containers
another left, so each model has the shared outside world (S3, GitHub, Marathon,
SparkEnv, the network) as its own variables or inputs.

## 2. Plan

In the order of importance, and of writing.

1. `UniverseRelease` with `ReleaseRegister`, its abstract specification: the
   component in which runs meet and a mistake reaches users.  *Done, proved.*
2. `SubmitBuilder`: the largest piece of logic.  *Done, proved.*
3. `StatsdReporter`: concurrency and an unreliable network.  *Done, safety
   proved.*
4. `DispatcherDeployment`: a pool of threads against a flaky cluster, with
   reruns and two files.  *Done, safety proved.*
5. `PackagePublishing`: the builder and the three publishers.  *Done, proved.*
6. `StreamingSetup`: the other deployment script, which keeps one file and
   manages keys by itself.  *Done, proved.*
7. `SparkTestSession`: who cleans up after whom.  *Done, safety proved.*
8. Every invariant and action property of the passing runs is a theorem.  What is
   left to TLC is liveness: `Converges` and `AttemptsEnd`.

No module uses RECURSIVE, so theorems can be stated about each of them.

## 3. UniverseRelease

**What is modelled.**  Any number of runs of `release_builder.py`.  A run's
command line and environment are `cfg[r]`; `pc[r]` says how far `main` has
come.  `s3` remembers which run wrote each file of each release directory (file
0 is the stub universe that only "move" puts there), `registry` which run pushed
each release image, `pr` the branch and pull request of each run, `site` what
the Universe server shows.

| Action | Code |
| --- | --- |
| `RejectVersion` | `apply_beta_version` refuses `-beta` without `BETA` |
| `Prepare` | the stub universe is fetched and rewritten: `_update_package_get_artifact_source_urls` up to `_update_resource_json`, with the docker push inside, and `upgradesFrom` read from the Universe server |
| `CheckDestination` | `aws s3 ls` of the destination in `_copy_artifacts_s3`; an occupied directory needs `FORCE_ARTIFACT_UPLOAD` |
| `UploadArtifact` | one turn of the copying loop |
| `UploadStub` | the end of `move_package` |
| `CloneUniverse` | shallow clone and `_find_release_index` |
| `PushBranch`, `CreatePullRequest` | commit, push, POST to GitHub with its possible outcomes |
| `Abort`, `Fail` | an exception or a kill at any point |
| `OpenByHand`, `Merge`, `Publish`, `RemoveDirectory` | the people and services around the tool, as its messages tell them to act |

The tool has no lock: two runs may work on one directory at a time.  A run whose
`waits` is TRUE is started by somebody (a CI job) who lets earlier runs of its
directory end first, and `Sequential` says that every run is started that way.

**Runs.**  `release` has workloads of two sorts (`MCWorkloads`).  In one every
run waits: three runs of four kinds, a release, a move with a smaller build, a
forced release, a renamed beta.  `ReleasedIntact`, `NoStomp` and `AnnouncedOnce`,
whose premise is `Sequential`, say of these that with crashes, refused and forced
runs and clean-ups an announced release keeps its files, and the directories
behave as `ReleaseRegister` says.  In the other no run waits: three runs of seven
kinds, among them hotfixes with a chosen index, dry runs, rejected versions.
`AnnouncedComplete`, `IndexFitsClone` and `UpgradeSourcePublished` need no such
discipline and hold of both.  `release_stomp` shows what happens without it
(`NeverStomped`, section 11).  `IndexFitsClone` speaks of
the run's own clone: two open pull requests may hold one index, and what refuses the
second is GitHub.  A request to the Universe server that fails counts as a
Universe without packages (`Latest`), so `upgradesFrom` may be empty in every run;
`UpgradeSourcePublished` says that it never names anything else than a release.

**Bounds.**  One version, since directories of different versions do not meet;
its beta directory is there too.  Builds with 0, 1 and 2 artifacts: a destination
half written, and one that is never written.  Three runs: one that is protected,
one that endangers it, and one that comes between (a failed or forced run).
Indexes up to 400 leave room for every index three runs can choose; the
Universe starts with {0, 5} for the GA package, a release and a hotfix.  Runs
are symmetric.  Deadlock is not checked: all runs end.

**Fairness.**  None.  A run may be killed at any time and nobody is obliged to
start another one, so the tool promises safety only.

**Proofs.**  `UniverseReleaseProofs`: `TypeCorrect`; `ThisIndexFits` and
`PriorIndexFits`, the arithmetic of the index for any set of indexes;
`AnnouncedPackagesComplete` by `ProgressInv` (whoever is past its uploads, and
whoever landed, has all files in place; files behind `next` are there;
a directory is only emptied when nobody active or landed uses it);
`IndexesFit` by `ChosenInv`.  Nothing is assumed beyond the named ASSUMEs,
runs may overlap.  `ReleaseProtectionProofs`: `ReleasesStayIntact`,
`NothingStomped` and `ReleasesAreRegister` (every step of `UniverseRelease` is a
step or a stutter of `ReleaseRegister`); their invariant has the premise
`Sequential`, a fact about the command lines that no step changes (`ConfigsKept`).
`ProtectInv` says that an unforced run which is uploading works in a directory
holding nothing but its own files, which is exactly what the check of the
destination establishes and what the absence of a second run keeps.
`ReleasesAreRegister` also assumes that every build has an artifact:
a build without any leaves no trace on S3, and a second release of it would not
be refused (a hazard in PROJECT.json).  `UpgradesFromReleases` needs
`UpgradeInv`: the property, and `RequestsInv`, that a run whose pull request is open
or merged has ended, so that no step of it can withdraw the release another run
was told of (`PackagesGrow`: the Universe never loses one).  A run that is about to choose
its index sees every merged package in its clone, hence the index it adds is
above the one it upgrades from.

**Left out.**  The texts that are rewritten, diffs of packages and the
log.  A run counts as announced (`Landed`) when it is done, when its pull request was
refused and it asks for one by hand ("needs_pr"), and when the answer to the request
was lost ("unanswered"), since the pull request may be open.  GitHub's refusal to merge a
directory that exists is taken from how branches work.  `RemoveDirectory` is an
operator who looks whether a release uses the directory; the tool only tells
them to remove it.

## 4. SubmitBuilder

**What is modelled.**  `buildSubmitJson` and what it calls, one action per
stage, over the properties `props`.  A property is the sequence of the items of
its value, so that appending to a comma list is concatenation and setting a
value is a list of one item.  The inputs are `cmd`, a command line with its
properties file and environment, and `disp`, Marathon's answer.

| Action | Code |
| --- | --- |
| `FetchMarathonConfig` | the request, which may fail |
| `ParseArgs` | `transformSubmitArgs` (`--jars` and `--packages` synthesise `--conf` settings), kingpin's parse, `--conf` values |
| `ApplyFlags`, `ApplyFile` | flags, environment and defaults; then the properties file; both only where nothing is set |
| `SetApplication`, `SetImage`, `LabelSpace`, `AddHdfs` | the middle of `buildSubmitJson` |
| `SetupKerberos`, `SetupTLS`, `SetupSASL` | `security.go` |
| `Submit` | the POST |

Operators follow `utils.go`: `Overwrite` is a plain assignment, `SetIfAbsent`
is `setPropertyIfNotPresent` style merging, `AppendAll` is `appendToProperty`,
and `AddSecrets` is the group of appends of `security.go`, which extends the
environment keys only when there are some.

**Runs.**  `submit` combines eleven ways to write `--conf` and flags, two
properties files, eight Kerberos, five TLS and four SASL settings with three
dispatchers, and separately languages, classes, images and the environment.  It
shows `SecretsDelivered` (each credential is mounted, in drivers and executors,
under the file name another property refers to; the lists stay in step),
`SecretsNeedMesos`, `ConfWins`, `SecurityComplete` and `ListsGrow`.  The runs `submit_env_secrets` and `submit_principal` hold
disagreements (section 11).  `SecurityComplete` claims the principal of the flag only: one that
is given as `spark.yarn.principal` is lost, as `submit_principal` shows.

`Mounted` gives the lists the reading Spark gives them: they are zipped, item by
item.  `SecretsDelivered` leaves out a ticket by value, which adds a file
name without a secret name, because no document says how it is to be combined
with secrets by reference.  `ConfWins` compares the submission with `LastTyped`,
which says without any rewriting of the command line what was typed last for a
key: by `--conf`, or by `--jars`, which sets three of them in its place.  So a
`--conf` of these keys behind `--jars` replaces what the flag put in (section 11),
and one in front of it is replaced.  `ConfWins` leaves out what `Overruled` lists:
the keys the builder manages by design, and the Ivy directory `--packages` sets.

**Bounds.**  The parts of a command line that meet in one property are
combined exhaustively; parts that do not meet are not.  Lists of two items
distinguish prefix, suffix and order.  A submission is one sequential pass, so
there is no fairness and no deadlock check.

**Left out.**  Splitting of the command line into words, the JSON encoding,
`spark.ssl.noCertVerification` and further flags that are handled like the ones
kept: `spark.driver.memory` stands for three settings with a default, one KRB5
variable for four.

**Empty texts.**  `--conf key=` gives a property with an empty value, which
counts as set; a flag or an environment variable with an empty text does not
(`Blank`); and an empty `spark.jars` is replaced by the application, not
extended.  `ConfWins`, `SecurityComplete` and `ListsGrow` say exactly where that
matters: an empty list of jars is the only text of a `--conf` that is lost, an
empty password is only there if the user set it.

**Proofs.**  `SubmitBuilderProofs` proves every property of `submit` for any
texts, command lines, properties files and answers of Marathon: `TypeCorrect`,
`SecretsReachTheirFiles`, `SecretsUseMesos`, `SecurityIsComplete`, `ConfIsKept`
and `ListsOnlyGrow`.  The argument has three layers.

1. *Updates.*  What `Overwrite`, `SetIfAbsent`, `AppendAll` and `AddSecrets` do to
   one key.  `Extends(p, q)` (every key outside `Managed` has its old value as the
   beginning of the new one) is kept by all but the plain assignment, and by that
   for managed keys.
2. *Stages.*  For each stage what it adds: `Grown` for the application, which may
   put itself in front of the jars, `Later` for the stages after it, and
   `KerberosDone`, `TlsDone`, `SaslDone`.  `SecretPut` is a secret and its file
   appended to both lists of a task together; `PutIsPlaced` says that if the lists
   were in step, the pair is among the zipped ones, and `StaysPlaced` that later
   pairs do not move it.
3. *Invariant.*  `Inv` has four parts: `TypeOK`; `EarlyFacts` (until the file has been
   read the properties are a function of the command line); `LateFacts` (from
   then on they grow from the user's own, and until Kerberos nothing that
   security is decided by has changed); `SecureFacts` (what each security stage
   has put in place is still there).  The properties alone are not inductive:
   they speak about the end, and compare it with the user's settings, which only
   `LateFacts` connects with the current ones.

For `ConfIsKept`, `TypedText` shows that the parser finds `LastTyped` in the
command line with the inserted settings: an inserted one counts unless a later one
follows (`ConfPutIn`, `ConfBehind`), and the last `--conf` of every other key stays
where it counts (`ConfKept`).

## 5. StatsdReporter

**What is modelled.**  The sink of one process.  `report()` is synchronized:
`owner` is the thread inside it, the scheduler's or the one that shuts Spark
down.  It walks the metrics in the order of their kinds (`at`); for each it
builds all lines (`made`, `lines`), each in two steps because tags and name
come from two questions to `InstanceDetailsProvider` (`half`), and then sends
them.  `initialized` and `instance` are the provider's cache.  `net` holds the
packets, `server` what the StatsD server shows for each series of a metric, a
series being told apart by whether the IDs are stripped from the name and
whether they are tags.

| Action | Code |
| --- | --- |
| `Poll`, `Report`, `Stop` | `StatsdSink` |
| `BuildTags`, `RemoveIds` | `MetricFormatter.buildMetricString`, `buildTags`, `removeIds` through `InstanceDetailsProvider.getInstanceDetails` |
| `SendLine`, `NextMetric`, `EndCycle`, `Fail` | `StatsdReporter.report`, `send` |
| `SetSparkEnv`, `Update`, `Deliver`, `Duplicate`, `Lose` | Spark, UDP, the server |

**Runs.**  `statsd` shows `NameAndTagsAgree`, `OneSeries`, `NeverAhead` and
`Converges`; `statsd_tags` refutes `TagsAppear`, which the reporter's README
promises.  Two or three metrics cover a kind with one line, with several lines of
different StatsD types, and with none.  One update tells old from new, two
packets under way let one overtake another.  Deadlock is not checked: a stopped
sink is silent.

**Fairness.**  Weak fairness of `Poll` (a `ScheduledExecutorService` at a
fixed rate), of the steps of a cycle (a running thread), of `SetSparkEnv`
(SparkContext and the executor backend set it right after the metrics system has
started) and of the delivery of each kind of packet.  Failures and losses are
never obliged to end: both liveness properties say what follows *if* they
end (`FaultsEnd`), since a gauge that throws in every cycle does starve the
metrics behind it.

**Proofs.**  `StatsdReporterProofs`: `TypeCorrect`; `TagsFollowNames` and
`SeriesAreUnique` by `SeriesInv` (once the provider has answered, every line,
packet and series carries that answer; before, there are none);
`ServerNeverAhead` by `CountInv` (no line, packet or series exceeds the value of
its metric, and only gauges are sent for counted things).  They hold for any
metrics, filters and bounds.  Liveness is model-checked only.

**Left out.**  Formatting of numbers, prefixes and user tags; the statistics
the server derives from timers; exceptions of `InstanceType.valueOf` and
`getAppId`.

## 6. DispatcherDeployment

**What is modelled.**  Attempts at `deploy-dispatchers.py`, one after the other
on one cluster.  `main` is the main thread, `awaited` the result it waits for;
`step[s]` says how far the thread that runs `install_package` for service `s` is,
and `tries[s]` counts the rounds of `_retried_install_impl`.  The cluster is
`apps` (Marathon), `quota` (which attempt made the quota of a role) and `granted`
(permissions of the service account); `outfile` and `jsonfile` are the two
files.  `installs`, `touched` and `missed` are history: which attempt installed what,
which worked on it last, and which got no for an answer when it asked whether it
was there.

| Action | Code |
| --- | --- |
| `Begin` | `install`, `executor.map`: all calls are queued |
| `Take` | a free thread of the pool takes the next call |
| `SetUpSecurity` | `scale_tests_utils.setup_security`, `sdk_security.create_service_account` |
| `ClearQuota`, `CreateQuota` | `setup_role`, `create_quota`, once for each role |
| `Grant` | `setup_spark_security` |
| `CheckInstalled` | the first lines of `sdk_install.install` |
| `TryInstall`, `Wait` | a round of `_retried_install_impl`: `app_exists`, `install_app` whose answer may get lost, `deployment_wait`; `Retry` is its decorator |
| `Collect`, `Raise`, `Drained` | `list(executor.map(...))` and the end of the `with` |
| `OpenFile`, `WriteLine`, `WriteJson` | the two files |
| `Kill` | the process is killed, between any two steps |
| `TearDown` | `uninstall-dispatchers.sh` for one line of the file, its failures being passed over |

Every command may fail, each at its own step.  `Strict` says whether the
cluster runs in strict mode (without it there are neither accounts nor
permissions).  `app_exists` answers no when there is no application, and on any
error (`Answers`): install may then take the application of an earlier attempt
for its own.

**Runs.**  `deploy` (`Strict` TRUE) shows `RunningReady`,
`RecordedWereInstalled`, `RecordOnlyComplete` and `AttemptsEnd`.
`RecordedWereInstalled` says that what is listed was installed by the run that
lists it, or overlooked by the question with which `install` begins; no other way leads
there.  `deploy_partial` refutes `AllRecorded` (section 11).

**Bounds.**  Two services, so that one can fail, wait or be queued while the
other goes on; two attempts, with or without quotas and of one or two
services, so that a second one finds what a first one, a kill or a teardown
left; two workers, so that they interleave.  The limit of the pool is therefore
not reached in this run; the theorems hold for any number of workers.  Three
tries are the code's.  Deadlock is not checked: the last attempt ends.

**Fairness.**  Weak fairness of the main thread and of each thread of the pool:
a running thread goes on, because each command and request returns (the
waits of shakedown have timeouts).  `AttemptsEnd` says that then each attempt
ends, whatever fails.  Nobody has to start, kill or take down anything.

**Proofs.**  `DispatcherDeploymentProofs` proves, for any numbers of services,
workers and attempts, `TypeCorrect`, `RunningStaysReady`, `FilesOnlyComplete`
and `FilesListInstalled`, whatever `app_exists` answers.  `RunningReady` is not inductive:
a worker at "install" is about to make its premise true.  `Inv` adds, for
each service, who works on it (`PoolOf`: a busy service belongs to the current
attempt, which has not installed it before it is at "install"), what is prepared
at each step (`PreparedOf`), that an application found while installing is the
attempt's own or one it overlooked (`OwnOf`), and how far the main thread's view is right
(`FollowedOf`: collected results are done, so while the files are written
all are).  One lemma per group of actions shows that each keeps `Inv`.
`AttemptsEnd` is model-checked only.

**Left out.**  Service options and names (a service is its index); the check of
the options file, the package repository and the CLI package, which precede
`Begin` and change nothing the properties see; the janitor; `linux_user`.
`_installed_service_names` of sdk_install is the set of services at "done".  An
installation whose request reaches Cosmos only after the script has given up on
it is not modelled.

## 7. PackagePublishing

**What is modelled.**  Runs of `publish_aws.py`, `publish_http.py` and
`publish_dcos_file.py`, which share the builder of
`tools/universe/package_builder.py`.  `cfg[r]` is the command line, environment
and package template of a run, `pc[r]` how far it is, `at[r]` the package file
being templated.  The shared world: `local` (which build of an artifact is in the
build tree), `site` (the package's release in the Universe), `stubAt`, `fileAt`
and `bundleAt` (whose stub, which builds, whose bundle a directory holds), the
`script`, `servers` and `taken` ports of the machine, and the cluster's `repos`,
a set, since their order decides nothing here.
A URL is a port or a directory; a hash is the build it was taken of.

| Action | Code |
| --- | --- |
| `Start`, `Construct` | `main`, the constructors; two artifacts of one name are refused |
| `LookUpUpgrades`, `LookUpDowngrades` | `_get_upgrades_from`, asked twice for each package file; `Latest` and `Remember` are `PackageManager.get_packages`, which keeps an answer only if it has packages |
| `Template` | `_get_sha_template_mapping` and the replacement until nothing changes |
| `Assemble` | `build_package`, `build_package_files` |
| `PutStub`, `PutArtifact`, `EndArtifacts`, `UploadBundle` | the order in which each publisher writes |
| `Spam` | `_spam_universe_url`; with `WORKSPACE` set `publish_http.py` stops here, at `self._s3_directory`, which nothing sets |
| `Launch`, `WriteScript`, `Bind`, `Wipe` | `killall`, the choice of the port, the script and its interpreter, and `build()` emptying the directory the script is in |
| `ListRepos`, `RemoveRepo`, `AddRepo` | `add_repo_to_cli` |
| `Raise`, `Fail` | the exceptions of the code, and failures and kills at any point |
| `Rebuild`, `Release`, `TakePort` | what others do meanwhile |

`announced` holds the runs that have written the URL to where others read it.
`latest`, `crowded` and `dirty` are history variables: the last run that began in
a place, the runs that worked in a place together, and the artifacts replaced
after they were hashed.  The properties use them as premises, since no publisher
locks anything: `UrlComplete`, `AddNeverRefused` and `UrlServed` are claimed for
runs that had their place to themselves (`Undisturbed`), and an artifact replaced
under a run is excused.  `BundleWhole` needs no such premise: a bundle is one object.

**Run.**  `publish` checks twelve pairs of runs: the same directory, overlapping
or one after the other, different and random ones, dry runs, a `.dcos` bundle next
to a directory and next to another bundle, templates that are refused (no row in
a manifest, two artifacts of one name, files that are too large, a value that
contains its own key), web servers with fixed and free ports, and repositories
that are there already.  Two runs are what the properties speak about: one that
publishes, and one that came before, comes between or follows.  Two artifacts let one
be there while the other is not; two ports let one be taken.

**Fairness.**  None: nothing obliges a run to go on, and a template value that
contains its own key is replaced for ever (`package_builder.py:220`).  The
scripts end, so deadlock is not checked.

**Left out.**  JSON layout, template values other than hashes and versions, the
AWS and registry commands' own behaviour; `UNIVERSE_URL_PREFIX`.  `S3_URL` without `ARTIFACT_DIR`
gives a stub whose links do not point to the directory it is uploaded to: the model has it
(`Base` differs from `Place`), and `UrlComplete` leaves it out.

**Proofs.**  `PackagePublishingProofs` proves every property of the run, for any
numbers of runs, artifacts, directories and ports and any workloads.
`TypeCorrect` rests on `MethodInv` (who is in a phase has the method for it) and
`PortInv` (nobody starts a server before it has a port).  `AnswersAgree`:
`AnswerInv` says that between the two questions the cache holds the first answer.
`BundlesAreWhole`: `HashInv` (hashes are those of the build tree, or the artifact
is in `dirty`) and `CopyInv` (the artifacts `Before` the current one are in the
scratch directory).  The other three are about undisturbed runs: `AloneInv` says that nobody
else is active in their place, so every step of another run is `Elsewhere`, and
`UrlInv`, `ListInv` and `ServerInv` need only follow the run's own steps.

## 8. StreamingSetup

**What is modelled.**  Runs of `setup_streaming.py`, one after the other, each
of which installs or, with `--cleanup`, removes.  A service is a kind and an
index.  `todo` and `step` say what the run does; `services` are the lists of those it has
installed, one for each kind, `uri` the ZooKeeper whose address was looked up for the
Kafka at hand.  `file` is the output file, `app` the Marathon application, `uses` the
ZooKeeper whose address an application was made with, `account` and `secret` the run whose key pair
they hold.

| Action | Code |
| --- | --- |
| `BeginInstall`, `BeginCleanup` | `main`; `Wanted` is the order of `install`, with `_get_cluster_count` capping Cassandra |
| `FindZookeeper` | `zookeeper_services[i]` (`Position`) and the CLI's endpoints |
| `DeleteAccount`, `DeleteSecret`, `CreateAccount`, `CreateSecret`, `Grant` | `sdk_security.setup_security`: four commands whose exit code nobody looks at, and permissions whose answers are asserted |
| `ReadOptions`, `CheckInstalled`, `InstallApp`, `Retry`, `Installed` | `install_package` and `sdk_install.install` |
| `Truncate`, `Write` | `open(..., "w")` and `json.dump` |
| `Uninstall`, `CleanupSecurity`, `EndCleanup` | `cleanup` |
| `Raise`, `Fail` | an exception of the code; a failure for good or a kill |

The keys are replaced *before* `install` looks whether the service is there.  The
second run over a running service therefore takes its keys away, which
`KeysMatch` excuses through the history variable `spoiled`, as it does silent
failures; what the code guarantees is that nothing else separates an account from
its secret.  `fate` and `origin` are history too: what happened to the services of
the file since it was written, and what its run was asked for.

The code matches Kafkas and ZooKeepers by their positions in two lists, and so
does `Position`.  `OwnZookeeper` is about what comes of it in the cluster: no two
Kafkas that were made by any runs use one ZooKeeper, also when a retry or an
application that `app_exists` overlooked leaves one with the address an earlier run
gave it.

**Run.**  `streaming`: four runs with two requests, two Kafka clusters (so that
a wrong ZooKeeper can be picked) or one with more Cassandra clusters than are
supported; three faults, so that a service can fail twice and succeed and a run be
killed; in strict mode and outside it.  Four runs are an installation that fails, one that succeeds, a
cleanup that is killed and one that is not.

**Fairness.**  None; both the script and its operator may stop, so deadlock is not
checked.

**Left out.**  Names, package names and options; the number of tasks awaited;
`revoke_permissions`, which does nothing (`sdk_security._revoke` only logs).

**Proofs.**  `StreamingSetupProofs` proves every property of the run, for any
numbers of clusters, requests, runs and faults: `TypeCorrect`, `OwnZookeepers`,
`FilesComplete`, `KeysAlwaysMatch` and `CleanupsComplete`.  They share the
invariant `Inv`.  `ScriptInv` ties what is installed and what is still to do to the
order of `install`; it makes `FileComplete` follow when the file is written.
`WiringInv`: the list of ZooKeepers holds at each position the one with that index,
because the lists in their order are a beginning of what was asked for (`CurrentLists`);
so the address that is looked up is that of the ZooKeeper with the Kafka's index,
and that is the only one any application was ever made with.  What this run
has installed runs.
`KeysInv` follows the keys of the service at hand through the four commands
(`KeysAt`): unless one failed unnoticed, at "secret" the account is this run's,
so the secret that is created matches it; `StrictInv` says that without strict mode
there are none.  `CleanupInv`: what a cleanup has taken off its list is removed,
also when the list is that of a file an earlier, killed cleanup left.

## 9. SparkTestSession

**What is modelled.**  Sessions of integration tests on a strict cluster: the
fixtures `configure_security_spark` and `configure_universe`, then one module
after the other with `setup_spark`, one job by `run_tests`, and `teardown_spark`,
then the fixtures' ends.  A module may have grants of its own, as
`tests/test_spark_users.py` has.  `pc` is the phase, `at` the module, `left` what a loop
has still to handle, `stubs` what the session knows it has added.  The cluster
is `account`, `secret`, `grants`, `marathon` (permissions of Marathon's own
account), `repos`, `jar`, `dispatcher`, `znode` and `drivers`.

| Action | Code |
| --- | --- |
| `ResetAccount`, `CreateAccount`, `GrantUser`, `GrantService`, `EndGrants` | `spark_security_session`'s `setup_security`, and the grants of a module |
| `RemoveDuplicates`, `AddRepo`, `EndRepos` | `sdk_repository.universe_session` |
| `Upload`, `Uninstall`, `Janitor`, `Install`, `Reach` | `setup_spark`, `require_spark`, `teardown_spark` |
| `Submit`, `Check`, `Kill` | `run_tests` |
| `RevokeExtra`, `Revoke`, `DropAccount`, `RemoveRepo`, `EndRemove` | the `finally` blocks; `revoke_user_permissions` *grants* Marathon the user once more, and `_revoke` does nothing |
| `Raise`, `Fail` | an exception; `Raised` says which `finally` block comes next |
| `Die` | the session is killed, no `finally` block runs |
| `Finish` | a job ends |

Many commands fail without anybody noticing: deleting and creating an account,
the janitor, `kill`.  The history variable `excused` collects what such a failure,
an exception in a `finally` block, or a kill has left, and the properties say
that nothing else is ever left, missing or stale.  Excused is not harmless:
`LeftoversOvercome` says what it may not do.  `since` is the number of faults
before the session began; a session without one of its own meets everything
that earlier ones left (repositories, an account with another session's secret, a
running dispatcher, ZooKeeper state), is stopped by none of it, runs its jobs
with its own keys and leaves nothing, drivers of earlier sessions apart.

**Run.**  `session`: three sessions of three modules, one with grants of its own
between two without, on two dispatchers; two stub universes, so that one can be added and the
other fail; three faults.  Three sessions are one that is killed, one that
meets what it left and fails in turn, and one that must get past both.

**Fairness.**  None.  A session's steps come in one order and end; that they do
is no property of this code.  After the last session nothing happens, so
deadlock is not checked.

**Left out.**  What jobs compute, job arguments, open and permissive clusters
(which have no accounts), repositories others added, concurrent sessions on one cluster.

**Proofs.**  `SparkTestSessionProofs`, for any modules, dispatchers, users, stub
universes and numbers of sessions and faults: `TypeCorrect`, `FreshDispatchers`,
`DriversAreKilled`, `NothingIsLeft`, `JobsAreAuthorized` and `LeftoversAreOvercome`.  Two lemmas say who
may take an excuse back (`ExcusesKept`) and that a module takes nothing away from
the session (`ModuleKeeps`).  `RepoInv` is what makes the stub universes go: a
session knows them in every phase of a module, and at the end those still there are among
those `left`.  `KeyInv` needs the moment between `ResetAccount` and
`CreateAccount`, when an account that is still there is excused, and `GrantInv`
that a module's own grants cover what the session's do not
(`ModulesAssumption`, a fact about the test modules).  `CalmInv` follows a session without
a fault: its keys are its own from `CreateAccount` on, a repository that is still to be
added is not there, and a dispatcher that is left belongs to a module still to come
(`SinceInv`: every dispatcher belongs to some module), which uninstalls it first.

## 10. What is not modelled

The other CLI commands keep no state.  The test SDK's wrappers for plans, tasks
and agents poll DC/OS; `sdk_upgrade.py` and the configuration bumps of
`sdk_marathon.py` are used by no test of this repository.  The scale tests that
submit jobs (`batch_test.py`, `kafka_cassandra_streaming_test.py`) read the list of
dispatchers and keep nothing.  The KDC, airgap, volume and vagrant tools are
sequential scripts around shell commands; `tools/enable_mount_volumes.py` stops at
line 182, where `environ` is not defined.  The start of the dispatcher container
expands templates; a restart in one container sees the same environment and
appends the lines it appended before, so the last value of each key stays.

## 11. Disagreements found

| Run | Code | Against |
| --- | --- | --- |
| `release_stomp` | the destination is listed once and written later; two unforced runs both pass the check | `release_builder.py:315`, "to avoid automatically stomping on a previous release" |
| `submit_env_secrets` | the keystore is zipped with the user's secret when that is environment-based | `docs/security.md:190` |
| `statsd_tags` | a report before SparkEnv exists leaves the process untagged | `spark-statsd-reporter/README.md:20` |
| `deploy_partial` | one of two dispatchers is installed, the other fails, and the file lists neither | `scale-tests/deploy-dispatchers.py:72` |
| `submit_principal` | `spark.yarn.principal` given by `--conf` switches Kerberos on and is replaced by the empty flag (`security.go:183`) | `security.go:180`, which tells the user that principal is used |

Seen while modelling, without a run of their own:

- an error in `app_exists` lets install pass over a running dispatcher and report it
  as its own (`sdk_marathon.py:65`, against `sdk_install.py:95`, "If the package is
  already installed at this point, fail immediately."); `missed` in
  `DispatcherDeployment` marks these;
- a run of `setup_streaming.py` that fails leaves the services it has installed in
  no file (line 211, against line 16, "to store the information for the installed
  services");
- a `--conf spark.mesos.uris` behind `--jars` replaces the URIs the flag put in, so
  the jars are on the class path and never fetched (`submit_builder.go:373`, against
  line 358, "instruct Mesos Fetcher to download jars");
- a failed request is an empty Universe, and the package gets no upgrade path
  (`package_manager.py:118`, against `release_builder.py:223`, "nothing to upgrade
  from"): `Latest` in `UniverseRelease`;
- the docker image is pushed before the destination is checked
  (`release_builder.py:293`, against the comment at 314, "Before we do anything else");
- `--jars` keeps `--driver-class-path` out (`submit_builder.go:384`, against the
  help at 201);
- `publish_http.py:67` reads `self._s3_directory`, which nothing sets: with
  `WORKSPACE` the run stops before the repository is added;
- all three publishers ask for two arguments and read a third (`argv[3]`);
- a dry run of `publish_aws.py` writes the URL of a stub nobody uploaded to the
  properties file;
- the Makefile takes the stub universe's URL from a log line `publish_aws.py`
  writes before the artifacts are uploaded (line 98), in a pipeline whose failure is
  not noticed; `UrlComplete` is about the properties file, written after them;
- `revoke_user_permissions` grants (`spark_utils.py:312`), and logs that it revokes;
- `spark_utils.py:273` logs the URL of the other jar.

## 12. Running

    tlc -workers 2 -config release.cfg MCUniverseRelease.tla
    tlapm UniverseReleaseProofs.tla

PROJECT.json lists every run with its configuration and properties, the
mutations each property was tried against, the source lines of each definition,
the hazards of the code (those no property covers say why) and the theorems.
