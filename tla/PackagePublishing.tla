-------------------------- MODULE PackagePublishing --------------------------
(***************************************************************************)
(* Building a stub universe out of a package template and publishing it    *)
(* with its artifacts: tools/universe/package_builder.py and the three     *)
(* publishers publish_aws.py (an S3 directory), publish_http.py (a local   *)
(* directory, a web server and an entry in the CLI's repositories) and     *)
(* publish_dcos_file.py (one .dcos bundle on S3).  Runs share the build    *)
(* tree, S3, the machine and the cluster's list of repositories.           *)
(***************************************************************************)
EXTENDS Integers, Sequences, FiniteSets

CONSTANTS
  Runs,          \* runs of the publishers
  NoRun,         \* stands for the absence of a run
  Dirs,          \* S3 directories
  Host,          \* HTTP_DIR
  Artifacts,     \* file names of artifacts
  Listed,        \* artifacts for which the SHA256SUMS manifest has a row
  Ports,         \* ports of HTTP_HOST
  Workloads,     \* what is asked of the runs, and which repositories there are
  Volatile,      \* artifacts a parallel build may replace
  MaxBuild,      \* bound on the builds of an artifact
  MaxRelease     \* bound on the releases of the package in the Universe

Files  == {"package", "resource"}   \* .json; the other two files add no reference
Places == Dirs \union {Host}

Config ==
  [method   : {"aws", "http", "dcos"},
   dir      : Dirs,               \* where S3_URL or the default points
   base     : Dirs,               \* where ARTIFACT_DIR or the default points
   named    : BOOLEAN,            \* is dir set in the environment, or random?
   dry      : BOOLEAN,            \* DRY_RUN, not read by publish_http.py
   provided : Seq(Artifacts),     \* the artifact files, by their names
   refs     : SUBSET Artifacts,   \* {{sha256:name}} in resource.json
   remote   : SUBSET Artifacts,   \* those written {{sha256:name@manifest}}
   online   : BOOLEAN,            \* can the Universe be reached at all?
   files    : Seq(Files),         \* package files of at most 1 MB, as os.listdir has them
   growing  : BOOLEAN,            \* a template value that contains its own key
   jenkins  : BOOLEAN,            \* WORKSPACE
   port     : Ports \union {0},   \* HTTP_PORT
   cli      : BOOLEAN]            \* is there a dcos command?

Repository == [name : {"universe", "local", "other"}, uri : Ports \union {0}]

ASSUME RunsAssumption   == NoRun \notin Runs
ASSUME PlacesAssumption == Host \notin Dirs
ASSUME PortsAssumption  == Ports \subseteq Nat \ {0}
ASSUME InputAssumption  == Workloads \subseteq [cfg : [Runs -> Config], repos : SUBSET Repository]
ASSUME BuildAssumption  == Volatile \subseteq Artifacts
ASSUME BoundAssumption  == MaxBuild \in Nat \ {0} /\ MaxRelease \in Nat

Unanswered    == -1               \* the Universe was not, or not usefully, reached
DryRunVersion == MaxRelease + 1   \* DRY_RUN_VERSION
Answers       == Unanswered .. DryRunVersion   \* 0: other packages, but not this one

VARIABLES
  cfg, pc,       \* what each run was asked for, and how far it is
  at,            \* the package file being templated
  cache,         \* what PackageManager keeps of the Universe's answer
  stub,          \* the stub universe built: versions and hashes
  copies,        \* artifacts in the scratch directory of a .dcos bundle
  next,          \* the next artifact to copy or upload
  port, child,   \* the web server's port, and its process
  doomed,        \* names of repositories to remove
  local,         \* builds of the artifacts in the build tree
  site,          \* the release of the package in the Universe, 0 for none
  stubAt, fileAt, bundleAt,   \* whose stub, builds, and bundle a place holds
  script,        \* the run whose server script is in HTTP_DIR
  servers, taken,             \* ports with a server of this package, or another one
  repos,         \* the cluster's repositories, their order left out
  announced,     \* runs that have written the URL for others to use
  latest, crowded, dirty      \* history, see Undisturbed

buildVars == <<at, cache, stub>>
hostVars  == <<port, child, script, servers>>
storeVars == <<stubAt, fileAt, bundleAt>>
listVars  == <<doomed, repos>>
worldVars == <<local, site, taken>>
histVars  == <<latest, crowded, dirty>>
vars == <<cfg, pc, buildVars, copies, next, hostVars, storeVars, listVars, worldVars,
          announced, histVars>>

Phases == {"new", "launch", "construct", "script", "file", "downgrades", "hashes",
           "wipe", "stub", "artifacts", "bundle", "spam", "list", "repos", "done", "failed"}

NoStub == [up |-> Unanswered, down |-> Unanswered, hash |-> [a \in Artifacts |-> 0]]

TypeOK ==
  /\ cfg \in [Runs -> Config]
  /\ pc \in [Runs -> Phases]
  /\ at \in [Runs -> Nat \ {0}]
  /\ cache \in [Runs -> Answers]
  /\ stub \in [Runs -> [up : Answers, down : Answers, hash : [Artifacts -> 0 .. MaxBuild]]]
  /\ copies \in [Runs -> [Artifacts -> 0 .. MaxBuild]]
  /\ next \in [Runs -> Nat \ {0}]
  /\ port \in [Runs -> Ports \union {0}]
  /\ child \in [Runs -> {"none", "starting", "up", "dead", "lost"}]
  /\ doomed \in [Runs -> SUBSET {"universe", "local", "other"}]
  /\ local \in [Artifacts -> 1 .. MaxBuild]
  /\ site \in 0 .. MaxRelease
  /\ stubAt \in [Places -> Runs \union {NoRun}]
  /\ fileAt \in [Places -> [Artifacts -> 0 .. MaxBuild]]
  /\ bundleAt \in [Dirs -> Runs \union {NoRun}]
  /\ script \in Runs \union {NoRun}
  /\ servers \in SUBSET Ports /\ taken \in SUBSET Ports
  /\ repos \subseteq Repository
  /\ announced \in SUBSET Runs
  /\ latest \in [Places -> Runs \union {NoRun}]
  /\ crowded \in SUBSET Runs
  /\ dirty \in [Runs -> SUBSET Artifacts]

------------------------------------------------------------------------------

Init ==
  /\ \E w \in Workloads : cfg = w.cfg /\ repos = w.repos
  /\ pc = [r \in Runs |-> "new"]
  /\ at = [r \in Runs |-> 1]
  /\ cache = [r \in Runs |-> Unanswered]
  /\ stub = [r \in Runs |-> NoStub]
  /\ copies = [r \in Runs |-> NoStub.hash]
  /\ next = [r \in Runs |-> 1]
  /\ port = [r \in Runs |-> 0]
  /\ child = [r \in Runs |-> "none"]
  /\ doomed = [r \in Runs |-> {}]
  /\ local = [a \in Artifacts |-> 1]
  /\ site = 0
  /\ stubAt = [p \in Places |-> NoRun]
  /\ fileAt = [p \in Places |-> NoStub.hash]
  /\ bundleAt = [d \in Dirs |-> NoRun]
  /\ script = NoRun
  /\ servers = {} /\ taken = {}
  /\ announced = {}
  /\ latest = [p \in Places |-> NoRun]
  /\ crowded = {}
  /\ dirty = [r \in Runs |-> {}]

Is(r, method) == cfg[r].method = method
Provided(r)   == {cfg[r].provided[i] : i \in DOMAIN cfg[r].provided}
Place(r)      == IF Is(r, "http") THEN Host ELSE cfg[r].dir     \* written to
Base(r)       == IF Is(r, "http") THEN Host ELSE cfg[r].base    \* named in the stub
Active(r)     == pc[r] \notin {"new", "done", "failed"}
Dry(r)        == cfg[r].dry /\ ~Is(r, "http")

Goto(r, from, to) == pc[r] = from /\ pc' = [pc EXCEPT ![r] = to]

\* A random directory is one nobody has used.  main reads the arguments, the
\* constructor of the publisher checks files and the aws command.
Start(r) ==
  LET neighbours == {q \in Runs : Active(q) /\ Place(q) = Place(r)} IN
  /\ Goto(r, "new", IF Is(r, "http") THEN "launch" ELSE "construct")
  /\ ~cfg[r].named /\ ~Is(r, "http") => \A q \in Runs : pc[q] # "new" => Place(q) # Place(r)
  /\ latest' = [latest EXCEPT ![Place(r)] = r]
  /\ crowded' = IF neighbours = {} THEN crowded ELSE crowded \union neighbours \union {r}
  /\ UNCHANGED <<cfg, buildVars, copies, next, hostVars, storeVars, listVars, worldVars,
                 announced, dirty>>

------------------------------------------------------------------------------
\* The builder of a package

\* Two artifacts of one name are refused.
Construct(r) ==
  /\ Goto(r, "construct", IF Is(r, "http") THEN "script" ELSE "file")
  /\ Cardinality(Provided(r)) = Len(cfg[r].provided)
  /\ UNCHANGED <<cfg, buildVars, copies, next, hostVars, storeVars, listVars, worldVars,
                 announced, histVars>>

\* get_packages: only an answer with packages in it is kept.
Latest(r) ==
  IF Dry(r) THEN {DryRunVersion}
  ELSE IF cache[r] # Unanswered THEN {cache[r]}
  ELSE IF cfg[r].online THEN {Unanswered, site}
  ELSE {Unanswered}

\* Mutant: the answer is not cached
RememberNothing(r, answer) == cache' = [cache EXCEPT ![r] = Unanswered]

Remember(r, answer) == cache' = [cache EXCEPT ![r] = IF Dry(r) THEN @ ELSE answer]

Reading(r, f) == at[r] <= Len(cfg[r].files) /\ cfg[r].files[at[r]] = f
Reads(r, f)   == \E i \in DOMAIN cfg[r].files : cfg[r].files[i] = f

\* _get_upgrades_from, for every file; package.json uses the answer.
LookUpUpgrades(r) ==
  /\ Goto(r, "file", "downgrades")
  /\ at[r] <= Len(cfg[r].files)
  /\ \E answer \in Latest(r) :
       /\ Remember(r, answer)
       /\ stub' = IF Reading(r, "package") THEN [stub EXCEPT ![r].up = answer] ELSE stub
  /\ UNCHANGED <<cfg, at, copies, next, hostVars, storeVars, listVars, worldVars,
                 announced, histVars>>

\* _get_downgrades_to asks again.
LookUpDowngrades(r) ==
  /\ Goto(r, "downgrades", "hashes")
  /\ \E answer \in Latest(r) :
       /\ Remember(r, answer)
       /\ stub' = IF Reading(r, "package") THEN [stub EXCEPT ![r].down = answer] ELSE stub
  /\ UNCHANGED <<cfg, at, copies, next, hostVars, storeVars, listVars, worldVars,
                 announced, histVars>>

LocalRefs(r) == cfg[r].refs \ cfg[r].remote
Hashable(r)  == LocalRefs(r) \subseteq Provided(r)
                  /\ (Dry(r) \/ cfg[r].refs \intersect cfg[r].remote \subseteq Listed)

\* The hashes of resource.json, and then replacement until nothing changes,
\* which with a growing value never happens.
Template(r) ==
  /\ Goto(r, "hashes", "file")
  /\ ~cfg[r].growing
  /\ at' = [at EXCEPT ![r] = @ + 1]
  /\ \/ ~Reading(r, "resource") /\ stub' = stub
     \/ /\ Reading(r, "resource") /\ Hashable(r)
        /\ stub' = [stub EXCEPT ![r].hash =
                      [a \in Artifacts |-> IF a \in LocalRefs(r) THEN local[a] ELSE 0]]
  /\ UNCHANGED <<cfg, cache, copies, next, hostVars, storeVars, listVars, worldVars,
                 announced, histVars>>

\* Mutant: a bundle is made before its artifacts are copied
AssembleBundleFirst(r) ==
  /\ Goto(r, "file", [aws |-> "stub", http |-> "wipe", dcos |-> "bundle"][cfg[r].method])
  /\ at[r] > Len(cfg[r].files)
  /\ Is(r, "dcos") \/ Reads(r, "package")
  /\ cache' = [cache EXCEPT ![r] = Unanswered]
  /\ UNCHANGED <<cfg, at, stub, copies, next, hostVars, storeVars, listVars, worldVars,
                 announced, histVars>>

\* All files are read.  A stub universe needs package.json.
Assemble(r) ==
  /\ Goto(r, "file", [aws |-> "stub", http |-> "wipe", dcos |-> "artifacts"][cfg[r].method])
  /\ at[r] > Len(cfg[r].files)
  /\ Is(r, "dcos") \/ Reads(r, "package")
  /\ cache' = [cache EXCEPT ![r] = Unanswered]
  /\ UNCHANGED <<cfg, at, stub, copies, next, hostVars, storeVars, listVars, worldVars,
                 announced, histVars>>

------------------------------------------------------------------------------
\* Writing to the destination

\* The stub universe goes first, aws s3 cp --dryrun writes nothing.
PutStub(r) ==
  /\ Goto(r, "stub", "artifacts")
  /\ stubAt' = IF Dry(r) THEN stubAt ELSE [stubAt EXCEPT ![Place(r)] = r]
  /\ UNCHANGED <<cfg, buildVars, copies, next, hostVars, fileAt, bundleAt, listVars, worldVars,
                 announced, histVars>>

\* One turn of the loop over the artifacts.
PutArtifact(r) ==
  /\ pc[r] = "artifacts"
  /\ next[r] <= Len(cfg[r].provided)
  /\ next' = [next EXCEPT ![r] = @ + 1]
  /\ LET a == cfg[r].provided[next[r]] IN
       \/ /\ Is(r, "dcos")
          /\ copies' = [copies EXCEPT ![r][a] = local[a]]
          /\ fileAt' = fileAt
       \/ /\ ~Is(r, "dcos")
          /\ fileAt' = IF Dry(r) THEN fileAt ELSE [fileAt EXCEPT ![Place(r)][a] = local[a]]
          /\ copies' = copies
  /\ UNCHANGED <<cfg, pc, buildVars, hostVars, stubAt, bundleAt, listVars, worldVars,
                 announced, histVars>>

\* Mutant: the loop ends before the last artifact
EndArtifactsEarly(r) ==
  /\ Goto(r, "artifacts", IF Is(r, "dcos") THEN "bundle" ELSE "spam")
  /\ next[r] >= Len(cfg[r].provided)
  /\ UNCHANGED <<cfg, buildVars, copies, next, hostVars, storeVars, listVars, worldVars,
                 announced, histVars>>

EndArtifacts(r) ==
  /\ Goto(r, "artifacts", IF Is(r, "dcos") THEN "bundle" ELSE "spam")
  /\ next[r] > Len(cfg[r].provided)
  /\ UNCHANGED <<cfg, buildVars, copies, next, hostVars, storeVars, listVars, worldVars,
                 announced, histVars>>

\* migrate_and_build, which needs package.json, and the upload of one object.
UploadBundle(r) ==
  /\ Goto(r, "bundle", "done")
  /\ Reads(r, "package")
  /\ bundleAt' = IF Dry(r) THEN bundleAt ELSE [bundleAt EXCEPT ![cfg[r].dir] = r]
  /\ UNCHANGED <<cfg, buildVars, copies, next, hostVars, stubAt, fileAt, listVars, worldVars,
                 announced, histVars>>

\* _spam_universe_url.  With WORKSPACE, publish_http.py stops at the second
\* line of the file, at an attribute it does not have.
Spam(r) ==
  /\ Goto(r, "spam", IF Is(r, "aws") THEN "done" ELSE IF cfg[r].jenkins THEN "failed" ELSE "list")
  /\ announced' = announced \union {r}
  /\ UNCHANGED <<cfg, buildVars, copies, next, hostVars, storeVars, listVars, worldVars, histVars>>

------------------------------------------------------------------------------
\* The local web server

\* killall may find the earlier servers or not; a free port is looked up and
\* released again, or HTTP_PORT is used without looking.
Launch(r) ==
  /\ Goto(r, "launch", "construct")
  /\ \E killed \in BOOLEAN :
       /\ servers' = IF killed THEN {} ELSE servers
       /\ child' = IF killed THEN [q \in Runs |-> IF child[q] \in {"starting", "up"} THEN "dead"
                                                   ELSE child[q]]
                   ELSE child
  /\ \E p \in IF cfg[r].port # 0 THEN {cfg[r].port} ELSE Ports \ (servers' \union taken) :
       port' = [port EXCEPT ![r] = p]
  /\ UNCHANGED <<cfg, buildVars, copies, next, script, storeVars, listVars, worldVars,
                 announced, histVars>>

\* Mutant: a script that is there is not written again
WriteScriptOnce(r) ==
  /\ Goto(r, "script", "file")
  /\ script' = IF script = NoRun THEN r ELSE script
  /\ child' = [child EXCEPT ![r] = "starting"]
  /\ UNCHANGED <<cfg, buildVars, copies, next, port, servers, storeVars, listVars, worldVars,
                 announced, histVars>>

\* The script is written and its interpreter started.
WriteScript(r) ==
  /\ Goto(r, "script", "file")
  /\ script' = r
  /\ child' = [child EXCEPT ![r] = "starting"]
  /\ UNCHANGED <<cfg, buildVars, copies, next, port, servers, storeVars, listVars, worldVars,
                 announced, histVars>>

\* The interpreter opens the script, if there still is one, which may by now be
\* that of another run, and binds its port, if that is still free.
Bind(r) ==
  /\ child[r] = "starting"
  /\ \/ /\ script = NoRun
        /\ child' = [child EXCEPT ![r] = "lost"]
        /\ servers' = servers
     \/ /\ script # NoRun /\ port[script] \in servers \union taken
        /\ child' = [child EXCEPT ![r] = "dead"]
        /\ servers' = servers
     \/ /\ script # NoRun /\ port[script] \notin servers \union taken
        /\ child' = [child EXCEPT ![r] = "up"]
        /\ servers' = servers \union {port[script]}
  /\ UNCHANGED <<cfg, pc, buildVars, copies, next, port, script, storeVars, listVars, worldVars,
                 announced, histVars>>

\* Every file in HTTP_DIR is removed, the server script among them.
Wipe(r) ==
  /\ Goto(r, "wipe", "stub")
  /\ stubAt' = [stubAt EXCEPT ![Host] = NoRun]
  /\ fileAt' = [fileAt EXCEPT ![Host] = NoStub.hash]
  /\ script' = NoRun
  /\ UNCHANGED <<cfg, buildVars, copies, next, port, child, servers, bundleAt, listVars, worldVars,
                 announced, histVars>>

\* Mutant: the package's own name
EntryByPackage(r) == [name |-> "package", uri |-> port[r]]

\* Mutant: only the names are compared
DuplicatesByName(r) == {e \in repos : e.name = "local"}

Entry(r)      == [name |-> "local", uri |-> port[r]]
Duplicates(r) == {e \in repos : e.name = "local" \/ e.uri = port[r]}

\* What the cluster refuses a new repository for.
Rivals(r) == {e \in repos : e.name = Entry(r).name \/ e.uri = Entry(r).uri}

\* add_repo_to_cli, which needs the dcos command.
ListRepos(r) ==
  /\ Goto(r, "list", IF cfg[r].cli THEN "repos" ELSE "done")
  /\ doomed' = [doomed EXCEPT ![r] = IF cfg[r].cli THEN {e.name : e \in Duplicates(r)} ELSE {}]
  /\ UNCHANGED <<cfg, buildVars, copies, next, hostVars, storeVars, repos, worldVars,
                 announced, histVars>>

Named(n) == {e \in repos : e.name = n}

RemoveRepo(r, n) ==
  /\ pc[r] = "repos" /\ n \in doomed[r]
  /\ Named(n) # {}
  /\ doomed' = [doomed EXCEPT ![r] = @ \ {n}]
  /\ repos' = repos \ Named(n)
  /\ UNCHANGED <<cfg, pc, buildVars, copies, next, hostVars, storeVars, worldVars,
                 announced, histVars>>

\* The cluster takes no second repository of a name or a URI.
AddRepo(r) ==
  /\ Goto(r, "repos", "done")
  /\ doomed[r] = {} /\ Rivals(r) = {}
  /\ repos' = repos \union {Entry(r)}
  /\ UNCHANGED <<cfg, buildVars, copies, next, hostVars, storeVars, doomed, worldVars,
                 announced, histVars>>

------------------------------------------------------------------------------

\* What raises an exception in a run by itself.
Stuck(r) ==
  \/ pc[r] = "construct" /\ Cardinality(Provided(r)) # Len(cfg[r].provided)
  \/ pc[r] = "hashes" /\ Reading(r, "resource") /\ ~Hashable(r)
  \/ pc[r] = "file" /\ at[r] > Len(cfg[r].files) /\ ~Is(r, "dcos") /\ ~Reads(r, "package")
  \/ pc[r] = "bundle" /\ ~Reads(r, "package")
  \/ pc[r] = "launch" /\ cfg[r].port = 0 /\ Ports \subseteq servers \union taken
  \/ pc[r] = "repos" /\ \E n \in doomed[r] : Named(n) = {}
  \/ pc[r] = "repos" /\ doomed[r] = {} /\ Rivals(r) # {}

\* The process is gone with its memory; what it published stays.
Stop(r) ==
  LET published == (\E p \in Places : stubAt[p] = r) \/ (\E d \in Dirs : bundleAt[d] = r) IN
  /\ pc' = [pc EXCEPT ![r] = "failed"]
  /\ at' = [at EXCEPT ![r] = 1]
  /\ cache' = [cache EXCEPT ![r] = Unanswered]
  /\ stub' = IF published THEN stub ELSE [stub EXCEPT ![r] = NoStub]
  /\ copies' = IF published THEN copies ELSE [copies EXCEPT ![r] = NoStub.hash]
  /\ next' = [next EXCEPT ![r] = 1]
  /\ doomed' = [doomed EXCEPT ![r] = {}]
  /\ UNCHANGED <<cfg, hostVars, storeVars, repos, worldVars, announced, histVars>>

Raise(r) == Stuck(r) /\ Stop(r)

\* Any command, request or copy may fail, and the process may be killed.
Fail(r) == Active(r) /\ Stop(r)

\* A parallel build replaces an artifact in the build tree.
Rebuild(a) ==
  /\ local[a] < MaxBuild /\ \E r \in Runs : a \in Provided(r)
  /\ local' = [local EXCEPT ![a] = @ + 1]
  /\ dirty' = [r \in Runs |-> IF Active(r) /\ stub[r].hash[a] # 0 THEN dirty[r] \union {a}
                              ELSE dirty[r]]
  /\ UNCHANGED <<cfg, pc, buildVars, copies, next, hostVars, storeVars, listVars, site, taken,
                 announced, latest, crowded>>

\* The Universe publishes a release.
Release ==
  /\ site < MaxRelease /\ \E r \in Runs : cfg[r].online
  /\ site' = site + 1
  /\ UNCHANGED <<cfg, pc, buildVars, copies, next, hostVars, storeVars, listVars, local, taken,
                 announced, histVars>>

\* Another program takes a port that was looked up and released.
TakePort(p) ==
  /\ p \notin servers \union taken
  /\ \E r \in Runs : port[r] = p /\ child[r] \in {"none", "starting"}
  /\ taken' = taken \union {p}
  /\ UNCHANGED <<cfg, pc, buildVars, copies, next, hostVars, storeVars, listVars, local, site,
                 announced, histVars>>

RunStep(r) ==
  \/ Construct(r) \/ LookUpUpgrades(r) \/ LookUpDowngrades(r) \/ Template(r) \/ Assemble(r)
  \/ PutStub(r) \/ PutArtifact(r) \/ EndArtifacts(r) \/ UploadBundle(r) \/ Spam(r)
  \/ Launch(r) \/ WriteScript(r) \/ Wipe(r)
  \/ ListRepos(r) \/ AddRepo(r)
  \/ \E n \in {"universe", "local", "other"} : RemoveRepo(r, n)
  \/ Raise(r)

Next ==
  \/ \E r \in Runs : Start(r) \/ RunStep(r) \/ Bind(r) \/ Fail(r)
  \/ \E a \in Volatile : Rebuild(a)
  \/ Release
  \/ \E p \in Ports : TakePort(p)

Spec == Init /\ [][Next]_vars

------------------------------------------------------------------------------

\* No run has worked in this one's place since it began, nor did it begin
\* while another one worked there.
Undisturbed(r) == latest[Place(r)] = r /\ r \notin crowded

\* A URL that is written for Jenkins or for the user leads to a stub universe
\* whose artifacts are all there, and they have the hashes it states unless an
\* artifact was rebuilt after it was hashed: although the stub is uploaded
\* before them, and into directories earlier runs have left in any state.
UrlComplete ==
  \A r \in announced :
    Undisturbed(r) /\ ~Dry(r) /\ Base(r) = Place(r) =>
      /\ stubAt[Place(r)] = r
      /\ {a \in Artifacts : stub[r].hash[a] # 0} \subseteq Provided(r)
      /\ \A a \in Provided(r) :
           /\ fileAt[Place(r)][a] # 0
           /\ stub[r].hash[a] \in {0, fileAt[Place(r)][a]} \/ a \in dirty[r]

\* A .dcos bundle on S3 has all of its artifacts, with the hashes its
\* definition states unless one was rebuilt meanwhile, whatever other runs do
\* to the same directory: a bundle is uploaded whole or not at all.
BundleWhole ==
  \A d \in Dirs : bundleAt[d] # NoRun =>
    LET r == bundleAt[d] IN
      \A a \in Provided(r) :
        /\ copies[r][a] # 0
        /\ stub[r].hash[a] \in {0, copies[r][a]} \/ a \in dirty[r]

\* The two questions to the Universe, asked at different times, get one answer
\* once there is one: upgradesFrom and downgradesTo of a package differ only
\* when the first question failed.
OneAnswer ==
  \A r \in Runs :
    pc[r] \in {"wipe", "stub", "artifacts", "bundle", "spam", "list", "repos", "done"}
      /\ Reads(r, "package")
      /\ stub[r].up # Unanswered => stub[r].down = stub[r].up

\* The repository of a new build is never refused by the cluster for a stale
\* entry of its name or its URI, and there are never two entries it could be
\* confused with.
AddNeverRefused ==
  \A r \in Runs : Undisturbed(r) =>
    /\ pc[r] = "repos" /\ doomed[r] = {} => Rivals(r) = {}
    /\ pc[r] = "done" /\ Is(r, "http") /\ cfg[r].cli => Rivals(r) = {Entry(r)}

\* When publish_http.py has ended, the URL it printed is served, except that
\* the port was taken between looking it up and using it, or that the server's
\* script was removed before its interpreter had opened it.
UrlServed ==
  \A r \in Runs :
    pc[r] = "done" /\ Is(r, "http") /\ Undisturbed(r) /\ child[r] # "starting" =>
      port[r] \in servers \union taken \/ child[r] = "lost"
==============================================================================
