------------------------- MODULE DispatcherDeployment -------------------------
(***************************************************************************)
(* scale-tests/deploy-dispatchers.py: a pool of worker threads sets up and *)
(* installs a number of dispatchers, each with two roles, and the main     *)
(* thread then writes them to two files.  Attempts follow each other on    *)
(* one cluster, and uninstall-dispatchers.sh takes down what the output    *)
(* file lists.                                                             *)
(***************************************************************************)
EXTENDS Naturals, FiniteSets

CONSTANTS
  MaxServices,     \* bound on <num_dispatchers>
  Workers,         \* MAX_THREADPOOL_WORKERS
  MaxAttempts,     \* bound on the runs of the script
  Strict           \* does the cluster run in strict mode?

ASSUME ServicesAssumption == MaxServices \in Nat
ASSUME WorkersAssumption  == Workers \in Nat \ {0}
ASSUME AttemptsAssumption == MaxAttempts \in Nat
ASSUME ClusterAssumption  == Strict \in BOOLEAN

Services == 1 .. MaxServices     \* an index stands for the service's name
Attempts == 1 .. MaxAttempts
Roles    == {"drivers", "executors"}
MaxTries == 3                    \* stop_max_attempt_number

Clearing == [drivers |-> "clear drivers quota", executors |-> "clear executors quota"]
Creating == [drivers |-> "create drivers quota", executors |-> "create executors quota"]
AfterQuota == [drivers |-> Clearing["executors"], executors |-> "grant"]

Busy  == {"security", "grant", "check", "install", "wait"}
           \union {Clearing[r] : r \in Roles} \union {Creating[r] : r \in Roles}
Steps == Busy \union {"unused", "pending", "done", "failed", "cancelled"}

VARIABLES
  attempt,     \* the current run of the script, 0 before the first
  main,        \* what its main thread does
  size,        \* num_dispatchers of this run
  wants,       \* create-quotas, of each run
  awaited,     \* the result the main thread waits for, or writes, next
  step,        \* how far install_package is for each service
  tries,       \* attempts of _retried_install_impl
  apps,        \* applications Marathon has
  installs,    \* which run installed which service, ever
  missed,      \* which run overlooked an application when it looked for it
  quota,       \* the run that created the quota of a role, 0 for none
  granted,     \* services whose account has the permissions of both roles
  touched,     \* the run that last worked on a service, 0 after a teardown
  outfile,     \* services in the output file, with the run that wrote them
  jsonfile     \* services in the JSON file, likewise

mainVars    == <<attempt, main, size, wants, awaited>>
clusterVars == <<apps, installs, missed, quota, granted>>
fileVars    == <<outfile, jsonfile>>
vars == <<mainVars, step, tries, clusterVars, touched, fileVars>>

Idle == main \in {"idle", "ended", "failed", "killed"}

TypeOK ==
  /\ attempt \in 0 .. MaxAttempts
  /\ main \in {"idle", "collecting", "draining", "writing", "ended", "failed", "killed"}
  /\ size \in 0 .. MaxServices
  /\ wants \in [Attempts -> BOOLEAN]
  /\ awaited \in 1 .. MaxServices + 1
  /\ step \in [Services -> Steps]
  /\ tries \in [Services -> 0 .. MaxTries]
  /\ apps \in SUBSET Services
  /\ installs \in SUBSET (Services \X Attempts)
  /\ missed \in SUBSET (Services \X Attempts)
  /\ quota \in [Services -> [Roles -> 0 .. MaxAttempts]]
  /\ granted \in SUBSET Services
  /\ touched \in [Services -> 0 .. MaxAttempts]
  /\ outfile \in SUBSET (Services \X Attempts)
  /\ jsonfile \in SUBSET (Services \X Attempts)

------------------------------------------------------------------------------

Init ==
  /\ attempt = 0
  /\ main = "idle"
  /\ size = 0
  /\ wants = [a \in Attempts |-> FALSE]
  /\ awaited = 1
  /\ step = [s \in Services |-> "unused"]
  /\ tries = [s \in Services |-> 0]
  /\ apps = {}
  /\ installs = {}
  /\ missed = {}
  /\ quota = [s \in Services |-> [r \in Roles |-> 0]]
  /\ granted = {}
  /\ touched = [s \in Services |-> 0]
  /\ outfile = {}
  /\ jsonfile = {}

\* install and executor.map: all calls are queued, in the order of the index.
Begin(n, quotas) ==
  /\ Idle /\ attempt < MaxAttempts
  /\ attempt' = attempt + 1
  /\ size' = n
  /\ wants' = [wants EXCEPT ![attempt + 1] = quotas]
  /\ step' = [s \in Services |-> IF s <= n THEN "pending" ELSE "unused"]
  /\ main' = "collecting"
  /\ awaited' = 1
  /\ UNCHANGED <<tries, clusterVars, touched, fileVars>>

Running == {s \in Services : step[s] \in Busy}

\* The main thread takes the results in order.
Collect ==
  /\ main = "collecting"
  /\ awaited <= size
  /\ step[awaited] = "done"
  /\ awaited' = awaited + 1
  /\ UNCHANGED <<attempt, main, size, wants, step, tries, clusterVars, touched, fileVars>>

\* Mutant of Raise: the exception is passed over, and the rest collected.
RaisePassedOver ==
  /\ main = "collecting"
  /\ awaited <= size
  /\ step[awaited] = "failed"
  /\ awaited' = awaited + 1
  /\ UNCHANGED <<attempt, main, size, wants, step, tries, clusterVars, touched, fileVars>>

\* The first result that is an exception is raised: what no worker has taken
\* yet is cancelled, and the pool waits for the workers.
Raise ==
  /\ main = "collecting"
  /\ awaited <= size
  /\ step[awaited] = "failed"
  /\ main' = "draining"
  /\ step' = [s \in Services |-> IF step[s] = "pending" THEN "cancelled" ELSE step[s]]
  /\ UNCHANGED <<attempt, size, wants, awaited, tries, clusterVars, touched, fileVars>>

Drained ==
  /\ main = "draining"
  /\ Running = {}
  /\ main' = "failed"
  /\ UNCHANGED <<attempt, size, wants, awaited, step, tries, clusterVars, touched, fileVars>>

\* open(output_file, 'w') truncates.
OpenFile ==
  /\ main = "collecting"
  /\ awaited > size
  /\ main' = "writing"
  /\ awaited' = 1
  /\ outfile' = {}
  /\ UNCHANGED <<attempt, size, wants, step, tries, clusterVars, touched, jsonfile>>

WriteLine ==
  /\ main = "writing"
  /\ awaited <= size
  /\ outfile' = outfile \union {<<awaited, attempt>>}
  /\ awaited' = awaited + 1
  /\ UNCHANGED <<attempt, main, size, wants, step, tries, clusterVars, touched, jsonfile>>

WriteJson ==
  /\ main = "writing"
  /\ awaited > size
  /\ jsonfile' = {<<s, attempt>> : s \in 1 .. size}
  /\ main' = "ended"
  /\ UNCHANGED <<attempt, size, wants, awaited, step, tries, clusterVars, touched, outfile>>

\* The process is killed: its threads end where they are.
Kill ==
  /\ ~Idle
  /\ main' = "killed"
  /\ step' = [s \in Services |->
                IF step[s] \in Busy \union {"pending"} THEN "cancelled" ELSE step[s]]
  /\ tries' = [s \in Services |-> 0]
  /\ UNCHANGED <<attempt, size, wants, awaited, clusterVars, touched, fileVars>>

------------------------------------------------------------------------------
(* install_package, by a worker. *)

Goto(s, to) == step' = [step EXCEPT ![s] = to]

\* _retried_install_impl is over.
Finish(s, to) == Goto(s, to) /\ tries' = [tries EXCEPT ![s] = 0]

\* A free worker takes the first call in the queue.
Take(s) ==
  /\ step[s] = "pending"
  /\ \A q \in Services : q < s => step[q] # "pending"
  /\ Cardinality(Running) < Workers
  /\ Goto(s, "security")
  /\ touched' = [touched EXCEPT ![s] = attempt]
  /\ UNCHANGED <<mainVars, tries, clusterVars, fileVars>>

\* In strict mode the enterprise CLI is needed; the service account is deleted,
\* and its permissions with it, and made again, failures being ignored; then
\* permissions for other roles may be refused.
SetUpSecurity(s) ==
  /\ step[s] = "security"
  /\ Goto(s, Clearing["drivers"]) \/ (Strict /\ Goto(s, "failed"))
  /\ granted' \in {granted} \union (IF Strict THEN {granted \ {s}} ELSE {})
  /\ UNCHANGED <<mainVars, tries, apps, installs, missed, quota, touched, fileVars>>

\* setup_role without quotas, create_quota: a quota that is listed is removed.
ClearQuota(s, role) ==
  /\ step[s] = Clearing[role]
  /\ \/ /\ ~wants[attempt]
        /\ Goto(s, AfterQuota[role])
        /\ UNCHANGED quota
     \/ /\ wants[attempt]
        /\ Goto(s, Creating[role])
        /\ quota' = [quota EXCEPT ![s][role] = 0]
     \/ /\ wants[attempt]
        /\ Goto(s, "failed")
        /\ UNCHANGED quota
  /\ UNCHANGED <<mainVars, tries, apps, installs, missed, granted, touched, fileVars>>

\* Mutant of CreateQuota: the exit code is not looked at.
CreateQuotaUnchecked(s, role) ==
  /\ step[s] = Creating[role]
  /\ Goto(s, AfterQuota[role])
  /\ quota' \in {quota, [quota EXCEPT ![s][role] = attempt]}
  /\ UNCHANGED <<mainVars, tries, apps, installs, missed, granted, touched, fileVars>>

CreateQuota(s, role) ==
  /\ step[s] = Creating[role]
  /\ \/ /\ Goto(s, AfterQuota[role])
        /\ quota' = [quota EXCEPT ![s][role] = attempt]
     \/ /\ Goto(s, "failed")
        /\ UNCHANGED quota
  /\ UNCHANGED <<mainVars, tries, apps, installs, missed, granted, touched, fileVars>>

\* setup_spark_security: permissions for both roles, in strict mode.
Grant(s) ==
  /\ step[s] = "grant"
  /\ \/ /\ Goto(s, "check")
        /\ granted' = IF Strict THEN granted \union {s} ELSE granted
     \/ /\ Strict
        /\ Goto(s, "failed")
        /\ UNCHANGED granted
  /\ UNCHANGED <<mainVars, tries, apps, installs, missed, quota, touched, fileVars>>

\* The answers app_exists may give: any error makes it say no.
Answers(s) == {FALSE, (s \in apps)}

\* Mutant of CheckInstalled: whatever is there is taken for this installation.
CheckInstalledLenient(s) ==
  /\ step[s] = "check"
  /\ Goto(s, "install")
  /\ tries' = [tries EXCEPT ![s] = 1]
  /\ UNCHANGED <<mainVars, clusterVars, touched, fileVars>>

\* sdk_install.install fails when the service is there already.
CheckInstalled(s) ==
  /\ step[s] = "check"
  /\ \/ /\ TRUE \in Answers(s)
        /\ Goto(s, "failed")
        /\ UNCHANGED <<tries, missed>>
     \/ /\ FALSE \in Answers(s)
        /\ Goto(s, "install")
        /\ tries' = [tries EXCEPT ![s] = 1]
        /\ missed' = missed \union ({s} \intersect apps) \X {attempt}
  /\ UNCHANGED <<mainVars, apps, installs, quota, granted, touched, fileVars>>

\* Mutant of Retry: there is no limit.
RetryForever(s) == Goto(s, "install") /\ UNCHANGED tries

\* Mutant of Retry: the limit is looked at one round too late.
RetryOnceMore(s) ==
  IF tries[s] > MaxTries
  THEN Finish(s, "failed")
  ELSE Goto(s, "install") /\ tries' = [tries EXCEPT ![s] = @ + 1]

\* A DCOSException starts _retried_install_impl again, two times.
Retry(s) ==
  IF tries[s] = MaxTries
  THEN Finish(s, "failed")
  ELSE Goto(s, "install") /\ tries' = [tries EXCEPT ![s] = @ + 1]

\* Cosmos starts the application; its answer may get lost.
Install(s) ==
  /\ s \notin apps
  /\ apps' = apps \union {s}
  /\ installs' = installs \union {<<s, attempt>>}
  /\ \/ Goto(s, "wait") /\ UNCHANGED tries
     \/ Retry(s)

\* A round of _retried_install_impl up to the waiting: the service is found and
\* the installation skipped, installed, or refused; or an error ends the round.
TryInstall(s) ==
  /\ step[s] = "install"
  /\ \/ /\ TRUE \in Answers(s)
        /\ Goto(s, "wait")
        /\ UNCHANGED <<tries, apps, installs>>
     \/ FALSE \in Answers(s) /\ Install(s)
     \/ Retry(s) /\ UNCHANGED <<apps, installs>>
     \/ Finish(s, "failed") /\ UNCHANGED <<apps, installs>>
  /\ UNCHANGED <<mainVars, missed, quota, granted, touched, fileVars>>

\* deployment_wait: the deployment ends, takes too long, or cannot be asked for.
Wait(s) ==
  /\ step[s] = "wait"
  /\ Finish(s, "done") \/ Finish(s, "failed") \/ Retry(s)
  /\ UNCHANGED <<mainVars, clusterVars, touched, fileVars>>

Work(s) ==
  \/ SetUpSecurity(s)
  \/ \E role \in Roles : ClearQuota(s, role) \/ CreateQuota(s, role)
  \/ Grant(s) \/ CheckInstalled(s) \/ TryInstall(s) \/ Wait(s)

------------------------------------------------------------------------------

\* uninstall-dispatchers.sh, for one service of the output file: commands that
\* fail are passed over.
TearDown(s) ==
  /\ Idle
  /\ \E a \in Attempts : <<s, a>> \in outfile
  /\ apps' \in {apps, apps \ {s}}
  /\ \E gone \in SUBSET Roles :
       quota' = [quota EXCEPT ![s] = [r \in Roles |-> IF r \in gone THEN 0 ELSE @[r]]]
  /\ touched' = [touched EXCEPT ![s] = 0]
  /\ UNCHANGED <<mainVars, step, tries, installs, missed, granted, fileVars>>

Main == Collect \/ Raise \/ Drained \/ OpenFile \/ WriteLine \/ WriteJson

Next ==
  \/ \E n \in 1 .. MaxServices, quotas \in BOOLEAN : Begin(n, quotas)
  \/ Main \/ Kill
  \/ \E s \in Services : Take(s) \/ Work(s) \/ TearDown(s)

\* Threads that can go on do; every command and request they wait for returns.
Fairness == WF_vars(Main) /\ \A s \in Services : WF_vars(Take(s)) /\ WF_vars(Work(s))

Spec == Init /\ [][Next]_vars /\ Fairness

------------------------------------------------------------------------------
(* Properties. *)

Ready(s, a) ==
  /\ wants[a] => \A r \in Roles : quota[s][r] = a
  /\ Strict => s \in granted

\* A dispatcher that a run installed has both quotas of that run, and in strict
\* mode the permissions, until a later run or a teardown works on it: the steps
\* of install_package come in an order that lets no dispatcher start unprepared.
RunningReady ==
  \A s \in apps, a \in Attempts :
    touched[s] = a /\ <<s, a>> \in installs => Ready(s, a)

\* Both files list only dispatchers that the run which wrote them installed
\* itself, through retries, lost answers, kills and teardowns; the one way round
\* that is an error in the first question to app_exists.
RecordedWereInstalled == outfile \union jsonfile \subseteq installs \union missed

\* Files change only after every dispatcher of the run is deployed: a run that
\* failed leaves the files of an earlier one alone.
RecordOnlyComplete ==
  [][fileVars' # fileVars => \A s \in 1 .. size : step[s] = "done"]_vars

\* A run ends: pool and retries do not wait for ever, whatever fails.
AttemptsEnd == []<>Idle

\* "The service names of the deployed dispatchers will be written into an
\* output file": when a run is over, so for each dispatcher whose installation
\* succeeded, whatever became of the others.
AllRecorded ==
  main \in {"ended", "failed"} =>
    \A s \in 1 .. size : step[s] = "done" => <<s, attempt>> \in outfile

=============================================================================
