--------------------------- MODULE StreamingSetup ---------------------------
(***************************************************************************)
(* scale-tests/setup_streaming.py: Kafka clusters, each with a ZooKeeper   *)
(* of its own, and a Cassandra cluster are installed one after the other,  *)
(* each with a service account, and written to a file from which a later   *)
(* run removes them.  Runs fail or are killed and are started again.       *)
(***************************************************************************)
EXTENDS Integers, Sequences, FiniteSets, SequencesExt

CONSTANTS
  MaxCount,    \* clusters of a kind that can be asked for
  Requests,    \* what runs are asked to install
  MaxRuns,     \* bound on the runs of the script
  MaxFaults    \* bound on commands that fail, runs that are killed included

Kinds    == {"zookeeper", "kafka", "cassandra"}
Services == Kinds \X (0 .. MaxCount - 1)
Request  == [kafka : 0 .. MaxCount, cassandra : 0 .. MaxCount]

ASSUME RequestsAssumption == Requests \subseteq Request
ASSUME BoundsAssumption   == MaxCount \in Nat /\ MaxRuns \in Nat /\ MaxFaults \in Nat

Attempts  == 3         \* stop_max_attempt_number of an installation
NoService == <<"none", 0>>

VARIABLES
  strict,      \* the security mode of the cluster
  run, mode,   \* number of the run, and what it does
  request,     \* what the run was asked for
  todo, step,  \* services still to be handled, and the step for the first one
  tries,       \* attempts to install it
  uri,         \* the ZooKeeper whose address was looked up for this Kafka
  services,    \* services installed in this run, a list for each kind
  file,        \* the output file
  app,         \* the Marathon app of a service
  uses,        \* the ZooKeeper whose address its app was given
  account, secret,   \* run whose key pair an account, a secret has, 0 for none
  faults,
  spoiled, fate, origin   \* history, see KeysMatch, CleanedUp, FileComplete

scriptVars == <<request, todo, step, tries, uri, services>>
keyVars    == <<account, secret>>
histVars   == <<spoiled, fate, origin>>
appVars    == <<app, uses>>
vars == <<strict, run, mode, scriptVars, file, appVars, keyVars, faults, histVars>>

Steps == {"find", "delete account", "delete secret", "account", "secret", "grant",
          "options", "check", "app", "wait", "truncate", "write", "uninstall", "revoke", "none"}

Missing == [state |-> "missing", services |-> <<>>]
Torn    == [state |-> "torn", services |-> <<>>]

TypeOK ==
  /\ strict \in BOOLEAN
  /\ run \in 0 .. MaxRuns
  /\ mode \in {"idle", "install", "cleanup"}
  /\ request \in Request
  /\ todo \in Seq(Services)
  /\ step \in Steps
  /\ tries \in 0 .. Attempts - 1
  /\ uri \in Services \union {NoService}
  /\ services \in [Kinds -> Seq(Services)]
  /\ file \in [state : {"missing", "torn", "complete"}, services : Seq(Services)]
  /\ app \in [Services -> {"none", "deploying", "running"}]
  /\ uses \in [Services -> Services \union {NoService}]
  /\ account \in [Services -> 0 .. MaxRuns] /\ secret \in [Services -> 0 .. MaxRuns]
  /\ faults \in 0 .. MaxFaults
  /\ spoiled \in SUBSET Services
  /\ fate \in {"unwritten", "installed", "removing", "removed"}
  /\ origin \in Request

Nothing == [kafka |-> 0, cassandra |-> 0]
Empty   == [k \in Kinds |-> <<>>]

Init ==
  /\ strict \in BOOLEAN
  /\ run = 0 /\ mode = "idle"
  /\ request = Nothing
  /\ todo = <<>> /\ step = "none" /\ tries = 0
  /\ uri = NoService
  /\ services = Empty
  /\ file = Missing
  /\ app = [s \in Services |-> "none"]
  /\ uses = [s \in Services |-> NoService]
  /\ account = [s \in Services |-> 0] /\ secret = [s \in Services |-> 0]
  /\ faults = 0
  /\ spoiled = {} /\ fate = "unwritten" /\ origin = Nothing

------------------------------------------------------------------------------

\* Mutant: indexes start at one
ClustersFromOne(kind, count) == [i \in 1 .. count |-> <<kind, i>>]

Clusters(kind, count) == [i \in 1 .. count |-> <<kind, i - 1>>]

\* There is one ZooKeeper per Kafka, and never more than one Cassandra.
Wanted(q) ==
  Clusters("zookeeper", q.kafka) \o Clusters("kafka", q.kafka)
    \o Clusters("cassandra", IF q.cassandra > 1 THEN 1 ELSE q.cassandra)

At(s, from) == todo # <<>> /\ Head(todo) = s /\ step = from

\* The first step for the first service of a list.
FirstStep(list) ==
  IF list = <<>> THEN "truncate"
  ELSE IF list[1][1] = "kafka" THEN "find"
  ELSE IF strict THEN "delete account" ELSE "options"

BeginInstall(q) ==
  /\ mode = "idle" /\ run < MaxRuns
  /\ run' = run + 1 /\ mode' = "install"
  /\ request' = q
  /\ todo' = Wanted(q) /\ step' = FirstStep(Wanted(q))
  /\ tries' = 0
  /\ services' = Empty
  /\ uri' = NoService
  /\ fate' = IF fate = "removed" THEN "removing" ELSE fate
  /\ UNCHANGED <<strict, file, appVars, keyVars, faults, spoiled, origin>>

\* The run ends, by itself, with an exception, or killed.
Leave ==
  /\ mode' = "idle"
  /\ todo' = <<>> /\ step' = "none" /\ tries' = 0
  /\ services' = Empty
  /\ uri' = NoService
  /\ request' = Nothing

\* Mutant: the ZooKeeper installed last
PositionLast(s) == Len(services["zookeeper"])

\* zookeeper_services[i], in a list that begins with 1.
Position(s) == s[2] + 1

\* The address of the ZooKeeper at that position, from its CLI.
FindZookeeper(s) ==
  /\ At(s, "find")
  /\ Position(s) \in DOMAIN services["zookeeper"]
  /\ uri' = services["zookeeper"][Position(s)]
  /\ step' = IF strict THEN "delete account" ELSE "options"
  /\ UNCHANGED <<strict, run, mode, request, todo, tries, services, file, appVars, keyVars,
                 faults, histVars>>

\* A CLI command whose exit code is not looked at: it does what it is meant to,
\* or nothing, and the script goes on.
Silently(s, done, kept) ==
  \/ done /\ UNCHANGED <<faults, spoiled>>
  \/ /\ faults < MaxFaults
     /\ faults' = faults + 1
     /\ spoiled' = spoiled \union {s}
     /\ kept

\* Mutant: an account that is there is kept
DeleteAccountNot(s) ==
  /\ At(s, "delete account")
  /\ step' = "delete secret"
  /\ \/ /\ account' = account
        /\ faults' = faults
        /\ spoiled' = IF app[s] = "none" THEN spoiled \ {s} ELSE spoiled \union {s}
     \/ /\ faults < MaxFaults
        /\ account' = account
        /\ faults' = faults + 1
        /\ spoiled' = spoiled \union {s}
  /\ UNCHANGED <<strict, run, mode, request, todo, tries, uri, services, file, appVars, secret,
                 fate, origin>>

DeleteAccount(s) ==
  /\ At(s, "delete account")
  /\ step' = "delete secret"
  /\ \/ /\ account' = [account EXCEPT ![s] = 0]
        /\ faults' = faults
        /\ spoiled' = IF app[s] = "none" THEN spoiled \ {s} ELSE spoiled \union {s}
     \/ /\ faults < MaxFaults
        /\ account' = account
        /\ faults' = faults + 1
        /\ spoiled' = spoiled \union {s}
  /\ UNCHANGED <<strict, run, mode, request, todo, tries, uri, services, file, appVars, secret,
                 fate, origin>>

DeleteSecret(s) ==
  /\ At(s, "delete secret")
  /\ step' = "account"
  /\ Silently(s, secret' = [secret EXCEPT ![s] = 0], secret' = secret)
  /\ UNCHANGED <<strict, run, mode, request, todo, tries, uri, services, file, appVars, account,
                 fate, origin>>

\* Neither an account nor a secret that is still there is replaced.
CreateAccount(s) ==
  /\ At(s, "account")
  /\ step' = "secret"
  /\ Silently(s, account' = [account EXCEPT ![s] = IF @ = 0 THEN run ELSE @], account' = account)
  /\ UNCHANGED <<strict, run, mode, request, todo, tries, uri, services, file, appVars, secret,
                 fate, origin>>

CreateSecret(s) ==
  /\ At(s, "secret")
  /\ step' = "grant"
  /\ Silently(s, secret' = [secret EXCEPT ![s] = IF @ = 0 THEN run ELSE @], secret' = secret)
  /\ UNCHANGED <<strict, run, mode, request, todo, tries, uri, services, file, appVars, account,
                 fate, origin>>

\* Permissions, whose answers are asserted.
Grant(s) ==
  /\ At(s, "grant")
  /\ account[s] # 0
  /\ step' = "options"
  /\ UNCHANGED <<strict, run, mode, request, todo, tries, uri, services, file, appVars, keyVars,
                 faults, histVars>>

\* Account, secret, address of the ZooKeeper, the settings of a file that may
\* be missing, and the name of the service.
ReadOptions(s) ==
  /\ At(s, "options")
  /\ step' = "check"
  /\ UNCHANGED <<strict, run, mode, request, todo, tries, uri, services, file, appVars, keyVars,
                 faults, histVars>>

\* app_exists says no when there is no app, and on any error.
CheckInstalled(s) ==
  /\ At(s, "check")
  /\ \/ app[s] = "none" /\ UNCHANGED faults
     \/ app[s] # "none" /\ faults < MaxFaults /\ faults' = faults + 1
  /\ step' = "app"
  /\ UNCHANGED <<strict, run, mode, request, todo, tries, uri, services, file, appVars, keyVars,
                 histVars>>

\* The app is made with the options of this run, unless there is one.
MakeApp(s) ==
  IF app[s] = "none"
  THEN app' = [app EXCEPT ![s] = "deploying"] /\ uses' = [uses EXCEPT ![s] = uri]
  ELSE UNCHANGED appVars

\* One attempt, which skips the call when the app is there.
InstallApp(s) ==
  /\ At(s, "app")
  /\ MakeApp(s)
  /\ step' = "wait"
  /\ UNCHANGED <<strict, run, mode, request, todo, tries, uri, services, file, keyVars,
                 faults, histVars>>

\* An attempt fails, before or after the app was made; when app_exists overlooks
\* one, Cosmos refuses another.
Retry(s) ==
  /\ At(s, "app")
  /\ tries < Attempts - 1 /\ faults < MaxFaults
  /\ tries' = tries + 1 /\ faults' = faults + 1
  /\ MakeApp(s) \/ UNCHANGED appVars
  /\ UNCHANGED <<strict, run, mode, request, todo, step, uri, services, file, keyVars, histVars>>

\* The dictionary of the lists, in the order of its keys.
InOrder(lists) == lists["zookeeper"] \o lists["kafka"] \o lists["cassandra"]

\* Mutant: the file is written after every service
InstalledSaved(s) ==
  /\ At(s, "wait")
  /\ app' = [app EXCEPT ![s] = "running"]
  /\ services' = [services EXCEPT ![s[1]] = Append(@, s)]
  /\ todo' = Tail(todo) /\ step' = FirstStep(Tail(todo))
  /\ tries' = 0 /\ uri' = NoService
  /\ file' = [state |-> "complete", services |-> InOrder(services')]
  /\ UNCHANGED <<strict, run, mode, request, uses, keyVars, faults, histVars>>

\* Tasks, deployment and plan are complete: on to the next service.
Installed(s) ==
  /\ At(s, "wait")
  /\ app' = [app EXCEPT ![s] = "running"]
  /\ services' = [services EXCEPT ![s[1]] = Append(@, s)]
  /\ todo' = Tail(todo) /\ step' = FirstStep(Tail(todo))
  /\ tries' = 0 /\ uri' = NoService
  /\ UNCHANGED <<strict, run, mode, request, uses, file, keyVars, faults, histVars>>

\* Opening the file for writing empties it.
Truncate ==
  /\ mode = "install" /\ step = "truncate"
  /\ file' = Torn
  /\ step' = "write"
  /\ UNCHANGED <<strict, run, mode, request, todo, tries, uri, services, appVars, keyVars,
                 faults, histVars>>

Write ==
  /\ step = "write"
  /\ file' = [state |-> "complete", services |-> InOrder(services)]
  /\ origin' = request /\ fate' = "installed"
  /\ Leave
  /\ UNCHANGED <<strict, run, appVars, keyVars, faults, spoiled>>

------------------------------------------------------------------------------
\* Removal of what the file lists

BeginCleanup ==
  /\ mode = "idle" /\ run < MaxRuns
  /\ file.state = "complete"
  /\ run' = run + 1 /\ mode' = "cleanup"
  /\ todo' = file.services /\ step' = "uninstall"
  /\ fate' = "removing"
  /\ UNCHANGED <<strict, request, tries, uri, services, file, appVars, keyVars, faults, spoiled,
                 origin>>

\* A service that is not there is none to fail for.
Uninstall(s) ==
  /\ mode = "cleanup" /\ At(s, "uninstall")
  /\ app' = [app EXCEPT ![s] = "none"]
  /\ uses' = [uses EXCEPT ![s] = NoService]
  /\ IF strict THEN step' = "revoke" /\ todo' = todo
     ELSE step' = step /\ todo' = Tail(todo)
  /\ UNCHANGED <<strict, run, mode, request, tries, uri, services, file, keyVars, faults, histVars>>

\* Mutant: only the account is removed
CleanupAccount(s) ==
  /\ At(s, "revoke")
  /\ Silently(s, account' = [account EXCEPT ![s] = 0], account' = account)
  /\ todo' = Tail(todo) /\ step' = "uninstall"
  /\ UNCHANGED <<strict, run, mode, request, tries, uri, services, file, appVars, secret,
                 fate, origin>>

\* cleanup_security: permissions stay, they go with the account.
CleanupSecurity(s) ==
  /\ At(s, "revoke")
  /\ Silently(s, account' = [account EXCEPT ![s] = 0] /\ secret' = [secret EXCEPT ![s] = 0],
              \/ account' = account /\ secret' = secret
              \/ account' = [account EXCEPT ![s] = 0] /\ secret' = secret
              \/ account' = account /\ secret' = [secret EXCEPT ![s] = 0])
  /\ todo' = Tail(todo) /\ step' = "uninstall"
  /\ UNCHANGED <<strict, run, mode, request, tries, uri, services, file, appVars, fate, origin>>

EndCleanup ==
  /\ mode = "cleanup" /\ todo = <<>>
  /\ fate' = "removed"
  /\ Leave
  /\ UNCHANGED <<strict, run, file, appVars, keyVars, faults, spoiled, origin>>

------------------------------------------------------------------------------

\* The script cannot go on by itself.
Stuck ==
  \/ step = "find" /\ Position(Head(todo)) \notin DOMAIN services["zookeeper"]
  \/ step = "check" /\ app[Head(todo)] # "none"
  \/ step = "grant" /\ account[Head(todo)] = 0

Raise ==
  /\ mode # "idle" /\ Stuck
  /\ Leave
  /\ UNCHANGED <<strict, run, file, appVars, keyVars, faults, histVars>>

\* A command fails for good, a time-out passes, or the run is killed.
Fail ==
  /\ mode # "idle" /\ faults < MaxFaults
  /\ faults' = faults + 1
  /\ Leave
  /\ UNCHANGED <<strict, run, file, appVars, keyVars, histVars>>

ScriptStep ==
  \/ \E s \in Services :
       \/ FindZookeeper(s) \/ DeleteAccount(s) \/ DeleteSecret(s) \/ CreateAccount(s)
       \/ CreateSecret(s) \/ Grant(s) \/ ReadOptions(s) \/ CheckInstalled(s) \/ InstallApp(s) \/ Retry(s)
       \/ Installed(s) \/ Uninstall(s) \/ CleanupSecurity(s)
  \/ Truncate \/ Write \/ EndCleanup \/ Raise

Next ==
  \/ \E q \in Requests : BeginInstall(q)
  \/ BeginCleanup
  \/ ScriptStep
  \/ Fail

Spec == Init /\ [][Next]_vars

------------------------------------------------------------------------------

\* Kafka clusters that run never share a ZooKeeper, also when different runs
\* installed them, and a Kafka a run has installed finds its own running,
\* although the two are only matched by positions in two lists
\* (zookeeper_services[i]) that retries, kills and overlooked apps must not shift.
OwnZookeeper ==
  /\ \A s, t \in Services : s # t /\ uses[s] # NoService => uses[t] # uses[s]
  /\ \A s \in Range(services["kafka"]) : uses[s] # NoService /\ app[uses[s]] = "running"

\* The file, once it can be read, lists everything its run was asked to
\* install, and until a cleanup begins all of it runs, however many later runs
\* are started and fail.
FileComplete ==
  file.state = "complete" =>
    /\ file.services = Wanted(origin)
    /\ fate = "installed" => \A s \in Range(file.services) : app[s] = "running"

\* The key in the secret a service was given belongs to its account, unless a
\* command for it failed silently or a later run replaced the keys of a service
\* that was there: the check for an installed service comes after that.
KeysMatch ==
  \A s \in Services :
    strict /\ app[s] # "none" /\ s \notin spoiled => account[s] # 0 /\ secret[s] = account[s]

\* A cleanup that came to its end has left nothing of what the file lists, not
\* even after one that was killed half-way.
CleanedUp ==
  fate = "removed" => \A s \in Range(file.services) :
    app[s] = "none" /\ (s \notin spoiled => account[s] = 0 /\ secret[s] = 0)
==============================================================================
