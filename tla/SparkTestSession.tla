-------------------------- MODULE SparkTestSession --------------------------
(***************************************************************************)
(* A session of integration tests on a strict cluster: the fixtures of     *)
(* tests/common/fixtures.py and of the test modules with the functions of  *)
(* spark-testing/spark_utils.py.  The session creates the service account  *)
(* and adds the stub universes, each module installs a dispatcher, submits *)
(* a job and removes the dispatcher, and the session removes what it made. *)
(* Exceptions unwind through the finally blocks, sessions are killed, most *)
(* CLI commands fail without anybody noticing.                             *)
(***************************************************************************)
EXTENDS Integers, Sequences, FiniteSets

CONSTANTS
  Services, Users,   \* names of dispatchers, and Linux users
  Urls,              \* STUB_UNIVERSE_URL
  Granted,           \* users and services granted by spark_security_session
  Modules,           \* the test modules
  MaxSessions, MaxFaults

Module == [service : Services, user : Users, extra : BOOLEAN]   \* extra: it has grants of its own

ASSUME NamesAssumption   == Services \intersect Users = {} /\ Granted \subseteq Services \union Users
ASSUME ModulesAssumption == Modules \in Seq(Module) \ {<<>>}
                              /\ \A i \in DOMAIN Modules : ~Modules[i].extra =>
                                   {Modules[i].service, Modules[i].user} \subseteq Granted
ASSUME BoundsAssumption  == MaxSessions \in Nat /\ MaxFaults \in Nat

VARIABLES
  session, pc,        \* number of the session, and how far it is
  at,                 \* position in Modules
  left,               \* what a loop has still to handle
  stubs,              \* stub_urls, what the session knows it added
  url,                \* is the URL of the test jar set?
  account, secret,    \* session whose key pair they have, 0 for none
  grants, marathon,   \* permissions of the account, and of Marathon
  repos,              \* session that added a repository, 0 for none
  jar,                \* is the test jar on S3?
  dispatcher,         \* running dispatchers
  znode,              \* what ZooKeeper has of a dispatcher
  drivers,            \* running drivers, by session and position
  faults, since,      \* faults so far, and of them those before this session
  excused             \* history: what an unnoticed failure or a kill has left

sessionVars == <<at, left, stubs, url>>
securityVars == <<account, secret, grants, marathon>>
clusterVars == <<dispatcher, znode, drivers>>
vars == <<session, pc, sessionVars, securityVars, repos, jar, clusterVars, faults, since, excused>>

Setup  == {"reset", "create", "grants", "duplicates", "repos"}
Test   == {"upload", "uninstall", "janitor", "install", "reach", "submit"}
Phases == {"idle", "extra", "check", "kill", "teardown", "clean", "unextra", "remove",
           "revoke", "drop"} \union Setup \union Test

Driver == (1 .. MaxSessions) \X (1 .. Len(Modules))
Account == <<"account", 0>>
Secret  == <<"secret", 0>>
Repos   == <<"repos", 0>>
Things  == {Account, Secret, Repos} \union ({"dispatcher", "znode"} \X Services)
            \union ({"driver"} \X Driver)

TypeOK ==
  /\ session \in 0 .. MaxSessions
  /\ pc \in Phases
  /\ at \in 1 .. Len(Modules) + 1
  /\ left \subseteq Services \union Users \union Urls
  /\ stubs \subseteq Urls
  /\ url \in BOOLEAN
  /\ account \in 0 .. MaxSessions /\ secret \in 0 .. MaxSessions
  /\ grants \subseteq Services \union Users
  /\ marathon \subseteq Users
  /\ repos \in [Urls -> 0 .. MaxSessions]
  /\ jar \in BOOLEAN
  /\ dispatcher \subseteq Services
  /\ znode \in [Services -> {"clean", "used", "stale"}]
  /\ drivers \subseteq Driver
  /\ faults \in 0 .. MaxFaults /\ since \in 0 .. MaxFaults
  /\ excused \subseteq Things

Init ==
  /\ session = 0 /\ pc = "idle"
  /\ at = 1 /\ left = {} /\ stubs = {} /\ url = FALSE
  /\ account = 0 /\ secret = 0 /\ grants = {} /\ marathon = {}
  /\ repos = [u \in Urls |-> 0]
  /\ jar = FALSE
  /\ dispatcher = {} /\ znode = [s \in Services |-> "clean"] /\ drivers = {}
  /\ faults = 0 /\ since = 0 /\ excused = {}

------------------------------------------------------------------------------

Service == Modules[at].service
User    == Modules[at].user
Current == <<session, at>>

Fault == faults < MaxFaults /\ faults' = faults + 1

\* The first phase of the module at position i, or of the end of the session.
Enter(i) ==
  /\ at' = i
  /\ IF i > Len(Modules) THEN pc' = "remove" /\ left' = stubs
     ELSE IF Modules[i].extra THEN pc' = "extra" /\ left' = {Modules[i].service, Modules[i].user}
     ELSE pc' = "upload" /\ left' = {}

BeginSession ==
  /\ pc = "idle" /\ session < MaxSessions
  /\ session' = session + 1 /\ since' = faults
  /\ pc' = "reset"
  /\ at' = 1 /\ left' = {} /\ stubs' = {} /\ url' = FALSE
  /\ UNCHANGED <<securityVars, repos, jar, clusterVars, faults, excused>>

\* delete_service_account: two commands, each of which may do nothing.  The
\* permissions of the account go with it.
DropKeys(next) ==
  /\ \E kept \in SUBSET {Account, Secret} :
       /\ account' = IF Account \in kept THEN account ELSE 0
       /\ grants' = IF Account \in kept THEN grants ELSE {}
       /\ secret' = IF Secret \in kept THEN secret ELSE 0
       /\ IF kept = {} THEN faults' = faults ELSE Fault
       /\ excused' = (excused \ {Account, Secret}) \union kept
  /\ pc' = next
  /\ UNCHANGED <<session, since, sessionVars, marathon, repos, jar, clusterVars>>

\* What is there is removed first.
ResetAccount == pc = "reset" /\ DropKeys("create")

\* Neither an account nor a secret that is there is replaced.
CreateAccount ==
  /\ pc = "create"
  /\ \E failed \in SUBSET {Account, Secret} :
       /\ account' = IF Account \in failed \/ account # 0 THEN account ELSE session
       /\ secret' = IF Secret \in failed \/ secret # 0 THEN secret ELSE session
       /\ IF failed = {} THEN faults' = faults ELSE Fault
       /\ excused' = excused \union failed
  /\ pc' = "grants" /\ left' = Granted
  /\ UNCHANGED <<session, since, at, stubs, url, grants, marathon, repos, jar, clusterVars>>

\* A user, for Marathon and for the account, or a service.  An answer other
\* than created or known is an exception.
GrantUser(u, phase) ==
  /\ pc = phase /\ u \in left /\ account # 0
  /\ marathon' = marathon \union {u}
  /\ grants' = grants \union {u}
  /\ left' = left \ {u}
  /\ UNCHANGED <<session, since, pc, at, stubs, url, account, secret, repos, jar, clusterVars,
                 faults, excused>>

GrantService(s, phase) ==
  /\ pc = phase /\ s \in left /\ account # 0
  /\ grants' = grants \union {s}
  /\ left' = left \ {s}
  /\ UNCHANGED <<session, since, pc, at, stubs, url, account, secret, marathon, repos, jar,
                 clusterVars, faults, excused>>

EndGrants ==
  /\ left = {}
  /\ \/ pc = "grants" /\ pc' = "duplicates"
     \/ pc = "extra" /\ pc' = "upload"
  /\ UNCHANGED <<session, since, sessionVars, securityVars, repos, jar, clusterVars, faults,
                 excused>>

\* Mutant: the entries that are there are left alone
RemoveDuplicatesNone ==
  /\ pc = "duplicates"
  /\ pc' = "repos" /\ left' = Urls
  /\ UNCHANGED <<session, since, at, stubs, url, securityVars, repos, jar, clusterVars, faults,
                 excused>>

\* universe_session: entries with a URL to be added are removed, except that
\* the answers to these commands are not looked at.
RemoveDuplicates ==
  /\ pc = "duplicates"
  /\ \E kept \in SUBSET {u \in Urls : repos[u] # 0} :
       /\ repos' = [u \in Urls |-> IF u \in kept THEN repos[u] ELSE 0]
       /\ IF kept = {} THEN faults' = faults /\ excused' = excused \ {Repos}
          ELSE Fault /\ excused' = excused
  /\ pc' = "repos" /\ left' = Urls
  /\ UNCHANGED <<session, since, at, stubs, url, securityVars, jar, clusterVars>>

AddRepo(u) ==
  /\ pc = "repos" /\ u \in left
  /\ repos[u] = 0
  /\ repos' = [repos EXCEPT ![u] = session]
  /\ left' = left \ {u}
  /\ UNCHANGED <<session, since, pc, at, stubs, url, securityVars, jar, clusterVars, faults,
                 excused>>

\* Mutant: what was added is not kept
EndReposForgotten ==
  /\ pc = "repos" /\ left = {}
  /\ stubs' = {}
  /\ Enter(1)
  /\ UNCHANGED <<session, since, url, securityVars, repos, jar, clusterVars, faults, excused>>

\* Only now does the session know what it has added.
EndRepos ==
  /\ pc = "repos" /\ left = {}
  /\ stubs' = Urls
  /\ Enter(1)
  /\ UNCHANGED <<session, since, url, securityVars, repos, jar, clusterVars, faults, excused>>

------------------------------------------------------------------------------
\* One module: setup_spark, a job, and the finally blocks

Upload ==
  /\ pc = "upload"
  /\ jar' = TRUE /\ url' = TRUE
  /\ pc' = "uninstall"
  /\ UNCHANGED <<session, since, at, left, stubs, securityVars, repos, clusterVars, faults,
                 excused>>

\* teardown_spark, before the installation and after the tests.
Uninstall ==
  /\ \/ pc = "uninstall" /\ pc' = "janitor"
     \/ pc = "teardown" /\ pc' = "clean"
  /\ dispatcher' = dispatcher \ {Service}
  /\ excused' = excused \ {<<"dispatcher", Service>>}
  /\ UNCHANGED <<session, since, sessionVars, securityVars, repos, jar, znode, drivers, faults>>

AfterModule ==
  IF Modules[at].extra THEN pc' = "unextra" /\ UNCHANGED <<at, left>> ELSE Enter(at + 1)

\* Mutant: uninstall is taken to have cleaned ZooKeeper, as it did before 1.10
JanitorSkipped ==
  /\ \/ pc = "janitor" /\ pc' = "install" /\ UNCHANGED <<at, left>>
     \/ pc = "clean" /\ AfterModule
  /\ UNCHANGED <<session, since, stubs, url, securityVars, repos, jar, dispatcher, znode,
                 drivers, faults, excused>>

\* The outcome of the command on the master is not looked at.
Janitor ==
  /\ \/ pc = "janitor" /\ pc' = "install" /\ UNCHANGED <<at, left>>
     \/ pc = "clean" /\ AfterModule
  /\ \/ /\ znode' = [znode EXCEPT ![Service] = "clean"]
        /\ excused' = excused \ {<<"znode", Service>>}
        /\ faults' = faults
     \/ /\ znode' = znode
        /\ excused' = excused \union {<<"znode", Service>>}
        /\ Fault
  /\ UNCHANGED <<session, since, stubs, url, securityVars, repos, jar, dispatcher, drivers>>

\* The dispatcher recovers what it finds in ZooKeeper.
Install ==
  /\ pc = "install"
  /\ Service \notin dispatcher
  /\ dispatcher' = dispatcher \union {Service}
  /\ znode' = [znode EXCEPT ![Service] = IF @ = "clean" THEN "used" ELSE "stale"]
  /\ pc' = "reach"
  /\ UNCHANGED <<session, since, sessionVars, securityVars, repos, jar, drivers, faults, excused>>

Reach ==
  /\ pc = "reach"
  /\ pc' = "submit"
  /\ UNCHANGED <<session, since, sessionVars, securityVars, repos, jar, clusterVars, faults,
                 excused>>

\* Without a submission id in the output the driver runs, but is lost.
Submit ==
  /\ pc = "submit"
  /\ drivers' = drivers \union {Current}
  /\ \/ /\ pc' = "check"
        /\ UNCHANGED <<faults, excused>>
     \/ /\ Fault
        /\ excused' = excused \union {<<"driver", Current>>}
        /\ pc' = "teardown"
  /\ UNCHANGED <<session, since, sessionVars, securityVars, repos, jar, dispatcher, znode>>

\* Mutant: the driver is only killed when its output did not come in time
CheckNoKill ==
  /\ pc = "check"
  /\ pc' = "teardown"
  /\ UNCHANGED <<session, since, sessionVars, securityVars, repos, jar, clusterVars, faults,
                 excused>>

Check ==
  /\ pc = "check"
  /\ pc' = "kill"
  /\ UNCHANGED <<session, since, sessionVars, securityVars, repos, jar, clusterVars, faults,
                 excused>>

Kill ==
  /\ pc = "kill"
  /\ \/ drivers' = drivers \ {Current} /\ UNCHANGED <<faults, excused>>
     \/ drivers' = drivers /\ Fault /\ excused' = excused \union {<<"driver", Current>>}
  /\ pc' = "teardown"
  /\ UNCHANGED <<session, since, sessionVars, securityVars, repos, jar, dispatcher, znode>>

\* Mutant: the module removes the account, as spark_security_session would
RevokeExtraAll ==
  /\ pc = "unextra"
  /\ account' = 0 /\ secret' = 0 /\ grants' = {}
  /\ Enter(at + 1)
  /\ UNCHANGED <<session, since, stubs, url, marathon, repos, jar, clusterVars, faults, excused>>

\* Mutant: Marathon is granted the service
RevokeExtraService ==
  /\ pc = "unextra"
  /\ marathon' = marathon \union {Service}
  /\ Enter(at + 1)
  /\ UNCHANGED <<session, since, stubs, url, account, secret, grants, repos, jar, clusterVars,
                 faults, excused>>

\* Nothing is revoked; a user is granted to Marathon once more.
RevokeExtra ==
  /\ pc = "unextra"
  /\ marathon' = marathon \union {User}
  /\ Enter(at + 1)
  /\ UNCHANGED <<session, since, stubs, url, account, secret, grants, repos, jar, clusterVars,
                 faults, excused>>

------------------------------------------------------------------------------
\* The end of the session

RemoveRepo(u) ==
  /\ pc = "remove" /\ u \in left
  /\ repos' = [repos EXCEPT ![u] = 0]
  /\ left' = left \ {u}
  /\ UNCHANGED <<session, since, pc, at, stubs, url, securityVars, jar, clusterVars, faults,
                 excused>>

EndRemove ==
  /\ pc = "remove" /\ left = {}
  /\ pc' = "revoke" /\ excused' = excused \ {Repos}
  /\ UNCHANGED <<session, since, sessionVars, securityVars, repos, jar, clusterVars, faults>>

\* For every user, Marathon is granted once more and nothing is revoked.
Revoke ==
  /\ pc = "revoke"
  /\ marathon' = marathon \union (Granted \intersect Users)
  /\ pc' = "drop"
  /\ UNCHANGED <<session, since, sessionVars, account, secret, grants, repos, jar, clusterVars,
                 faults, excused>>

DropAccount == pc = "drop" /\ DropKeys("idle")

------------------------------------------------------------------------------

\* Where an exception in a phase leads, through the finally blocks.
Raised ==
  \/ pc \in Setup /\ pc' = "revoke" /\ UNCHANGED <<at, left>>
  \/ pc = "extra" /\ pc' = "unextra" /\ UNCHANGED <<at, left>>
  \/ pc \in Test /\ pc' = "teardown" /\ UNCHANGED <<at, left>>
  \/ pc = "check" /\ pc' = "kill" /\ UNCHANGED <<at, left>>
  \/ pc = "teardown" /\ AfterModule
  \/ pc = "unextra" /\ Enter(at + 1)
  \/ pc = "remove" /\ pc' = "revoke" /\ UNCHANGED <<at, left>>
  \/ pc = "revoke" /\ pc' = "idle" /\ UNCHANGED <<at, left>>

Excuse ==
  CASE pc \in {"repos", "remove"} -> {Repos}
    [] pc = "teardown" -> {<<"dispatcher", Service>>, <<"znode", Service>>}
    [] pc = "revoke"   -> {Account, Secret}
    [] OTHER           -> {}

\* A permission for an account that is not there, or a repository that is.
Stuck ==
  \/ pc \in {"grants", "extra"} /\ left # {} /\ account = 0
  \/ pc = "repos" /\ \E u \in left : repos[u] # 0

Unwind ==
  /\ Raised
  /\ excused' = excused \union Excuse
  /\ UNCHANGED <<session, since, stubs, url, securityVars, repos, jar, clusterVars>>

Raise == Stuck /\ Unwind /\ UNCHANGED faults

\* A command that is checked fails, or a time-out passes.
Fail == Fault /\ Unwind

Present ==
  {x \in Things : \/ x = Account /\ account # 0
                  \/ x = Secret /\ secret # 0
                  \/ x = Repos /\ \E u \in Urls : repos[u] # 0
                  \/ \E s \in dispatcher : x = <<"dispatcher", s>>
                  \/ \E d \in drivers : x = <<"driver", d>>}

\* The session is killed, without its finally blocks.
Die ==
  /\ pc # "idle"
  /\ Fault
  /\ pc' = "idle"
  /\ excused' = excused \union Present
  /\ UNCHANGED <<session, since, sessionVars, securityVars, repos, jar, clusterVars>>

\* A job comes to its end.
Finish(d) ==
  /\ d \in drivers
  /\ drivers' = drivers \ {d}
  /\ UNCHANGED <<session, since, pc, sessionVars, securityVars, repos, jar, dispatcher, znode,
                 faults, excused>>

SessionStep ==
  \/ ResetAccount \/ CreateAccount \/ EndGrants
  \/ \E phase \in {"grants", "extra"} :
       \/ \E u \in Users : GrantUser(u, phase)
       \/ \E s \in Services : GrantService(s, phase)
  \/ RemoveDuplicates \/ EndRepos \/ EndRemove
  \/ \E u \in Urls : AddRepo(u) \/ RemoveRepo(u)
  \/ Upload \/ Uninstall \/ Janitor \/ Install \/ Reach \/ Submit \/ Check \/ Kill
  \/ RevokeExtra \/ Revoke \/ DropAccount
  \/ Raise

Next ==
  \/ BeginSession
  \/ SessionStep
  \/ Fail \/ Die
  \/ \E d \in drivers : Finish(d)

Spec == Init /\ [][Next]_vars

------------------------------------------------------------------------------

\* A job is submitted with an account whose key the secret has, that may launch
\* tasks for this dispatcher and this user, unless a command failed unnoticed:
\* no module takes away what the later ones need, and what earlier sessions
\* have left does not get in the way.
JobsAuthorized ==
  pc \in {"check", "kill"} /\ excused \intersect {Account, Secret} = {} =>
    /\ account = session /\ secret = session
    /\ {Service, User} \subseteq grants /\ User \in marathon
    /\ jar /\ url

\* A dispatcher starts on a clean ZooKeeper unless the janitor failed unnoticed,
\* even after a session that was killed.
FreshDispatcher ==
  \A s \in dispatcher : znode[s] = "stale" => <<"znode", s>> \in excused

\* No driver is left running by a test, except one whose id was lost, whose
\* kill failed, or whose session was killed.
DriversKilled ==
  \A d \in drivers : <<"driver", d>> \in excused \/ (pc \in {"check", "kill"} /\ d = Current)

\* After a session nothing of it is left that was not excused.
NothingLeft ==
  pc = "idle" =>
    /\ account # 0 => Account \in excused
    /\ secret # 0 => Secret \in excused
    /\ \A u \in Urls : repos[u] # 0 => Repos \in excused
    /\ \A s \in dispatcher : <<"dispatcher", s>> \in excused

\* In a session without a fault of its own, nothing that killed sessions and
\* unnoticed failures have left behind is in the way: its jobs run with an
\* account and a secret of its own, and at its end neither those nor anything
\* from before is there, drivers of earlier sessions apart.
LeftoversOvercome ==
  faults = since =>
    /\ ~Stuck
    /\ pc = "install" => Service \notin dispatcher /\ znode[Service] = "clean"
    /\ pc \in {"check", "kill"} => account = session /\ secret = session
    /\ pc = "idle" =>
         /\ account = 0 /\ secret = 0 /\ dispatcher = {}
         /\ \A u \in Urls : repos[u] = 0
         /\ \A d \in drivers : d[1] # session
==============================================================================
