------------------------ MODULE SparkTestSessionProofs ------------------------
(***************************************************************************)
(* Proofs about SparkTestSession for any modules, dispatchers, users, stub *)
(* universes and numbers of sessions and faults.                           *)
(***************************************************************************)
EXTENDS SparkTestSession, TLAPS

\* Between the first fixture of a module and its last.
ModulePhases == Test \union {"extra", "check", "kill", "teardown", "clean", "unextra"}

PhaseInv ==
  /\ pc # "idle" => session \in 1 .. MaxSessions
  /\ pc \in ModulePhases => at \in 1 .. Len(Modules)

FreshInv ==
  /\ FreshDispatcher
  /\ pc = "install" => znode[Service] = "clean" \/ <<"znode", Service>> \in excused

\* Only the module at work has a dispatcher.
DispatcherInv ==
  \A s \in dispatcher :
    \/ <<"dispatcher", s>> \in excused
    \/ pc \in {"reach", "submit", "check", "kill", "teardown"} /\ s = Service

\* The session knows what it has added, except while it adds.
RepoInv ==
  /\ pc \in {"idle", "reset", "create", "grants", "duplicates", "revoke", "drop"} =>
       \A u \in Urls : repos[u] # 0 => Repos \in excused
  /\ pc \in ModulePhases => stubs = Urls
  /\ pc = "remove" => \A u \in Urls : repos[u] # 0 => u \in left

\* The account and the secret are of this session, or are excused.
KeyInv ==
  /\ pc \in {"idle", "create"} =>
       (account # 0 => Account \in excused) /\ (secret # 0 => Secret \in excused)
  /\ pc \in {"grants", "duplicates", "repos"} \union ModulePhases =>
       /\ account = session \/ Account \in excused
       /\ secret = session \/ Secret \in excused

GrantInv ==
  /\ pc = "grants" => Granted \ left \subseteq grants /\ (Granted \ left) \intersect Users \subseteq marathon
  /\ pc \in {"duplicates", "repos"} \union ModulePhases =>
       Granted \subseteq grants /\ Granted \intersect Users \subseteq marathon
  /\ pc = "extra" => {Service, User} \ left \subseteq grants /\ (User \in left \/ User \in marathon)
  /\ pc \in Test \union {"check", "kill"} => {Service, User} \subseteq grants /\ User \in marathon
  /\ pc \in {"uninstall", "janitor", "install", "reach", "submit", "check", "kill"} => jar /\ url

\* A module from position i on has this dispatcher.
Ahead(i, s) == \E k \in i .. Len(Modules) : Modules[k].service = s

Calm == faults = since

SinceInv ==
  /\ since <= faults
  /\ \A d \in drivers : d[1] <= session
  /\ \A s \in dispatcher : Ahead(1, s)
  /\ pc = "repos" => left \subseteq Urls

\* In a session without a fault the keys are its own, what is to be added is
\* not there, only dispatchers of modules to come are left, and only the
\* module at work has a driver.
CalmInv ==
  Calm =>
    /\ pc \in {"idle", "create"} => account = 0 /\ secret = 0
    /\ pc \in {"grants", "duplicates", "repos"} \union ModulePhases =>
         account = session /\ secret = session
    /\ pc \in {"idle", "revoke", "drop"} => \A u \in Urls : repos[u] = 0
    /\ pc = "repos" => \A u \in left : repos[u] = 0
    /\ pc \in ModulePhases \ {"clean", "unextra"} => \A s \in dispatcher : Ahead(at, s)
    /\ pc \in {"clean", "unextra"} => \A s \in dispatcher : Ahead(at + 1, s)
    /\ pc \in {"remove", "revoke", "drop", "idle"} => dispatcher = {}
    /\ pc \in {"janitor", "install"} => Service \notin dispatcher
    /\ pc = "install" => znode[Service] = "clean"
    /\ \A d \in drivers : d[1] = session => pc \in {"check", "kill"} /\ d = Current

------------------------------------------------------------------------------
(* Types and phases. *)

LEMMA ModuleFacts ==
  /\ Len(Modules) \in Nat \ {0} /\ 1 \in 1 .. Len(Modules) /\ 1 \in 1 .. Len(Modules) + 1
  /\ \A i \in 1 .. Len(Modules) :
       /\ Modules[i].service \in Services /\ Modules[i].user \in Users
       /\ ~Modules[i].extra => {Modules[i].service, Modules[i].user} \subseteq Granted
<1>1. Modules \in Seq(Module) /\ Modules # <<>>
  BY ModulesAssumption
<1>2. Len(Modules) \in Nat \ {0} /\ 1 \in 1 .. Len(Modules) /\ 1 \in 1 .. Len(Modules) + 1
  <2>1. Len(Modules) \in Nat \ {0}
    BY <1>1
  <2>2. QED
    BY <2>1
<1>3. DOMAIN Modules = 1 .. Len(Modules) /\ \A i \in 1 .. Len(Modules) : Modules[i] \in Module
  BY <1>1
<1>4. QED
  BY <1>2, <1>3, ModulesAssumption DEF Module

\* Whatever comes next, the position fits it.
LEMMA EnterFits ==
  ASSUME TypeOK, NEW i \in 1 .. Len(Modules) + 1, Enter(i)
  PROVE  /\ at' = i /\ at' \in 1 .. Len(Modules) + 1
         /\ pc' \in {"remove", "extra", "upload"}
         /\ pc' # "remove" => at' \in 1 .. Len(Modules)
         /\ left' \subseteq Services \union Users \union Urls
<1>1. CASE i > Len(Modules)
  BY <1>1 DEF Enter, TypeOK
<1>2. CASE ~(i > Len(Modules))
  <2>1. i \in 1 .. Len(Modules)
    BY <1>2, ModuleFacts
  <2>2. Modules[i].service \in Services /\ Modules[i].user \in Users
    BY <2>1, ModuleFacts
  <2>3. QED
    BY <1>2, <2>1, <2>2 DEF Enter
<1>3. QED
  BY <1>1, <1>2

LEMMA AfterModuleFits ==
  ASSUME TypeOK, at \in 1 .. Len(Modules), AfterModule
  PROVE  /\ at' \in 1 .. Len(Modules) + 1
         /\ pc' \in {"remove", "extra", "upload", "unextra"}
         /\ pc' # "remove" => at' \in 1 .. Len(Modules)
         /\ left' \subseteq Services \union Users \union Urls
<1>1. at + 1 \in 1 .. Len(Modules) + 1
  BY ModuleFacts
<1>2. CASE Modules[at].extra
  BY <1>2 DEF AfterModule, TypeOK
<1>3. CASE ~Modules[at].extra
  BY <1>1, <1>3, EnterFits DEF AfterModule
<1>4. QED
  BY <1>2, <1>3

LEMMA RaisedFits ==
  ASSUME TypeOK, PhaseInv, Raised
  PROVE  /\ pc # "idle"
         /\ at' \in 1 .. Len(Modules) + 1 /\ pc' \in Phases
         /\ pc' \in ModulePhases => at' \in 1 .. Len(Modules)
         /\ left' \subseteq Services \union Users \union Urls
<1>1. CASE pc = "teardown" /\ AfterModule
  BY <1>1, AfterModuleFits DEF PhaseInv, ModulePhases, Phases, Test
<1>2. CASE pc = "unextra" /\ Enter(at + 1)
  <2>1. at + 1 \in 1 .. Len(Modules) + 1
    BY <1>2, ModuleFacts DEF PhaseInv, ModulePhases
  <2>2. QED
    BY <1>2, <2>1, EnterFits DEF ModulePhases, Phases, Test
<1>3. QED
  BY <1>1, <1>2 DEF Raised, TypeOK, PhaseInv, ModulePhases, Phases, Setup, Test

LEMMA KeysTyped ==
  ASSUME TypeOK, PhaseInv, NEW next \in Phases, next \notin ModulePhases,
         pc # "idle", DropKeys(next)
  PROVE  TypeOK' /\ PhaseInv'
<1>1. PICK kept \in SUBSET {Account, Secret} :
        /\ account' = IF Account \in kept THEN account ELSE 0
        /\ grants' = IF Account \in kept THEN grants ELSE {}
        /\ secret' = IF Secret \in kept THEN secret ELSE 0
        /\ IF kept = {} THEN faults' = faults ELSE Fault
        /\ excused' = (excused \ {Account, Secret}) \union kept
  BY DEF DropKeys
<1>2. faults' \in 0 .. MaxFaults
  BY <1>1, BoundsAssumption DEF Fault, TypeOK
<1>3. account' \in 0 .. MaxSessions /\ secret' \in 0 .. MaxSessions
  BY <1>1, BoundsAssumption DEF TypeOK
<1>4. grants' \subseteq Services \union Users /\ excused' \subseteq Things
  BY <1>1 DEF TypeOK, Things
<1>5. QED
  BY <1>2, <1>3, <1>4 DEF DropKeys, TypeOK, PhaseInv, sessionVars, clusterVars

LEMMA TypeStep ==
  ASSUME TypeOK, PhaseInv, [Next]_vars
  PROVE  TypeOK' /\ PhaseInv'
<1> USE ModuleFacts, BoundsAssumption, NamesAssumption
<1>1. CASE BeginSession
  <2>1. session \in 0 .. MaxSessions /\ session < MaxSessions /\ session' = session + 1
    BY <1>1 DEF BeginSession, TypeOK
  <2>2. session' \in 1 .. MaxSessions
    BY <2>1
  <2>3. url' \in BOOLEAN
    BY <1>1, Zenon DEF BeginSession
  <2>4. QED
    BY <1>1, <2>2, <2>3 DEF BeginSession, TypeOK, PhaseInv, ModulePhases, Phases, Setup, Test, securityVars, clusterVars
<1>2. CASE ResetAccount \/ DropAccount
  BY <1>2, KeysTyped DEF ResetAccount, DropAccount, ModulePhases, Phases, Setup, Test
<1>3. CASE CreateAccount
  <2>1. PICK failed \in SUBSET {Account, Secret} :
          /\ account' = IF Account \in failed \/ account # 0 THEN account ELSE session
          /\ secret' = IF Secret \in failed \/ secret # 0 THEN secret ELSE session
          /\ IF failed = {} THEN faults' = faults ELSE Fault
          /\ excused' = excused \union failed
    BY <1>3 DEF CreateAccount
  <2>2. faults' \in 0 .. MaxFaults
    BY <2>1 DEF Fault, TypeOK
  <2>3. account' \in 0 .. MaxSessions /\ secret' \in 0 .. MaxSessions
    BY <2>1 DEF TypeOK
  <2>4. excused' \subseteq Things
    BY <2>1 DEF TypeOK, Things
  <2>5. QED
    BY <1>3, <2>2, <2>3, <2>4 DEF CreateAccount, TypeOK, PhaseInv, ModulePhases, Phases, Setup, Test, clusterVars
<1>4. ASSUME NEW phase \in {"grants", "extra"}, NEW u \in Users, GrantUser(u, phase) PROVE TypeOK' /\ PhaseInv'
  BY <1>4 DEF GrantUser, TypeOK, PhaseInv, clusterVars
<1>5. ASSUME NEW phase \in {"grants", "extra"}, NEW s \in Services, GrantService(s, phase) PROVE TypeOK' /\ PhaseInv'
  BY <1>5 DEF GrantService, TypeOK, PhaseInv, clusterVars
<1>6. CASE EndGrants
  BY <1>6 DEF EndGrants, TypeOK, PhaseInv, ModulePhases, Phases, Setup, Test, sessionVars, securityVars, clusterVars
<1>7. CASE RemoveDuplicates
  <2>1. PICK kept \in SUBSET {u \in Urls : repos[u] # 0} :
          /\ repos' = [u \in Urls |-> IF u \in kept THEN repos[u] ELSE 0]
          /\ IF kept = {} THEN faults' = faults /\ excused' = excused \ {Repos}
             ELSE Fault /\ excused' = excused
    BY <1>7 DEF RemoveDuplicates
  <2>2. faults' \in 0 .. MaxFaults /\ excused' \subseteq Things
    BY <2>1 DEF Fault, TypeOK
  <2>3. repos' \in [Urls -> 0 .. MaxSessions]
    BY <2>1 DEF TypeOK
  <2>4. QED
    BY <1>7, <2>2, <2>3 DEF RemoveDuplicates, TypeOK, PhaseInv, ModulePhases, Phases, Setup, Test, securityVars, clusterVars
<1>8. ASSUME NEW u \in Urls, AddRepo(u) PROVE TypeOK' /\ PhaseInv'
  BY <1>8 DEF AddRepo, TypeOK, PhaseInv, securityVars, clusterVars
<1>9. ASSUME NEW u \in Urls, RemoveRepo(u) PROVE TypeOK' /\ PhaseInv'
  BY <1>9 DEF RemoveRepo, TypeOK, PhaseInv, securityVars, clusterVars
<1>10. CASE EndRepos
  <2>1. /\ at' \in 1 .. Len(Modules) + 1 /\ pc' \in {"remove", "extra", "upload"}
        /\ pc' # "remove" => at' \in 1 .. Len(Modules)
        /\ left' \subseteq Services \union Users \union Urls
    BY <1>10, EnterFits DEF EndRepos
  <2>2. QED
    BY <1>10, <2>1 DEF EndRepos, TypeOK, PhaseInv, ModulePhases, Phases, Setup, Test, securityVars, clusterVars
<1>11. CASE EndRemove
  BY <1>11 DEF EndRemove, TypeOK, PhaseInv, ModulePhases, Phases, Setup, Test, sessionVars, securityVars, clusterVars
<1>12. CASE Upload \/ Reach \/ Check
  BY <1>12 DEF Upload, Reach, Check, TypeOK, PhaseInv, ModulePhases, Phases, Setup, Test, sessionVars, securityVars, clusterVars
<1>13. CASE Uninstall
  BY <1>13 DEF Uninstall, TypeOK, PhaseInv, ModulePhases, Phases, Setup, Test, sessionVars, securityVars
<1>14. CASE Janitor
  <2>1. at \in 1 .. Len(Modules) /\ Service \in Services
    BY <1>14 DEF Janitor, PhaseInv, ModulePhases, Test, Service
  <2>2. /\ at' \in 1 .. Len(Modules) + 1 /\ pc' \in Phases
        /\ pc' \in ModulePhases => at' \in 1 .. Len(Modules)
        /\ left' \subseteq Services \union Users \union Urls
    BY <1>14, <2>1, AfterModuleFits DEF Janitor, TypeOK, ModulePhases, Phases, Test
  <2>3. znode' \in [Services -> {"clean", "used", "stale"}]
    BY <1>14, <2>1 DEF Janitor, TypeOK
  <2>4. excused' \subseteq Things /\ faults' \in 0 .. MaxFaults
    BY <1>14, <2>1 DEF Janitor, Fault, TypeOK, Things
  <2>5. pc # "idle"
    BY <1>14 DEF Janitor
  <2>6. QED
    BY <1>14, <2>2, <2>3, <2>4, <2>5 DEF Janitor, TypeOK, PhaseInv, securityVars
<1>15. CASE Install
  <2>1. at \in 1 .. Len(Modules) /\ Service \in Services
    BY <1>15 DEF Install, PhaseInv, ModulePhases, Test, Service
  <2>2. QED
    BY <1>15, <2>1 DEF Install, TypeOK, PhaseInv, ModulePhases, Phases, Test, sessionVars, securityVars
<1>16. CASE Submit \/ Kill
  <2>1. at \in 1 .. Len(Modules) /\ session \in 1 .. MaxSessions
    BY <1>16 DEF Submit, Kill, PhaseInv, ModulePhases, Test
  <2>2. Current \in Driver
    BY <2>1 DEF Current, Driver
  <2>3. drivers' \subseteq Driver /\ excused' \subseteq Things
    BY <1>16, <2>2 DEF Submit, Kill, TypeOK, Things
  <2>4. faults' \in 0 .. MaxFaults
    BY <1>16 DEF Submit, Kill, Fault, TypeOK
  <2>5. QED
    BY <1>16, <2>1, <2>3, <2>4 DEF Submit, Kill, TypeOK, PhaseInv, ModulePhases, Phases, Test, sessionVars, securityVars
<1>17. CASE RevokeExtra
  <2>1. at \in 1 .. Len(Modules) /\ at + 1 \in 1 .. Len(Modules) + 1 /\ User \in Users
    BY <1>17 DEF RevokeExtra, PhaseInv, ModulePhases, User
  <2>2. /\ at' \in 1 .. Len(Modules) + 1 /\ pc' \in {"remove", "extra", "upload"}
        /\ pc' # "remove" => at' \in 1 .. Len(Modules)
        /\ left' \subseteq Services \union Users \union Urls
    BY <1>17, <2>1, EnterFits DEF RevokeExtra
  <2>3. QED
    BY <1>17, <2>1, <2>2 DEF RevokeExtra, TypeOK, PhaseInv, ModulePhases, Phases, Test, clusterVars
<1>18. CASE Revoke
  BY <1>18 DEF Revoke, TypeOK, PhaseInv, ModulePhases, Phases, Setup, Test, sessionVars, clusterVars
<1>19. CASE Raise \/ Fail
  <2>1. Unwind /\ Raised
    BY <1>19 DEF Raise, Fail, Unwind
  <2>2. /\ pc # "idle"
        /\ at' \in 1 .. Len(Modules) + 1 /\ pc' \in Phases
        /\ pc' \in ModulePhases => at' \in 1 .. Len(Modules)
        /\ left' \subseteq Services \union Users \union Urls
    BY <2>1, RaisedFits
  <2>3. pc = "teardown" => Service \in Services
    BY DEF Service, PhaseInv, ModulePhases
  <2>4. Excuse \subseteq Things
    BY <2>3 DEF Excuse, Things
  <2>5. excused' \subseteq Things
    BY <2>1, <2>4 DEF Unwind, TypeOK
  <2>6. faults' \in 0 .. MaxFaults
    BY <1>19 DEF Raise, Fail, Fault, TypeOK
  <2>7. QED
    BY <2>1, <2>2, <2>5, <2>6 DEF Unwind, TypeOK, PhaseInv, securityVars, clusterVars
<1>20. CASE Die
  <2>1. Present \subseteq Things
    BY DEF Present
  <2>2. faults' \in 0 .. MaxFaults
    BY <1>20 DEF Die, Fault, TypeOK
  <2>3. QED
    BY <1>20, <2>1, <2>2 DEF Die, TypeOK, PhaseInv, ModulePhases, Phases, Setup, Test, sessionVars, securityVars, clusterVars
<1>21. ASSUME NEW d \in drivers, Finish(d) PROVE TypeOK' /\ PhaseInv'
  BY <1>21 DEF Finish, TypeOK, PhaseInv, sessionVars, securityVars
<1>22. CASE UNCHANGED vars
  BY <1>22 DEF vars, TypeOK, PhaseInv, sessionVars, securityVars, clusterVars
<1>23. ASSUME SessionStep PROVE TypeOK' /\ PhaseInv'
  BY <1>23, <1>2, <1>3, <1>4, <1>5, <1>6, <1>7, <1>8, <1>9, <1>10, <1>11, <1>12, <1>13, <1>14, <1>15,
     <1>16, <1>17, <1>18, <1>19, Zenon DEF SessionStep
<1>24. QED
  BY <1>1, <1>19, <1>20, <1>21, <1>22, <1>23, Zenon DEF Next

LEMMA InitTyped ==
  ASSUME Init
  PROVE  TypeOK /\ PhaseInv
<1>1. url \in BOOLEAN /\ jar \in BOOLEAN
  BY Zenon DEF Init
<1>2. 0 \in 0 .. MaxSessions /\ 0 \in 0 .. MaxFaults /\ at \in 1 .. Len(Modules) + 1
  BY ModuleFacts, BoundsAssumption DEF Init
<1>3. repos \in [Urls -> 0 .. MaxSessions] /\ znode \in [Services -> {"clean", "used", "stale"}]
  BY <1>2 DEF Init
<1>4. QED
  BY <1>1, <1>2, <1>3 DEF Init, TypeOK, PhaseInv, ModulePhases, Phases, Test

\* Every variable keeps its type, in whatever order sessions raise, die and begin.
THEOREM TypeCorrect == Spec => []TypeOK
<1>1. Init => TypeOK /\ PhaseInv
  BY InitTyped
<1>2. TypeOK /\ PhaseInv /\ [Next]_vars => TypeOK' /\ PhaseInv'
  BY TypeStep
<1>3. QED
  BY <1>1, <1>2, PTL DEF Spec

------------------------------------------------------------------------------
(* What the excuses and the cluster keep. *)

\* Who takes an excuse back has made sure of the thing.
LEMMA ExcusesKept ==
  ASSUME [Next]_vars, NEW x \in excused, x \notin excused'
  PROVE  \/ x \in {Account, Secret} /\ (ResetAccount \/ DropAccount)
         \/ x = Repos /\ (RemoveDuplicates \/ EndRemove)
         \/ x = <<"dispatcher", Service>> /\ Uninstall
         \/ x = <<"znode", Service>> /\ Janitor
<1>1. CASE BeginSession \/ Fail \/ Die \/ Raise \/ (\E d \in drivers : Finish(d))
  BY <1>1 DEF BeginSession, Fail, Die, Raise, Unwind, Finish
<1>2. CASE \E phase \in {"grants", "extra"} :
             (\E u \in Users : GrantUser(u, phase)) \/ (\E t \in Services : GrantService(t, phase))
  BY <1>2 DEF GrantUser, GrantService
<1>3. CASE ResetAccount \/ DropAccount
  BY <1>3 DEF ResetAccount, DropAccount, DropKeys
<1>4. CASE CreateAccount
  BY <1>4 DEF CreateAccount
<1>5. CASE RemoveDuplicates \/ EndRemove
  BY <1>5 DEF RemoveDuplicates, EndRemove
<1>6. CASE EndGrants \/ EndRepos \/ (\E u \in Urls : AddRepo(u) \/ RemoveRepo(u))
  BY <1>6 DEF EndGrants, EndRepos, AddRepo, RemoveRepo
<1>7. CASE Uninstall \/ Janitor
  BY <1>7 DEF Uninstall, Janitor
<1>8. CASE Upload \/ Install \/ Reach \/ Submit \/ Check \/ Kill \/ RevokeExtra \/ Revoke
  BY <1>8 DEF Upload, Install, Reach, Submit, Check, Kill, RevokeExtra, Revoke
<1>9. CASE UNCHANGED vars
  BY <1>9 DEF vars
<1>10. QED
  BY <1>1, <1>2, <1>3, <1>4, <1>5, <1>6, <1>7, <1>8, <1>9, Zenon DEF Next, SessionStep

\* Only the janitor, an installation, an uninstallation, a submission, the
\* kill and the end of a job change what runs; a module leaves its phases only
\* through Janitor, RevokeExtra, an exception or a kill of the session.
LEMMA ClusterKept ==
  ASSUME [Next]_vars
  PROVE  /\ Janitor \/ Install \/ znode' = znode
         /\ Install \/ Uninstall \/ dispatcher' = dispatcher
         /\ Submit \/ drivers' \subseteq drivers
         /\ Janitor \/ (pc' = "install" => pc = "install" /\ at' = at)
<1>1. CASE BeginSession \/ Die \/ (\E d \in drivers : Finish(d))
  BY <1>1 DEF BeginSession, Die, Finish, sessionVars, clusterVars
<1>2. CASE \E phase \in {"grants", "extra"} :
             (\E u \in Users : GrantUser(u, phase)) \/ (\E t \in Services : GrantService(t, phase))
  BY <1>2 DEF GrantUser, GrantService, clusterVars
<1>3. CASE ResetAccount \/ DropAccount
  BY <1>3 DEF ResetAccount, DropAccount, DropKeys, clusterVars
<1>4. CASE CreateAccount \/ RemoveDuplicates \/ EndRemove
  BY <1>4 DEF CreateAccount, RemoveDuplicates, EndRemove, clusterVars
<1>5. CASE EndGrants \/ EndRepos \/ (\E u \in Urls : AddRepo(u) \/ RemoveRepo(u))
  BY <1>5 DEF EndGrants, EndRepos, AddRepo, RemoveRepo, Enter, clusterVars
<1>6. CASE Uninstall \/ Janitor \/ Install
  BY <1>6 DEF Uninstall, Janitor, Install
<1>7. CASE Upload \/ Reach \/ Check \/ Revoke
  BY <1>7 DEF Upload, Reach, Check, Revoke, clusterVars
<1>8. CASE Submit \/ Kill
  BY <1>8 DEF Submit, Kill
<1>9. CASE RevokeExtra
  BY <1>9 DEF RevokeExtra, Enter, clusterVars
<1>10. CASE Raise \/ Fail
  BY <1>10 DEF Raise, Fail, Unwind, Raised, AfterModule, Enter, clusterVars
<1>11. CASE UNCHANGED vars
  BY <1>11 DEF vars, sessionVars, clusterVars
<1>12. QED
  BY <1>1, <1>2, <1>3, <1>4, <1>5, <1>6, <1>7, <1>8, <1>9, <1>10, <1>11, Zenon DEF Next, SessionStep

------------------------------------------------------------------------------
(* Dispatchers and ZooKeeper. *)

LEMMA FreshStep ==
  ASSUME TypeOK, PhaseInv, FreshInv, [Next]_vars
  PROVE  FreshInv'
<1>1. CASE Janitor
  <2>1. Service \in Services /\ dispatcher' = dispatcher
    BY <1>1, ModuleFacts DEF Janitor, PhaseInv, ModulePhases, Test, Service
  <2>2. pc' = "install" => at' = at
    BY <1>1 DEF Janitor, AfterModule, Enter
  <2>3. \A s \in Services : s # Service =>
          znode'[s] = znode[s] /\ (<<"znode", s>> \in excused => <<"znode", s>> \in excused')
    BY <1>1 DEF Janitor, TypeOK
  <2>4. znode'[Service] = "clean" \/ <<"znode", Service>> \in excused'
    BY <1>1, <2>1 DEF Janitor, TypeOK
  <2>5. QED
    BY <2>1, <2>2, <2>3, <2>4 DEF FreshInv, FreshDispatcher, TypeOK, Service
<1>2. CASE Install
  <2>1. Service \in Services /\ dispatcher' = dispatcher \union {Service} /\ excused' = excused /\ pc' = "reach"
    BY <1>2, ModuleFacts DEF Install, PhaseInv, ModulePhases, Test, Service
  <2>2. \A s \in Services : s # Service => znode'[s] = znode[s]
    BY <1>2 DEF Install, TypeOK
  <2>3. znode'[Service] = "stale" => <<"znode", Service>> \in excused
    BY <1>2, <2>1 DEF Install, TypeOK, FreshInv
  <2>4. QED
    BY <2>1, <2>2, <2>3 DEF FreshInv, FreshDispatcher, TypeOK
<1>3. CASE ~Janitor /\ ~Install
  <2>1. znode' = znode /\ (pc' = "install" => pc = "install" /\ at' = at)
    BY <1>3, ClusterKept
  <2>2. dispatcher' \subseteq dispatcher
    BY <1>3, ClusterKept DEF Uninstall
  <2>3. \A s : <<"znode", s>> \in excused => <<"znode", s>> \in excused'
    BY <1>3, ExcusesKept DEF Account, Secret, Repos
  <2>4. QED
    BY <2>1, <2>2, <2>3 DEF FreshInv, FreshDispatcher, Service
<1>4. QED
  BY <1>1, <1>2, <1>3

\* A dispatcher recovers nothing of an earlier one, unless the janitor failed
\* unnoticed: setup_spark cleans before it installs, whatever was left.
THEOREM FreshDispatchers == Spec => []FreshDispatcher
<1>1. Init => TypeOK /\ PhaseInv /\ FreshInv
  BY InitTyped DEF Init, FreshInv, FreshDispatcher
<1>2. TypeOK /\ PhaseInv /\ FreshInv /\ [Next]_vars => TypeOK' /\ PhaseInv' /\ FreshInv'
  BY TypeStep, FreshStep
<1>3. FreshInv => FreshDispatcher
  BY DEF FreshInv
<1>4. QED
  BY <1>1, <1>2, <1>3, PTL DEF Spec

------------------------------------------------------------------------------
(* Drivers. *)

\* Between its submission and its kill nothing but a kill of the session
\* takes a module past its job.
LEMMA JobKept ==
  ASSUME [Next]_vars, pc \in {"check", "kill"}
  PROVE  \/ Kill \/ Die
         \/ pc' \in {"check", "kill"} /\ at' = at /\ session' = session
<1>1. CASE \E d \in drivers : Finish(d)
  BY <1>1 DEF Finish, sessionVars
<1>2. CASE Check
  BY <1>2 DEF Check, sessionVars
<1>3. CASE Raise \/ Fail
  BY <1>3 DEF Raise, Fail, Unwind, Raised, Setup, Test
<1>4. CASE UNCHANGED vars
  BY <1>4 DEF vars, sessionVars
<1>5. CASE Kill \/ Die
  BY <1>5
<1>6. ~BeginSession /\ ~ResetAccount /\ ~DropAccount /\ ~CreateAccount /\ ~EndGrants
  BY DEF BeginSession, ResetAccount, DropAccount, CreateAccount, EndGrants
<1>7. ~RemoveDuplicates /\ ~EndRepos /\ ~EndRemove /\ (\A u \in Urls : ~AddRepo(u) /\ ~RemoveRepo(u))
  BY DEF RemoveDuplicates, EndRepos, EndRemove, AddRepo, RemoveRepo
<1>8. \A phase \in {"grants", "extra"} :
        (\A u \in Users : ~GrantUser(u, phase)) /\ (\A t \in Services : ~GrantService(t, phase))
  BY DEF GrantUser, GrantService
<1>9. ~Upload /\ ~Uninstall /\ ~Janitor /\ ~Install /\ ~Reach /\ ~Submit /\ ~RevokeExtra /\ ~Revoke
  BY DEF Upload, Uninstall, Janitor, Install, Reach, Submit, RevokeExtra, Revoke
<1>10. QED
  BY <1>1, <1>2, <1>3, <1>4, <1>5, <1>6, <1>7, <1>8, <1>9, Zenon DEF Next, SessionStep

LEMMA DriversStep ==
  ASSUME TypeOK, DriversKilled, [Next]_vars
  PROVE  DriversKilled'
<1> SUFFICES ASSUME NEW d \in drivers', <<"driver", d>> \notin excused'
             PROVE  pc' \in {"check", "kill"} /\ d = Current'
  BY Zenon DEF DriversKilled
<1>1. CASE Submit
  BY <1>1 DEF Submit, DriversKilled, Current, sessionVars
<1>2. CASE ~Submit
  <2>1. d \in drivers
    BY <1>2, ClusterKept
  <2>2. <<"driver", d>> \notin excused
    BY ExcusesKept DEF Account, Secret, Repos
  <2>3. pc \in {"check", "kill"} /\ d = Current
    BY <2>1, <2>2 DEF DriversKilled
  <2>4. CASE Kill
    BY <2>3, <2>4 DEF Kill
  <2>5. CASE Die
    <3>1. <<"driver", d>> \in Things
      BY <2>1 DEF TypeOK, Things
    <3>2. <<"driver", d>> \in Present
      BY <2>1, <3>1 DEF Present
    <3>3. QED
      BY <2>5, <3>2 DEF Die
  <2>6. CASE pc' \in {"check", "kill"} /\ at' = at /\ session' = session
    BY <2>3, <2>6 DEF Current
  <2>7. QED
    BY <2>3, <2>4, <2>5, <2>6, JobKept
<1>3. QED
  BY <1>1, <1>2

\* No test leaves its driver behind: wherever an exception strikes, kill is
\* reached, unless the id was lost, the kill failed or the session was killed.
THEOREM DriversAreKilled == Spec => []DriversKilled
<1>1. Init => TypeOK /\ PhaseInv /\ DriversKilled
  BY InitTyped DEF Init, DriversKilled
<1>2. TypeOK /\ PhaseInv /\ DriversKilled /\ [Next]_vars => TypeOK' /\ PhaseInv' /\ DriversKilled'
  BY TypeStep, DriversStep
<1>3. QED
  BY <1>1, <1>2, PTL DEF Spec

------------------------------------------------------------------------------
(* What is left. *)

\* While a module has a dispatcher it goes on to its uninstallation, unless
\* that raises or the session is killed.
LEMMA TeardownReached ==
  ASSUME [Next]_vars, pc \in {"reach", "submit", "check", "kill", "teardown"}
  PROVE  \/ Uninstall
         \/ Die
         \/ pc = "teardown" /\ Unwind
         \/ pc' \in {"reach", "submit", "check", "kill", "teardown"} /\ at' = at
<1>1. CASE \E d \in drivers : Finish(d)
  BY <1>1 DEF Finish, sessionVars
<1>2. CASE Reach \/ Submit \/ Check \/ Kill
  BY <1>2 DEF Reach, Submit, Check, Kill, sessionVars
<1>3. CASE Raise \/ Fail
  BY <1>3 DEF Raise, Fail, Unwind, Raised, Setup, Test
<1>4. CASE UNCHANGED vars
  BY <1>4 DEF vars, sessionVars
<1>5. CASE Uninstall \/ Die
  BY <1>5
<1>6. ~BeginSession /\ ~ResetAccount /\ ~DropAccount /\ ~CreateAccount /\ ~EndGrants
  BY DEF BeginSession, ResetAccount, DropAccount, CreateAccount, EndGrants
<1>7. ~RemoveDuplicates /\ ~EndRepos /\ ~EndRemove /\ (\A u \in Urls : ~AddRepo(u) /\ ~RemoveRepo(u))
  BY DEF RemoveDuplicates, EndRepos, EndRemove, AddRepo, RemoveRepo
<1>8. \A phase \in {"grants", "extra"} :
        (\A u \in Users : ~GrantUser(u, phase)) /\ (\A t \in Services : ~GrantService(t, phase))
  BY DEF GrantUser, GrantService
<1>9. ~Upload /\ ~Janitor /\ ~Install /\ ~RevokeExtra /\ ~Revoke
  BY DEF Upload, Janitor, Install, RevokeExtra, Revoke
<1>10. QED
  BY <1>1, <1>2, <1>3, <1>4, <1>5, <1>6, <1>7, <1>8, <1>9, Zenon DEF Next, SessionStep

LEMMA DispatcherStep ==
  ASSUME TypeOK, DispatcherInv, [Next]_vars
  PROVE  DispatcherInv'
<1> SUFFICES ASSUME NEW s \in dispatcher', <<"dispatcher", s>> \notin excused'
             PROVE  pc' \in {"reach", "submit", "check", "kill", "teardown"} /\ s = Service'
  BY Zenon DEF DispatcherInv
<1>1. CASE Install
  BY <1>1 DEF Install, DispatcherInv, Service, sessionVars
<1>2. CASE Uninstall
  <2>1. s \in dispatcher /\ s # Service /\ <<"dispatcher", s>> \notin excused
    BY <1>2 DEF Uninstall
  <2>2. QED
    BY <2>1 DEF DispatcherInv
<1>3. CASE ~Install /\ ~Uninstall
  <2>1. s \in dispatcher
    BY <1>3, ClusterKept
  <2>2. <<"dispatcher", s>> \notin excused
    BY <1>3, ExcusesKept DEF Account, Secret, Repos
  <2>3. pc \in {"reach", "submit", "check", "kill", "teardown"} /\ s = Service
    BY <2>1, <2>2 DEF DispatcherInv
  <2>4. ~Die
    <3>1. <<"dispatcher", s>> \in Things
      BY <2>1 DEF TypeOK, Things
    <3>2. <<"dispatcher", s>> \in Present
      BY <2>1, <3>1 DEF Present
    <3>3. QED
      BY <3>2 DEF Die
  <2>5. ~(pc = "teardown" /\ Unwind)
    BY <2>3 DEF Unwind, Excuse
  <2>6. QED
    BY <1>3, <2>3, <2>4, <2>5, TeardownReached DEF Service
<1>4. QED
  BY <1>1, <1>2, <1>3

------------------------------------------------------------------------------
(* The steps by where the session is. *)

\* A step that is none of the fixtures: a job ends, or nothing happens.
Quiet == UNCHANGED <<session, pc, sessionVars, securityVars, repos, jar, excused>>

LEMMA OutsideModules ==
  ASSUME [Next]_vars, pc \notin ModulePhases
  PROVE  \/ BeginSession \/ ResetAccount \/ CreateAccount \/ EndGrants
         \/ (\E u \in Users : GrantUser(u, "grants"))
         \/ (\E s \in Services : GrantService(s, "grants"))
         \/ RemoveDuplicates \/ EndRepos \/ EndRemove
         \/ (\E u \in Urls : AddRepo(u) \/ RemoveRepo(u))
         \/ Revoke \/ DropAccount \/ (Unwind /\ (Stuck \/ Fault)) \/ Die \/ Quiet
<1>1. (UNCHANGED vars) \/ (\E d \in drivers : Finish(d)) => Quiet
  BY DEF vars, Finish, Quiet, sessionVars, securityVars, clusterVars
<1>2. Raise \/ Fail => Unwind /\ (Stuck \/ Fault)
  BY DEF Raise, Fail
<1>3. (\A u \in Users : ~GrantUser(u, "extra")) /\ (\A s \in Services : ~GrantService(s, "extra"))
  BY DEF GrantUser, GrantService, ModulePhases
<1>4. ~Upload /\ ~Uninstall /\ ~Janitor /\ ~Install /\ ~Reach /\ ~Submit /\ ~Check /\ ~Kill /\ ~RevokeExtra
  BY DEF Upload, Uninstall, Janitor, Install, Reach, Submit, Check, Kill, RevokeExtra, ModulePhases, Test
<1>5. \A phase \in {"grants", "extra"} : phase = "grants" \/ phase = "extra"
  OBVIOUS
<1>6. QED
  BY <1>1, <1>2, <1>3, <1>4, <1>5, Zenon DEF Next, SessionStep

LEMMA InsideModules ==
  ASSUME [Next]_vars, pc \in ModulePhases
  PROVE  \/ EndGrants
         \/ (\E u \in Users : GrantUser(u, "extra"))
         \/ (\E s \in Services : GrantService(s, "extra"))
         \/ Upload \/ Uninstall \/ Janitor \/ Install \/ Reach \/ Submit \/ Check \/ Kill
         \/ RevokeExtra \/ (Unwind /\ (Stuck \/ Fault)) \/ Die \/ Quiet
<1>1. (UNCHANGED vars) \/ (\E d \in drivers : Finish(d)) => Quiet
  BY DEF vars, Finish, Quiet, sessionVars, securityVars, clusterVars
<1>2. Raise \/ Fail => Unwind /\ (Stuck \/ Fault)
  BY DEF Raise, Fail
<1>3. (\A u \in Users : ~GrantUser(u, "grants")) /\ (\A s \in Services : ~GrantService(s, "grants"))
  BY DEF GrantUser, GrantService, ModulePhases, Test
<1>4. /\ ~BeginSession /\ ~ResetAccount /\ ~CreateAccount /\ ~RemoveDuplicates /\ ~EndRepos
      /\ ~EndRemove /\ ~Revoke /\ ~DropAccount
      /\ \A u \in Urls : ~AddRepo(u) /\ ~RemoveRepo(u)
  BY DEF BeginSession, ResetAccount, CreateAccount, RemoveDuplicates, EndRepos, EndRemove, Revoke,
         DropAccount, AddRepo, RemoveRepo, ModulePhases, Test
<1>5. \A phase \in {"grants", "extra"} : phase = "grants" \/ phase = "extra"
  OBVIOUS
<1>6. QED
  BY <1>1, <1>2, <1>3, <1>4, <1>5, Zenon DEF Next, SessionStep

\* A module takes nothing away from the session, and leads to the next one or
\* to the end of the session.
LEMMA ModuleKeeps ==
  ASSUME [Next]_vars, pc \in ModulePhases
  PROVE  /\ session' = session /\ account' = account /\ secret' = secret
         /\ grants \subseteq grants' /\ marathon \subseteq marathon'
         /\ repos' = repos /\ stubs' = stubs
         /\ jar => jar'
         /\ url => url'
         /\ \/ Die
            \/ pc' \in ModulePhases
            \/ pc' = "remove" /\ left' = stubs
<1>1. CASE EndGrants
  BY <1>1 DEF EndGrants, ModulePhases, Test, sessionVars, securityVars
<1>2. CASE \E u \in Users : GrantUser(u, "extra")
  BY <1>2 DEF GrantUser, ModulePhases
<1>3. CASE \E s \in Services : GrantService(s, "extra")
  BY <1>3 DEF GrantService, ModulePhases
<1>4. CASE Upload
  BY <1>4 DEF Upload, ModulePhases, Test, securityVars
<1>5. CASE Uninstall \/ Install \/ Reach \/ Submit \/ Check \/ Kill \/ Quiet
  BY <1>5 DEF Uninstall, Install, Reach, Submit, Check, Kill, Quiet, ModulePhases, Test, sessionVars,
              securityVars
<1>6. CASE Janitor
  BY <1>6 DEF Janitor, AfterModule, Enter, ModulePhases, Test, securityVars
<1>7. CASE RevokeExtra
  BY <1>7 DEF RevokeExtra, Enter, ModulePhases, Test
<1>8. CASE Unwind
  BY <1>8 DEF Unwind, Raised, AfterModule, Enter, ModulePhases, Setup, Test, securityVars
<1>9. CASE Die
  BY <1>9 DEF Die, sessionVars, securityVars
<1>10. QED
  BY <1>1, <1>2, <1>3, <1>4, <1>5, <1>6, <1>7, <1>8, <1>9, InsideModules

------------------------------------------------------------------------------
(* Repositories and keys. *)

LEMMA RepoStep ==
  ASSUME TypeOK, RepoInv, [Next]_vars
  PROVE  RepoInv'
<1>1. CASE Die
  <2>1. \A u \in Urls : repos[u] # 0 => Repos \in Present
    BY DEF Present, Things
  <2>2. QED
    BY <1>1, <2>1 DEF Die, RepoInv, ModulePhases, Test
<1>2. CASE pc \in ModulePhases /\ ~Die
  BY <1>2, ModuleKeeps DEF RepoInv, TypeOK, ModulePhases, Test
<1>3. CASE pc \notin ModulePhases /\ ~Die
  <2>1. CASE BeginSession \/ ResetAccount \/ DropAccount
    <3>1. repos' = repos /\ pc' \in {"reset", "create", "idle"} /\ pc \in {"idle", "reset", "drop"}
      BY <2>1 DEF BeginSession, ResetAccount, DropAccount, DropKeys
    <3>2. Repos \in excused => Repos \in excused'
      BY <2>1, <3>1, ExcusesKept DEF RemoveDuplicates, EndRemove, Uninstall, Janitor, Repos, Account, Secret
    <3>3. QED
      BY <3>1, <3>2 DEF RepoInv, ModulePhases, Test
  <2>2. CASE CreateAccount
    BY <2>2 DEF CreateAccount, RepoInv, ModulePhases, Test
  <2>3. CASE (\E u \in Users : GrantUser(u, "grants")) \/ (\E s \in Services : GrantService(s, "grants"))
    BY <2>3 DEF GrantUser, GrantService, RepoInv, ModulePhases, Test
  <2>4. CASE EndGrants
    BY <1>3, <2>4 DEF EndGrants, RepoInv, ModulePhases, Test
  <2>5. CASE RemoveDuplicates
    BY <2>5 DEF RemoveDuplicates, RepoInv, ModulePhases, Test
  <2>6. CASE EndRepos
    <3>1. pc' # "remove" /\ stubs' = Urls /\ pc' \in {"extra", "upload"}
      BY <2>6, ModuleFacts DEF EndRepos, Enter
    <3>2. QED
      BY <3>1 DEF RepoInv
  <2>7. ASSUME NEW u \in Urls, AddRepo(u) \/ RemoveRepo(u) PROVE RepoInv'
    BY <2>7 DEF AddRepo, RemoveRepo, RepoInv, TypeOK, ModulePhases, Test
  <2>8. CASE EndRemove
    BY <2>8 DEF EndRemove, RepoInv, ModulePhases, Test
  <2>9. CASE Revoke \/ Quiet
    BY <2>9 DEF Revoke, Quiet, RepoInv, ModulePhases, Test, sessionVars
  <2>10. CASE Unwind
    BY <1>3, <2>10 DEF Unwind, Raised, Excuse, RepoInv, ModulePhases, Setup, Test
  <2>11. QED
    BY <1>3, <2>1, <2>2, <2>3, <2>4, <2>5, <2>6, <2>7, <2>8, <2>9, <2>10, OutsideModules
<1>4. QED
  BY <1>1, <1>2, <1>3

LEMMA KeyStep ==
  ASSUME TypeOK, KeyInv, [Next]_vars
  PROVE  KeyInv'
<1>1. CASE Die
  <2>1. (account # 0 => Account \in Present) /\ (secret # 0 => Secret \in Present)
    BY DEF Present, Things
  <2>2. QED
    BY <1>1, <2>1 DEF Die, KeyInv, ModulePhases, Test, securityVars
<1>2. CASE pc \in ModulePhases /\ ~Die
  <2>1. \A x \in {Account, Secret} : x \in excused => x \in excused'
    BY <1>2, ExcusesKept DEF Account, Secret, Repos, ResetAccount, DropAccount, ModulePhases, Test
  <2>2. QED
    BY <1>2, <2>1, ModuleKeeps DEF KeyInv, ModulePhases, Test
<1>3. CASE pc \notin ModulePhases /\ ~Die
  <2>1. CASE ResetAccount \/ DropAccount
    <3>1. pc' \in {"create", "idle"} /\ DropKeys(pc')
      BY <2>1 DEF ResetAccount, DropAccount, DropKeys
    <3>2. PICK kept \in SUBSET {Account, Secret} :
            /\ account' = IF Account \in kept THEN account ELSE 0
            /\ secret' = IF Secret \in kept THEN secret ELSE 0
            /\ excused' = (excused \ {Account, Secret}) \union kept
      BY <3>1 DEF DropKeys
    <3>3. QED
      BY <3>1, <3>2 DEF KeyInv, ModulePhases, Test
  <2>2. CASE CreateAccount
    <3>1. pc = "create" /\ pc' = "grants" /\ session' = session
      BY <2>2 DEF CreateAccount
    <3>2. PICK failed \in SUBSET {Account, Secret} :
            /\ account' = IF Account \in failed \/ account # 0 THEN account ELSE session
            /\ secret' = IF Secret \in failed \/ secret # 0 THEN secret ELSE session
            /\ excused' = excused \union failed
      BY <2>2 DEF CreateAccount
    <3>3. QED
      BY <3>1, <3>2 DEF KeyInv, ModulePhases, Test
  <2>3. CASE (\E u \in Users : GrantUser(u, "grants")) \/ (\E s \in Services : GrantService(s, "grants"))
    BY <2>3 DEF GrantUser, GrantService, KeyInv, ModulePhases, Test
  <2>4. CASE EndGrants
    BY <1>3, <2>4 DEF EndGrants, KeyInv, ModulePhases, Test, securityVars
  <2>5. CASE RemoveDuplicates
    BY <2>5 DEF RemoveDuplicates, KeyInv, ModulePhases, Test, Account, Secret, Repos, securityVars
  <2>6. CASE EndRepos
    BY <2>6 DEF EndRepos, Enter, KeyInv, ModulePhases, Test, securityVars
  <2>7. ASSUME NEW u \in Urls, AddRepo(u) \/ RemoveRepo(u) PROVE KeyInv'
    BY <2>7 DEF AddRepo, RemoveRepo, KeyInv, ModulePhases, Test, securityVars
  <2>8. CASE EndRemove
    BY <2>8 DEF EndRemove, KeyInv, ModulePhases, Test
  <2>9. CASE BeginSession \/ Revoke \/ Quiet
    BY <2>9 DEF BeginSession, Revoke, Quiet, KeyInv, ModulePhases, Test, securityVars
  <2>10. CASE Unwind
    BY <1>3, <2>10 DEF Unwind, Raised, Excuse, KeyInv, ModulePhases, Setup, Test, securityVars
  <2>11. QED
    BY <1>3, <2>1, <2>2, <2>3, <2>4, <2>5, <2>6, <2>7, <2>8, <2>9, <2>10, OutsideModules
<1>4. QED
  BY <1>1, <1>2, <1>3

\* A session leaves no account, secret, stub repository or dispatcher that a
\* kill, a raise in the clean-up or an unnoticed failure does not account for.
THEOREM NothingIsLeft == Spec => []NothingLeft
<1>1. Init => TypeOK /\ PhaseInv /\ DispatcherInv /\ RepoInv /\ KeyInv
  BY InitTyped DEF Init, DispatcherInv, RepoInv, KeyInv, ModulePhases, Test
<1>2. TypeOK /\ PhaseInv /\ DispatcherInv /\ RepoInv /\ KeyInv /\ [Next]_vars
        => TypeOK' /\ PhaseInv' /\ DispatcherInv' /\ RepoInv' /\ KeyInv'
  BY TypeStep, DispatcherStep, RepoStep, KeyStep
<1>3. DispatcherInv /\ RepoInv /\ KeyInv => NothingLeft
  BY DEF DispatcherInv, RepoInv, KeyInv, NothingLeft
<1>4. QED
  BY <1>1, <1>2, <1>3, PTL DEF Spec

------------------------------------------------------------------------------
(* Permissions. *)

\* What the session has granted suffices for the next module, or the module
\* has grants of its own.
LEMMA EnterGranted ==
  ASSUME NEW i \in 1 .. Len(Modules) + 1, Enter(i),
         Granted \subseteq grants', Granted \intersect Users \subseteq marathon'
  PROVE  GrantInv'
<1>1. CASE i > Len(Modules)
  BY <1>1 DEF Enter, GrantInv, ModulePhases, Test
<1>2. CASE ~(i > Len(Modules)) /\ Modules[i].extra
  BY <1>2 DEF Enter, GrantInv, ModulePhases, Test, Service, User
<1>3. CASE ~(i > Len(Modules)) /\ ~Modules[i].extra
  <2>1. i \in 1 .. Len(Modules)
    BY <1>3, ModuleFacts
  <2>2. Modules[i].user \in Users /\ Modules[i].service \in Granted /\ Modules[i].user \in Granted
    BY <1>3, <2>1, ModuleFacts
  <2>3. at' = i /\ pc' = "upload"
    BY <1>3 DEF Enter
  <2>4. Service' = Modules[i].service /\ User' = Modules[i].user
    BY <2>3 DEF Service, User
  <2>5. QED
    BY <2>2, <2>3, <2>4 DEF GrantInv, ModulePhases, Test
<1>4. QED
  BY <1>1, <1>2, <1>3

LEMMA GrantStep ==
  ASSUME TypeOK, PhaseInv, GrantInv, [Next]_vars
  PROVE  GrantInv'
<1>1. CASE Die
  BY <1>1 DEF Die, GrantInv, ModulePhases, Test
<1>2. CASE pc \in ModulePhases /\ ~Die
  <2>1. at \in 1 .. Len(Modules) /\ at + 1 \in 1 .. Len(Modules) + 1
    BY <1>2, ModuleFacts DEF PhaseInv
  <2>2. Service \in Services /\ User \in Users
    BY <2>1, ModuleFacts DEF Service, User
  <2>3. Granted \subseteq grants /\ Granted \intersect Users \subseteq marathon
    BY <1>2 DEF GrantInv
  <2>4. Granted \subseteq grants' /\ Granted \intersect Users \subseteq marathon'
    BY <1>2, <2>3, ModuleKeeps
  <2>5. CASE EndGrants
    BY <1>2, <2>3, <2>5 DEF EndGrants, GrantInv, ModulePhases, Test, Service, User, sessionVars, securityVars
  <2>6. CASE \E u \in Users : GrantUser(u, "extra")
    BY <2>3, <2>6 DEF GrantUser, GrantInv, ModulePhases, Test, Service, User
  <2>7. CASE \E s \in Services : GrantService(s, "extra")
    <3>1. User \in left => User \in left'
      BY <2>2, <2>7, NamesAssumption DEF GrantService
    <3>2. QED
      BY <2>3, <2>7, <3>1 DEF GrantService, GrantInv, ModulePhases, Test, Service, User
  <2>8. CASE Upload
    BY <2>3, <2>8 DEF Upload, GrantInv, ModulePhases, Test, Service, User, securityVars
  <2>9. CASE Uninstall \/ Install \/ Reach
    BY <2>3, <2>9 DEF Uninstall, Install, Reach, GrantInv, ModulePhases, Test, Service, User, sessionVars,
                      securityVars
  <2>10. CASE Submit \/ Check \/ Kill
    BY <2>3, <2>10 DEF Submit, Check, Kill, GrantInv, ModulePhases, Test, Service, User, sessionVars,
                       securityVars
  <2>11. ASSUME AfterModule, pc \in {"clean", "teardown"} PROVE GrantInv'
    <3>1. CASE Modules[at].extra
      BY <2>4, <2>11, <3>1 DEF AfterModule, GrantInv, ModulePhases, Test
    <3>2. CASE ~Modules[at].extra
      BY <2>1, <2>4, <2>11, <3>2, EnterGranted DEF AfterModule
    <3>3. QED
      BY <3>1, <3>2
  <2>12. CASE Janitor
    <3>1. CASE pc = "janitor"
      BY <2>3, <2>12, <3>1 DEF Janitor, GrantInv, ModulePhases, Test, Service, User, securityVars
    <3>2. CASE pc # "janitor"
      BY <2>11, <2>12, <3>2 DEF Janitor
    <3>3. QED
      BY <3>1, <3>2
  <2>13. CASE RevokeExtra
    BY <2>1, <2>4, <2>13, EnterGranted DEF RevokeExtra
  <2>14. CASE Unwind
    <3>1. CASE pc = "teardown"
      BY <2>11, <2>14, <3>1 DEF Unwind, Raised, Setup, Test
    <3>2. CASE pc = "unextra"
      BY <2>1, <2>4, <2>14, <3>2, EnterGranted DEF Unwind, Raised, Setup, Test
    <3>3. CASE pc \notin {"teardown", "unextra"}
      BY <1>2, <2>3, <2>14, <3>3 DEF Unwind, Raised, GrantInv, ModulePhases, Setup, Test, Service, User,
                                    securityVars
    <3>4. QED
      BY <3>1, <3>2, <3>3
  <2>15. CASE Quiet
    BY <2>15 DEF Quiet, GrantInv, Service, User, sessionVars, securityVars
  <2>16. QED
    BY <1>2, <2>5, <2>6, <2>7, <2>8, <2>9, <2>10, <2>12, <2>13, <2>14, <2>15, InsideModules
<1>3. CASE pc \notin ModulePhases /\ ~Die
  <2>1. CASE BeginSession \/ ResetAccount \/ DropAccount \/ EndRemove \/ Revoke
    BY <2>1 DEF BeginSession, ResetAccount, DropAccount, DropKeys, EndRemove, Revoke, GrantInv,
                ModulePhases, Test
  <2>2. CASE CreateAccount
    BY <2>2 DEF CreateAccount, GrantInv, ModulePhases, Test
  <2>3. CASE \E u \in Users : GrantUser(u, "grants")
    BY <2>3 DEF GrantUser, GrantInv, ModulePhases, Test
  <2>4. ASSUME NEW s \in Services, GrantService(s, "grants") PROVE GrantInv'
    BY <2>4, NamesAssumption DEF GrantService, GrantInv, ModulePhases, Test
  <2>5. CASE EndGrants
    BY <1>3, <2>5 DEF EndGrants, GrantInv, ModulePhases, Test, securityVars
  <2>6. CASE RemoveDuplicates
    BY <2>6 DEF RemoveDuplicates, GrantInv, ModulePhases, Test, securityVars
  <2>7. CASE EndRepos
    BY <2>7, EnterGranted, ModuleFacts DEF EndRepos, GrantInv, securityVars
  <2>8. ASSUME NEW u \in Urls, AddRepo(u) \/ RemoveRepo(u) PROVE GrantInv'
    BY <2>8 DEF AddRepo, RemoveRepo, GrantInv, ModulePhases, Test, securityVars
  <2>9. CASE Unwind
    BY <1>3, <2>9 DEF Unwind, Raised, GrantInv, ModulePhases, Setup, Test
  <2>10. CASE Quiet
    BY <2>10 DEF Quiet, GrantInv, Service, User, sessionVars, securityVars
  <2>11. QED
    BY <1>3, <2>1, <2>2, <2>3, <2>4, <2>5, <2>6, <2>7, <2>8, <2>9, <2>10, OutsideModules
<1>4. QED
  BY <1>1, <1>2, <1>3

\* Every job is submitted with the key pair and the permissions it needs,
\* whatever the modules before it have granted and revoked and the sessions
\* before have left, unless a command on the keys failed unnoticed.
THEOREM JobsAreAuthorized == Spec => []JobsAuthorized
<1>1. Init => TypeOK /\ PhaseInv /\ KeyInv /\ GrantInv
  BY InitTyped DEF Init, KeyInv, GrantInv, ModulePhases, Test
<1>2. TypeOK /\ PhaseInv /\ KeyInv /\ GrantInv /\ [Next]_vars
        => TypeOK' /\ PhaseInv' /\ KeyInv' /\ GrantInv'
  BY TypeStep, KeyStep, GrantStep
<1>3. KeyInv /\ GrantInv => JobsAuthorized
  BY DEF KeyInv, GrantInv, JobsAuthorized, ModulePhases
<1>4. QED
  BY <1>1, <1>2, <1>3, PTL DEF Spec

------------------------------------------------------------------------------
(* A session without a fault. *)

LEMMA FaultsCounted ==
  ASSUME TypeOK, since <= faults, [Next]_vars
  PROVE  /\ since' <= faults'
         /\ Calm' => ~Fault /\ ~Die
         /\ Calm' => BeginSession \/ (Calm /\ since' = since /\ faults' = faults)
<1>1. \/ BeginSession
      \/ since' = since /\ (faults' = faults \/ Fault)
  <2>1. CASE \E d \in drivers : Finish(d)
    BY <2>1 DEF Finish
  <2>2. CASE \E phase \in {"grants", "extra"} :
               (\E u \in Users : GrantUser(u, phase)) \/ (\E t \in Services : GrantService(t, phase))
    BY <2>2 DEF GrantUser, GrantService
  <2>3. CASE ResetAccount \/ DropAccount
    BY <2>3 DEF ResetAccount, DropAccount, DropKeys
  <2>4. CASE CreateAccount \/ RemoveDuplicates
    BY <2>4 DEF CreateAccount, RemoveDuplicates
  <2>5. CASE EndGrants \/ EndRepos \/ EndRemove \/ (\E u \in Urls : AddRepo(u) \/ RemoveRepo(u))
    BY <2>5 DEF EndGrants, EndRepos, EndRemove, AddRepo, RemoveRepo
  <2>6. CASE Upload \/ Uninstall \/ Install \/ Reach \/ Check \/ RevokeExtra \/ Revoke
    BY <2>6 DEF Upload, Uninstall, Install, Reach, Check, RevokeExtra, Revoke
  <2>7. CASE Janitor \/ Submit \/ Kill
    BY <2>7 DEF Janitor, Submit, Kill
  <2>8. CASE Raise \/ Fail \/ Die
    BY <2>8 DEF Raise, Fail, Die, Unwind
  <2>9. CASE UNCHANGED vars
    BY <2>9 DEF vars
  <2>10. QED
    BY <2>1, <2>2, <2>3, <2>4, <2>5, <2>6, <2>7, <2>8, <2>9, Zenon DEF Next, SessionStep
<1>2. CASE BeginSession
  BY <1>2 DEF BeginSession, Calm, Fault, Die, TypeOK
<1>3. CASE since' = since /\ (faults' = faults \/ Fault)
  BY <1>3 DEF Calm, Fault, Die, TypeOK
<1>4. QED
  BY <1>1, <1>2, <1>3

LEMMA SinceStep ==
  ASSUME TypeOK, PhaseInv, SinceInv, [Next]_vars
  PROVE  SinceInv'
<1>1. since' <= faults'
  BY FaultsCounted DEF SinceInv
<1>2. session \in Nat /\ session' \in Nat /\ session <= session'
  <2>1. CASE BeginSession
    BY <2>1 DEF BeginSession, TypeOK
  <2>2. CASE ~BeginSession /\ pc \in ModulePhases
    BY <2>2, ModuleKeeps DEF TypeOK
  <2>3. CASE ~BeginSession /\ pc \notin ModulePhases
    <3>1. session' = session
      BY <2>3, OutsideModules DEF ResetAccount, CreateAccount, EndGrants, GrantUser, GrantService,
         RemoveDuplicates, EndRepos, EndRemove, AddRepo, RemoveRepo, Revoke, DropAccount, DropKeys,
         Unwind, Die, Quiet
    <3>2. QED
      BY <3>1 DEF TypeOK
  <2>4. QED
    BY <2>1, <2>2, <2>3
<1>3. ASSUME NEW d \in drivers' PROVE d[1] <= session'
  <2>1. CASE d \in drivers
    <3>1. d[1] \in Nat /\ d[1] <= session
      BY <2>1 DEF SinceInv, TypeOK, Driver
    <3>2. QED
      BY <1>2, <3>1
  <2>2. CASE d \notin drivers
    <3>1. Submit
      BY <2>2, ClusterKept
    <3>2. d = Current /\ session' = session
      BY <2>2, <3>1 DEF Submit
    <3>3. QED
      BY <1>2, <3>2 DEF Current
  <2>3. QED
    BY <2>1, <2>2
<1>4. ASSUME NEW s \in dispatcher' PROVE Ahead(1, s)
  <2>1. CASE s \in dispatcher
    BY <2>1 DEF SinceInv
  <2>2. CASE s \notin dispatcher
    <3>1. Install
      BY <2>2, ClusterKept DEF Uninstall
    <3>2. s = Modules[at].service /\ at \in 1 .. Len(Modules)
      BY <2>2, <3>1 DEF Install, Service, PhaseInv, ModulePhases, Test
    <3>3. QED
      BY <3>2 DEF Ahead
  <2>3. QED
    BY <2>1, <2>2
<1>5. ASSUME pc' = "repos" PROVE left' \subseteq Urls
  <2>1. CASE RemoveDuplicates
    BY <2>1 DEF RemoveDuplicates
  <2>2. CASE pc \notin ModulePhases /\ ~RemoveDuplicates
    BY <1>5, <2>2, OutsideModules DEF SinceInv, BeginSession, ResetAccount, CreateAccount, EndGrants,
       GrantUser, GrantService, EndRepos, Enter, EndRemove, AddRepo, RemoveRepo, Revoke, DropAccount,
       DropKeys, Unwind, Raised, AfterModule, Die, Quiet, sessionVars, ModulePhases, Setup, Test
  <2>3. CASE pc \in ModulePhases
    BY <1>5, <2>3, ModuleKeeps DEF Die, ModulePhases, Test
  <2>4. QED
    BY <2>1, <2>2, <2>3 DEF RemoveDuplicates, ModulePhases, Test
<1>6. QED
  BY <1>1, <1>3, <1>4, <1>5 DEF SinceInv

LEMMA NeverStuck ==
  ASSUME TypeOK, PhaseInv, SinceInv, CalmInv, Calm
  PROVE  ~Stuck
<1>1. pc \in {"grants", "extra"} => account # 0
  <2>1. pc # "idle" => session # 0
    BY BoundsAssumption DEF PhaseInv
  <2>2. pc \in {"grants", "extra"} => account = session /\ pc # "idle"
    BY DEF CalmInv, ModulePhases
  <2>3. QED
    BY <2>1, <2>2
<1>2. pc = "repos" => \A u \in left : repos[u] = 0
  BY DEF CalmInv
<1>3. QED
  BY <1>1, <1>2 DEF Stuck

\* The dispatchers left when the next module, or the end, is entered.
LEMMA EnterCalm ==
  ASSUME NEW i \in 1 .. Len(Modules) + 1, Enter(i), \A s \in dispatcher' : Ahead(i, s)
  PROVE  /\ at' = i /\ pc' \in {"remove", "extra", "upload"}
         /\ pc' # "remove" => \A s \in dispatcher' : Ahead(at', s)
         /\ pc' = "remove" => dispatcher' = {}
<1>1. Len(Modules) \in Nat
  BY ModuleFacts
<1>2. i > Len(Modules) => \A s : ~Ahead(i, s)
  BY <1>1 DEF Ahead
<1>3. QED
  BY <1>2 DEF Enter

\* No step of a module but its installation and its job adds anything.
LEMMA CalmModuleStep ==
  ASSUME TypeOK, PhaseInv, SinceInv, CalmInv, Calm, Calm', since' = since, faults' = faults,
         [Next]_vars, pc \in ModulePhases
  PROVE  CalmInv'
<1>1. ~Fault /\ ~Die /\ ~Stuck
  BY FaultsCounted, NeverStuck DEF SinceInv
<1>2. /\ session' = session /\ account' = account /\ secret' = secret /\ repos' = repos
      /\ pc' \in ModulePhases \union {"remove"}
  BY <1>1, ModuleKeeps
<1>3. account = session /\ secret = session
  BY DEF CalmInv
<1>4. at \in 1 .. Len(Modules) /\ at + 1 \in 1 .. Len(Modules) + 1
  BY ModuleFacts DEF PhaseInv
<1>5. Service \in Services
  BY <1>4, ModuleFacts DEF Service
<1> DEFINE Dispatchers ==
      /\ pc' \in ModulePhases \ {"clean", "unextra"} => \A s \in dispatcher' : Ahead(at', s)
      /\ pc' \in {"clean", "unextra"} => \A s \in dispatcher' : Ahead(at' + 1, s)
      /\ pc' = "remove" => dispatcher' = {}
      /\ pc' \in {"janitor", "install"} => Service' \notin dispatcher'
      /\ pc' = "install" => znode'[Service'] = "clean"
<1> DEFINE Drivers ==
      \A d \in drivers' : d[1] = session => pc' \in {"check", "kill"} /\ d = Current'
<1>6. Dispatchers /\ Drivers => CalmInv'
  BY <1>2, <1>3 DEF CalmInv, ModulePhases, Test
<1> HIDE DEF Dispatchers, Drivers
<1>7. SUFFICES Dispatchers /\ Drivers
  BY <1>6
<1>8. CASE EndGrants \/ (\E u \in Users : GrantUser(u, "extra")) \/ (\E s \in Services : GrantService(s, "extra"))
  <2>1. /\ pc = "extra" /\ pc' \in {"extra", "upload"} /\ at' = at
        /\ dispatcher' = dispatcher /\ drivers' = drivers
    BY <1>8 DEF EndGrants, GrantUser, GrantService, ModulePhases, Test, sessionVars, clusterVars
  <2>2. QED
    BY <2>1 DEF CalmInv, ModulePhases, Test, Dispatchers, Drivers
<1>9. CASE Upload \/ Reach
  BY <1>9 DEF Upload, Reach, CalmInv, ModulePhases, Test, sessionVars, clusterVars, Dispatchers, Drivers
<1>10. CASE Check
  BY <1>2, <1>10 DEF Check, CalmInv, ModulePhases, Test, Current, sessionVars, clusterVars, Dispatchers, Drivers
<1>11. CASE Uninstall
  <2>1. /\ at' = at /\ drivers' = drivers /\ dispatcher' = dispatcher \ {Service}
        /\ \A s \in dispatcher : Ahead(at, s)
        /\ \/ pc = "uninstall" /\ pc' = "janitor"
           \/ pc = "teardown" /\ pc' = "clean"
    BY <1>11 DEF Uninstall, CalmInv, ModulePhases, Test, sessionVars
  <2>2. \A s \in dispatcher' : Ahead(at + 1, s)
    <3>1. SUFFICES ASSUME NEW s \in dispatcher' PROVE Ahead(at + 1, s)
      OBVIOUS
    <3>2. PICK k \in at .. Len(Modules) : Modules[k].service = s
      BY <2>1 DEF Ahead
    <3>3. k # at
      BY <2>1, <3>2 DEF Service
    <3>4. k \in at + 1 .. Len(Modules)
      BY <1>4, <3>3, ModuleFacts
    <3>5. QED
      BY <3>2, <3>4 DEF Ahead
  <2>3. Service' = Service
    BY <2>1 DEF Service
  <2>4. QED
    BY <2>1, <2>2, <2>3 DEF CalmInv, ModulePhases, Test, Dispatchers, Drivers
<1>12. CASE Janitor /\ pc = "janitor"
  <2>1. /\ pc' = "install" /\ at' = at /\ drivers' = drivers /\ dispatcher' = dispatcher
        /\ znode'[Service] = "clean"
    BY <1>1, <1>5, <1>12 DEF Janitor, TypeOK
  <2>2. Service' = Service
    BY <2>1 DEF Service
  <2>3. QED
    BY <1>12, <2>1, <2>2 DEF CalmInv, ModulePhases, Test, Dispatchers, Drivers
<1>13. CASE Janitor /\ pc = "clean"
  <2>1. AfterModule /\ drivers' = drivers /\ dispatcher' = dispatcher
    BY <1>13 DEF Janitor
  <2>2. \A s \in dispatcher' : Ahead(at + 1, s)
    BY <1>13, <2>1 DEF CalmInv
  <2>3. \A d \in drivers' : d[1] # session
    BY <1>13, <2>1 DEF CalmInv
  <2>4. CASE Modules[at].extra
    BY <2>1, <2>2, <2>3, <2>4 DEF AfterModule, ModulePhases, Test, Dispatchers, Drivers
  <2>5. CASE ~Modules[at].extra
    <3>1. Enter(at + 1)
      BY <2>1, <2>5 DEF AfterModule
    <3>2. /\ pc' \in {"remove", "extra", "upload"}
          /\ pc' # "remove" => \A s \in dispatcher' : Ahead(at', s)
          /\ pc' = "remove" => dispatcher' = {}
      BY <1>4, <2>2, <3>1, EnterCalm
    <3>3. QED
      BY <2>3, <3>2 DEF Dispatchers, Drivers
  <2>6. QED
    BY <2>4, <2>5
<1>14. CASE Install
  <2>1. /\ pc = "install" /\ pc' = "reach" /\ at' = at /\ drivers' = drivers
        /\ dispatcher' = dispatcher \union {Service}
    BY <1>14 DEF Install, sessionVars
  <2>2. Ahead(at, Service)
    BY <1>4 DEF Ahead, Service
  <2>3. QED
    BY <2>1, <2>2 DEF CalmInv, ModulePhases, Test, Dispatchers, Drivers
<1>15. CASE Submit
  <2>1. /\ pc = "submit" /\ pc' = "check" /\ at' = at /\ drivers' = drivers \union {Current}
        /\ dispatcher' = dispatcher
    BY <1>1, <1>15 DEF Submit, sessionVars
  <2>2. Current' = Current
    BY <1>2, <2>1 DEF Current
  <2>3. QED
    BY <2>1, <2>2 DEF CalmInv, ModulePhases, Test, Dispatchers, Drivers
<1>16. CASE Kill
  <2>1. /\ pc = "kill" /\ pc' = "teardown" /\ at' = at /\ drivers' = drivers \ {Current}
        /\ dispatcher' = dispatcher
    BY <1>1, <1>16 DEF Kill, sessionVars
  <2>2. QED
    BY <2>1 DEF CalmInv, ModulePhases, Test, Dispatchers, Drivers
<1>17. CASE RevokeExtra
  <2>1. /\ pc = "unextra" /\ Enter(at + 1) /\ drivers' = drivers /\ dispatcher' = dispatcher
    BY <1>17 DEF RevokeExtra, clusterVars
  <2>2. \A s \in dispatcher' : Ahead(at + 1, s)
    BY <2>1 DEF CalmInv
  <2>3. /\ pc' \in {"remove", "extra", "upload"}
        /\ pc' # "remove" => \A s \in dispatcher' : Ahead(at', s)
        /\ pc' = "remove" => dispatcher' = {}
    BY <1>4, <2>1, <2>2, EnterCalm
  <2>4. \A d \in drivers' : d[1] # session
    BY <2>1 DEF CalmInv
  <2>5. QED
    BY <2>3, <2>4 DEF Dispatchers, Drivers
<1>18. CASE Quiet
  <2>1. pc' = pc /\ at' = at
    BY <1>18 DEF Quiet, sessionVars
  <2>2. Service' = Service /\ Current' = Current
    BY <1>2, <2>1 DEF Service, Current
  <2>3. CASE Janitor \/ Install \/ Uninstall \/ Submit
    BY <2>1, <2>3, <1>1, <1>12, <1>13, <1>14, <1>11, <1>15 DEF Janitor
  <2>4. CASE ~Janitor /\ ~Install /\ ~Uninstall /\ ~Submit
    <3>1. znode' = znode /\ dispatcher' = dispatcher /\ drivers' \subseteq drivers
      BY <2>4, ClusterKept
    <3>2. QED
      BY <2>1, <2>2, <3>1 DEF CalmInv, ModulePhases, Test, Dispatchers, Drivers
  <2>5. QED
    BY <2>3, <2>4
<1>19. Janitor => pc \in {"janitor", "clean"}
  BY DEF Janitor
<1>20. QED
  BY <1>1, <1>8, <1>9, <1>10, <1>11, <1>12, <1>13, <1>14, <1>15, <1>16, <1>17, <1>18, <1>19, InsideModules

\* The fixtures of the session make and remove what CalmInv says.
LEMMA CalmFixtureStep ==
  ASSUME TypeOK, PhaseInv, SinceInv, RepoInv, CalmInv, Calm, Calm', since' = since, faults' = faults,
         ~BeginSession, [Next]_vars, pc \notin ModulePhases
  PROVE  CalmInv'
<1>1. ~Fault /\ ~Die /\ ~Stuck
  BY FaultsCounted, NeverStuck DEF SinceInv
<1>2. \A d \in drivers : d[1] # session
  BY DEF CalmInv, ModulePhases
<1>3. CASE ResetAccount \/ DropAccount
  <2>1. /\ \/ pc = "reset" /\ pc' = "create"
           \/ pc = "drop" /\ pc' = "idle"
        /\ DropKeys(pc')
    BY <1>3 DEF ResetAccount, DropAccount, DropKeys
  <2>2. account' = 0 /\ secret' = 0
    BY <1>1, <2>1 DEF DropKeys
  <2>3. session' = session /\ repos' = repos /\ dispatcher' = dispatcher /\ drivers' = drivers
    BY <2>1 DEF DropKeys, clusterVars
  <2>4. QED
    BY <1>2, <2>1, <2>2, <2>3 DEF CalmInv, ModulePhases, Test
<1>4. CASE CreateAccount
  <2>1. pc = "create" /\ pc' = "grants" /\ account' = session /\ secret' = session
    BY <1>1, <1>4 DEF CreateAccount, CalmInv
  <2>2. session' = session /\ drivers' = drivers
    BY <1>4 DEF CreateAccount, clusterVars
  <2>3. QED
    BY <1>2, <2>1, <2>2 DEF CalmInv, ModulePhases, Test
<1>5. CASE (\E u \in Users : GrantUser(u, "grants")) \/ (\E s \in Services : GrantService(s, "grants"))
  BY <1>2, <1>5 DEF GrantUser, GrantService, CalmInv, ModulePhases, Test, clusterVars
<1>6. CASE EndGrants
  BY <1>2, <1>6 DEF EndGrants, CalmInv, ModulePhases, Test, securityVars, clusterVars
<1>7. CASE RemoveDuplicates
  <2>1. repos' = [u \in Urls |-> 0]
    BY <1>1, <1>7 DEF RemoveDuplicates
  <2>2. /\ pc = "duplicates" /\ pc' = "repos" /\ left' = Urls /\ session' = session
        /\ account' = account /\ secret' = secret /\ drivers' = drivers
    BY <1>7 DEF RemoveDuplicates, securityVars, clusterVars
  <2>3. QED
    BY <1>2, <2>1, <2>2 DEF CalmInv, ModulePhases, Test
<1>8. CASE EndRepos
  <2>1. /\ pc = "repos" /\ Enter(1) /\ session' = session /\ account' = account /\ secret' = secret
        /\ drivers' = drivers /\ dispatcher' = dispatcher
    BY <1>8 DEF EndRepos, securityVars, clusterVars
  <2>2. pc' \in {"extra", "upload"} /\ at' = 1
    BY <2>1, ModuleFacts DEF Enter
  <2>3. \A s \in dispatcher' : Ahead(at', s)
    BY <2>1, <2>2 DEF SinceInv
  <2>4. QED
    BY <1>2, <2>1, <2>2, <2>3 DEF CalmInv, ModulePhases, Test
<1>9. ASSUME NEW u \in Urls, AddRepo(u) PROVE CalmInv'
  <2>1. /\ pc = "repos" /\ pc' = pc /\ session' = session /\ account' = account /\ secret' = secret
        /\ drivers' = drivers /\ left' = left \ {u} /\ repos' = [repos EXCEPT ![u] = session]
    BY <1>9 DEF AddRepo, securityVars, clusterVars
  <2>2. \A w \in left' : repos'[w] = 0
    BY <2>1 DEF CalmInv, TypeOK, SinceInv
  <2>3. QED
    BY <1>2, <2>1, <2>2 DEF CalmInv, ModulePhases, Test
<1>10. ASSUME NEW u \in Urls, RemoveRepo(u) PROVE CalmInv'
  BY <1>2, <1>10 DEF RemoveRepo, CalmInv, ModulePhases, Test, clusterVars
<1>11. CASE EndRemove
  <2>1. pc = "remove" /\ \A u \in Urls : repos[u] = 0
    BY <1>11 DEF EndRemove, RepoInv
  <2>2. QED
    BY <1>2, <1>11, <2>1 DEF EndRemove, CalmInv, ModulePhases, Test, clusterVars
<1>12. CASE Revoke
  BY <1>2, <1>12 DEF Revoke, CalmInv, ModulePhases, Test, clusterVars
<1>13. CASE Quiet
  <2>1. CASE Janitor \/ Install \/ Uninstall \/ Submit
    BY <2>1 DEF Janitor, Install, Uninstall, Submit, ModulePhases, Test
  <2>2. CASE ~Janitor /\ ~Install /\ ~Uninstall /\ ~Submit
    <3>1. dispatcher' = dispatcher /\ drivers' \subseteq drivers
      BY <2>2, ClusterKept
    <3>2. QED
      BY <1>2, <1>13, <3>1 DEF Quiet, CalmInv, ModulePhases, Test, sessionVars, securityVars
  <2>3. QED
    BY <2>1, <2>2
<1>14. QED
  BY <1>1, <1>3, <1>4, <1>5, <1>6, <1>7, <1>8, <1>9, <1>10, <1>11, <1>12, <1>13, OutsideModules

LEMMA CalmStep ==
  ASSUME TypeOK, PhaseInv, SinceInv, RepoInv, CalmInv, [Next]_vars
  PROVE  CalmInv'
<1> SUFFICES ASSUME Calm' PROVE CalmInv'
  BY DEF CalmInv
<1>1. CASE BeginSession
  <2>1. pc' = "reset" /\ session' = session + 1 /\ drivers' = drivers /\ session \in Nat
    BY <1>1 DEF BeginSession, TypeOK, clusterVars
  <2>2. \A d \in drivers' : d[1] # session'
    <3>1. SUFFICES ASSUME NEW d \in drivers PROVE d[1] # session + 1
      BY <2>1
    <3>2. d[1] \in Nat /\ d[1] <= session
      BY DEF SinceInv, TypeOK, Driver
    <3>3. QED
      BY <2>1, <3>2
  <2>3. QED
    BY <2>1, <2>2 DEF CalmInv, ModulePhases, Test
<1>2. CASE ~BeginSession
  <2>1. Calm /\ since' = since /\ faults' = faults
    BY <1>2, FaultsCounted DEF SinceInv
  <2>2. QED
    BY <1>2, <2>1, CalmModuleStep, CalmFixtureStep
<1>3. QED
  BY <1>1, <1>2

\* A session in which nothing goes wrong is never stopped by what killed
\* sessions and unnoticed failures have left, and removes it with its own.
THEOREM LeftoversAreOvercome == Spec => []LeftoversOvercome
<1>1. Init => TypeOK /\ PhaseInv /\ RepoInv /\ SinceInv /\ CalmInv
  <2>1. Init => TypeOK /\ PhaseInv
    BY InitTyped
  <2>2. Init => RepoInv /\ SinceInv
    BY DEF Init, RepoInv, SinceInv, ModulePhases, Test
  <2>3. Init => CalmInv
    BY DEF Init, CalmInv, ModulePhases, Test
  <2>4. QED
    BY <2>1, <2>2, <2>3
<1>2. TypeOK /\ PhaseInv /\ RepoInv /\ SinceInv /\ CalmInv /\ [Next]_vars
        => TypeOK' /\ PhaseInv' /\ RepoInv' /\ SinceInv' /\ CalmInv'
  BY TypeStep, RepoStep, SinceStep, CalmStep
<1>3. TypeOK /\ PhaseInv /\ SinceInv /\ CalmInv => LeftoversOvercome
  <2>1. SUFFICES ASSUME TypeOK, PhaseInv, SinceInv, CalmInv, Calm PROVE LeftoversOvercome
    BY DEF LeftoversOvercome, Calm
  <2>2. ~Stuck
    BY <2>1, NeverStuck
  <2>3. QED
    BY <2>1, <2>2 DEF LeftoversOvercome, CalmInv, ModulePhases, Test
<1>4. QED
  BY <1>1, <1>2, <1>3, PTL DEF Spec
==============================================================================
