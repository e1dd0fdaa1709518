----------------------- MODULE PackagePublishingProofs -----------------------
(***************************************************************************)
(* Proofs about PackagePublishing for any number of runs, any workloads,   *)
(* artifacts, directories and ports.                                       *)
(***************************************************************************)
EXTENDS PackagePublishing, TLAPS

Building == {"new", "launch", "construct", "script", "file", "downgrades", "hashes", "wipe", "stub"}

\* Who is in a phase has the method for it.
MethodInv ==
  \A r \in Runs :
    /\ pc[r] \in {"launch", "script", "wipe", "list", "repos"} => Is(r, "http")
    /\ pc[r] = "bundle" => Is(r, "dcos")
    /\ pc[r] \in {"stub", "spam"} => ~Is(r, "dcos")
    /\ r \in announced => pc[r] \in {"list", "repos", "done", "failed"} /\ ~Is(r, "dcos")

\* A server is started with a port.
PortInv ==
  /\ \A r \in Runs : Is(r, "http") /\ pc[r] \notin {"new", "launch", "failed"} => port[r] \in Ports
  /\ script # NoRun => port[script] \in Ports

Agrees(r, a, build) == stub[r].hash[a] \in {0, build} \/ a \in dirty[r]

\* Hashes are of artifacts that were given, as they are in the build tree.
HashInv ==
  \A r \in Runs : \A a \in Artifacts :
    /\ stub[r].hash[a] # 0 => a \in Provided(r) /\ pc[r] # "new"
    /\ Active(r) => Agrees(r, a, local[a])

\* The artifacts whose turn has passed.
Before(r) == {cfg[r].provided[i] : i \in {j \in DOMAIN cfg[r].provided : j < next[r]}}

Held(r, a) == copies[r][a] # 0 /\ Agrees(r, a, copies[r][a])

\* The scratch directory of a bundle fills up in the order of the artifacts.
CopyInv ==
  /\ \A r \in Runs :
       /\ pc[r] \in Building => next[r] = 1
       /\ pc[r] = "artifacts" /\ Is(r, "dcos") =>
            \A a \in Before(r) : Held(r, a)
       /\ pc[r] = "bundle" => \A a \in Provided(r) : Held(r, a)
  /\ \A d \in Dirs, q \in Runs : bundleAt[d] = q =>
       pc[q] = "done" /\ \A a \in Provided(q) : Held(q, a)

\* Both questions to the Universe are answered out of the cache.
AnswerInv ==
  \A r \in Runs : stub[r].up # Unanswered =>
    /\ pc[r] = "downgrades" /\ Reading(r, "package") =>
         stub[r].up = IF Dry(r) THEN DryRunVersion ELSE cache[r]
    /\ pc[r] # "failed" /\ ~(pc[r] = "downgrades" /\ Reading(r, "package")) => stub[r].down = stub[r].up

\* Nobody else works in the place of an undisturbed run.
AloneInv ==
  \A r, q \in Runs :
    Undisturbed(r) /\ pc[r] # "new" /\ Active(q) /\ Place(q) = Place(r) => q = r

At(r, a) == fileAt[Place(r)][a] # 0 /\ Agrees(r, a, fileAt[Place(r)][a])

\* The artifacts follow their stub universe.
UrlInv ==
  \A r \in Runs : Undisturbed(r) /\ ~Dry(r) /\ ~Is(r, "dcos") =>
    /\ pc[r] = "artifacts" =>
         stubAt[Place(r)] = r /\ \A a \in Before(r) : At(r, a)
    /\ pc[r] = "spam" \/ r \in announced => stubAt[Place(r)] = r /\ \A a \in Provided(r) : At(r, a)

\* What the cluster could refuse the repository for is about to be removed.
ListInv ==
  \A r \in Runs : Undisturbed(r) =>
    /\ pc[r] = "repos" => \A e \in Rivals(r) : e.name \in doomed[r]
    /\ pc[r] = "done" /\ Is(r, "http") /\ cfg[r].cli => Rivals(r) = {Entry(r)}

\* The interpreter finds the run's script, or none.
ServerInv ==
  \A r \in Runs : Undisturbed(r) /\ Is(r, "http")
      /\ pc[r] \in Phases \ {"new", "launch", "construct", "script", "failed"} =>
    /\ script \in {r, NoRun}
    /\ child[r] \in {"starting", "up", "dead", "lost"}
    /\ child[r] \in {"up", "dead"} => port[r] \in servers \union taken

------------------------------------------------------------------------------
(* Types. *)

LEMMA ConfigFacts ==
  ASSUME TypeOK, NEW r \in Runs
  PROVE  /\ Provided(r) \subseteq Artifacts
         /\ DOMAIN cfg[r].provided = 1 .. Len(cfg[r].provided) /\ Len(cfg[r].provided) \in Nat
         /\ \A i \in DOMAIN cfg[r].provided : cfg[r].provided[i] \in Provided(r)
         /\ cfg[r].dir \in Dirs /\ Place(r) \in Places
         /\ cfg[r].method \in {"aws", "http", "dcos"}
         /\ cfg[r].port \in Ports \union {0}
<1>1. cfg[r] \in Config
  BY DEF TypeOK
<1>2. cfg[r].provided \in Seq(Artifacts) /\ cfg[r].dir \in Dirs
      /\ cfg[r].method \in {"aws", "http", "dcos"} /\ cfg[r].port \in Ports \union {0}
  BY <1>1 DEF Config
<1>3. DOMAIN cfg[r].provided = 1 .. Len(cfg[r].provided) /\ Len(cfg[r].provided) \in Nat
      /\ \A i \in DOMAIN cfg[r].provided : cfg[r].provided[i] \in Artifacts
  BY <1>2
<1>4. QED
  BY <1>2, <1>3 DEF Provided, Place, Places

LEMMA AnswerFacts ==
  ASSUME TypeOK, NEW r \in Runs, NEW answer \in Latest(r)
  PROVE  answer \in Answers
<1>1. Unanswered \in Answers /\ DryRunVersion \in Answers /\ 0 .. MaxRelease \subseteq Answers
  BY BoundAssumption DEF Unanswered, DryRunVersion, Answers
<1>2. cache[r] \in Answers /\ site \in 0 .. MaxRelease
  BY DEF TypeOK
<1>3. QED
  BY <1>1, <1>2 DEF Latest

LEMMA Zeroes == NoStub \in [up : Answers, down : Answers, hash : [Artifacts -> 0 .. MaxBuild]]
                  /\ NoStub.hash \in [Artifacts -> 0 .. MaxBuild] /\ NoStub.up = Unanswered
                  /\ \A a \in Artifacts : NoStub.hash[a] = 0
<1>1. Unanswered \in Answers /\ 0 \in 0 .. MaxBuild
  BY BoundAssumption DEF Unanswered, Answers, DryRunVersion
<1>2. QED
  BY <1>1 DEF NoStub

LEMMA InitTyped ==
  ASSUME Init
  PROVE  TypeOK
<1>1. PICK w \in Workloads : cfg = w.cfg /\ repos = w.repos
  BY DEF Init
<1>2. cfg \in [Runs -> Config] /\ repos \subseteq Repository
  BY <1>1, InputAssumption
<1>3. Unanswered \in Answers /\ 0 \in 0 .. MaxRelease /\ 1 \in 1 .. MaxBuild /\ 1 \in Nat \ {0}
  BY BoundAssumption DEF Unanswered, Answers, DryRunVersion
<1>4. cache \in [Runs -> Answers] /\ local \in [Artifacts -> 1 .. MaxBuild] /\ site \in 0 .. MaxRelease
      /\ at \in [Runs -> Nat \ {0}] /\ next \in [Runs -> Nat \ {0}]
  BY <1>3 DEF Init
<1>5. stub \in [Runs -> [up : Answers, down : Answers, hash : [Artifacts -> 0 .. MaxBuild]]]
      /\ copies \in [Runs -> [Artifacts -> 0 .. MaxBuild]]
      /\ fileAt \in [Places -> [Artifacts -> 0 .. MaxBuild]]
  BY Zeroes DEF Init
<1>6. QED
  BY <1>2, <1>4, <1>5 DEF Init, TypeOK, Phases

\* Leaving one phase for another.
LEMMA GotoTyped ==
  ASSUME TypeOK, NEW r \in Runs, NEW from, NEW to \in Phases, Goto(r, from, to)
  PROVE  pc' \in [Runs -> Phases]
BY DEF Goto, TypeOK

StubType == [up : Answers, down : Answers, hash : [Artifacts -> 0 .. MaxBuild]]

LEMMA StubChanges ==
  ASSUME TypeOK, NEW r \in Runs
  PROVE  /\ \A x \in Answers : [stub EXCEPT ![r].up = x] \in [Runs -> StubType]
         /\ \A x \in Answers : [stub EXCEPT ![r].down = x] \in [Runs -> StubType]
         /\ \A h \in [Artifacts -> 0 .. MaxBuild] : [stub EXCEPT ![r].hash = h] \in [Runs -> StubType]
<1>1. stub \in [Runs -> StubType]
  BY DEF TypeOK, StubType
<1>2. stub[r] \in StubType
  BY <1>1
<1>3. \A x \in Answers : [stub[r] EXCEPT !.up = x] \in StubType /\ [stub[r] EXCEPT !.down = x] \in StubType
  BY <1>2 DEF StubType
<1>4. \A h \in [Artifacts -> 0 .. MaxBuild] : [stub[r] EXCEPT !.hash = h] \in StubType
  BY <1>2 DEF StubType
<1>5. QED
  BY <1>1, <1>3, <1>4

LEMMA Nested ==
  ASSUME NEW S, NEW T, NEW V, NEW f \in [S -> [T -> V]], NEW s \in S, NEW t \in T, NEW v \in V
  PROVE  [f EXCEPT ![s][t] = v] \in [S -> [T -> V]]
OBVIOUS

\* The artifact whose turn it is.
LEMMA TurnFacts ==
  ASSUME TypeOK, NEW r \in Runs, next[r] <= Len(cfg[r].provided)
  PROVE  /\ next[r] \in DOMAIN cfg[r].provided
         /\ cfg[r].provided[next[r]] \in Artifacts
         /\ local[cfg[r].provided[next[r]]] \in 1 .. MaxBuild
<1>1. next[r] \in Nat \ {0} /\ Len(cfg[r].provided) \in Nat
  BY ConfigFacts DEF TypeOK
<1>2. next[r] \in 1 .. Len(cfg[r].provided)
  BY <1>1
<1>3. cfg[r].provided[next[r]] \in Artifacts
  BY <1>2, ConfigFacts
<1>4. QED
  BY <1>2, <1>3, ConfigFacts DEF TypeOK

LEMMA RunTyped ==
  ASSUME TypeOK, PortInv, NEW r \in Runs, Start(r) \/ RunStep(r) \/ Bind(r) \/ Fail(r)
  PROVE  TypeOK'
<1> USE ConfigFacts, Zeroes
<1>1. CASE Start(r)
  <2>1. pc' \in [Runs -> Phases]
    BY <1>1, GotoTyped DEF Start, Phases
  <2>2. latest' \in [Places -> Runs \union {NoRun}]
    BY <1>1 DEF Start, TypeOK
  <2>3. crowded' \subseteq Runs
    BY <1>1 DEF Start, TypeOK
  <2>4. QED
    BY <1>1, <2>1, <2>2, <2>3 DEF Start, TypeOK, buildVars, hostVars, storeVars, listVars, worldVars
<1>2. CASE Construct(r)
  <2>1. pc' \in [Runs -> Phases]
    BY <1>2, GotoTyped DEF Construct, Phases
  <2>2. QED
    BY <1>2, <2>1 DEF Construct, TypeOK, buildVars, hostVars, storeVars, listVars, worldVars, histVars
<1>3. CASE LookUpUpgrades(r) \/ LookUpDowngrades(r)
  <2>1. pc' \in [Runs -> Phases]
    BY <1>3, GotoTyped DEF LookUpUpgrades, LookUpDowngrades, Phases
  <2>2. PICK answer \in Latest(r) :
          /\ cache' = [cache EXCEPT ![r] = IF Dry(r) THEN @ ELSE answer]
          /\ \/ stub' = [stub EXCEPT ![r].up = answer]
             \/ stub' = [stub EXCEPT ![r].down = answer]
             \/ stub' = stub
    BY <1>3 DEF LookUpUpgrades, LookUpDowngrades, Remember
  <2>3. answer \in Answers
    BY AnswerFacts
  <2>4. cache' \in [Runs -> Answers]
    BY <2>2, <2>3 DEF TypeOK
  <2>5. stub' \in [Runs -> StubType]
    <3>1. stub \in [Runs -> StubType]
      BY DEF TypeOK, StubType
    <3>2. QED
      BY <2>2, <2>3, <3>1, StubChanges
  <2>6. QED
    BY <1>3, <2>1, <2>4, <2>5
       DEF StubType, LookUpUpgrades, LookUpDowngrades, TypeOK, hostVars, storeVars, listVars, worldVars, histVars
<1>4. CASE Template(r)
  <2>1. pc' \in [Runs -> Phases]
    BY <1>4, GotoTyped DEF Template, Phases
  <2>2. at' \in [Runs -> Nat \ {0}]
    BY <1>4 DEF Template, TypeOK
  <2>3. [a \in Artifacts |-> IF a \in LocalRefs(r) THEN local[a] ELSE 0] \in [Artifacts -> 0 .. MaxBuild]
    BY BoundAssumption DEF TypeOK
  <2>4. stub' \in [Runs -> StubType]
    <3>1. stub \in [Runs -> StubType]
      BY DEF TypeOK, StubType
    <3>2. QED
      BY <1>4, <2>3, <3>1, StubChanges DEF Template
  <2>5. QED
    BY <1>4, <2>1, <2>2, <2>4 DEF StubType, Template, TypeOK, hostVars, storeVars, listVars, worldVars, histVars
<1>5. CASE Assemble(r)
  <2>1. [aws |-> "stub", http |-> "wipe", dcos |-> "artifacts"][cfg[r].method] \in Phases
    BY DEF Phases
  <2>2. pc' \in [Runs -> Phases]
    BY <1>5, <2>1, GotoTyped DEF Assemble
  <2>3. cache' \in [Runs -> Answers]
    BY <1>5 DEF Assemble, TypeOK, Answers, Unanswered, NoStub
  <2>4. QED
    BY <1>5, <2>2, <2>3 DEF Assemble, TypeOK, hostVars, storeVars, listVars, worldVars, histVars
<1>6. CASE PutStub(r)
  <2>1. pc' \in [Runs -> Phases]
    BY <1>6, GotoTyped DEF PutStub, Phases
  <2>2. stubAt' \in [Places -> Runs \union {NoRun}]
    BY <1>6 DEF PutStub, TypeOK
  <2>3. QED
    BY <1>6, <2>1, <2>2 DEF PutStub, TypeOK, buildVars, hostVars, listVars, worldVars, histVars
<1>7. CASE PutArtifact(r)
  <2>1. next' \in [Runs -> Nat \ {0}]
    BY <1>7 DEF PutArtifact, TypeOK
  <2> DEFINE a == cfg[r].provided[next[r]]
  <2>2. a \in Artifacts /\ local[a] \in 0 .. MaxBuild
    BY <1>7, TurnFacts, BoundAssumption DEF PutArtifact
  <2>3. /\ copies' \in {copies, [copies EXCEPT ![r][a] = local[a]]}
        /\ fileAt' \in {fileAt, [fileAt EXCEPT ![Place(r)][a] = local[a]]}
    BY <1>7 DEF PutArtifact
  <2>4. copies' \in [Runs -> [Artifacts -> 0 .. MaxBuild]]
    <3>1. copies \in [Runs -> [Artifacts -> 0 .. MaxBuild]]
      BY DEF TypeOK
    <3>2. [copies EXCEPT ![r][a] = local[a]] \in [Runs -> [Artifacts -> 0 .. MaxBuild]]
      BY <2>2, <3>1, Nested
    <3>3. QED
      BY <2>3, <3>1, <3>2
  <2>5. fileAt' \in [Places -> [Artifacts -> 0 .. MaxBuild]]
    <3>1. fileAt \in [Places -> [Artifacts -> 0 .. MaxBuild]] /\ Place(r) \in Places
      BY DEF TypeOK
    <3>2. [fileAt EXCEPT ![Place(r)][a] = local[a]] \in [Places -> [Artifacts -> 0 .. MaxBuild]]
      BY <2>2, <3>1, Nested
    <3>3. QED
      BY <2>3, <3>1, <3>2
  <2>6. QED
    BY <1>7, <2>1, <2>4, <2>5 DEF PutArtifact, TypeOK, buildVars, hostVars, listVars, worldVars, histVars
<1>8. CASE EndArtifacts(r)
  <2>1. pc' \in [Runs -> Phases]
    BY <1>8, GotoTyped DEF EndArtifacts, Phases
  <2>2. QED
    BY <1>8, <2>1 DEF EndArtifacts, TypeOK, buildVars, hostVars, storeVars, listVars, worldVars, histVars
<1>9. CASE UploadBundle(r)
  <2>1. pc' \in [Runs -> Phases]
    BY <1>9, GotoTyped DEF UploadBundle, Phases
  <2>2. bundleAt' \in [Dirs -> Runs \union {NoRun}]
    BY <1>9 DEF UploadBundle, TypeOK
  <2>3. QED
    BY <1>9, <2>1, <2>2 DEF UploadBundle, TypeOK, buildVars, hostVars, listVars, worldVars, histVars
<1>10. CASE Spam(r)
  <2>1. pc' \in [Runs -> Phases]
    BY <1>10, GotoTyped DEF Spam, Phases
  <2>2. QED
    BY <1>10, <2>1 DEF Spam, TypeOK, buildVars, hostVars, storeVars, listVars, worldVars, histVars
<1>11. CASE Launch(r)
  <2>1. pc' \in [Runs -> Phases]
    BY <1>11, GotoTyped DEF Launch, Phases
  <2>2. servers' \subseteq Ports /\ child' \in [Runs -> {"none", "starting", "up", "dead", "lost"}]
    BY <1>11 DEF Launch, TypeOK
  <2>3. port' \in [Runs -> Ports \union {0}]
    BY <1>11 DEF Launch, TypeOK
  <2>4. QED
    BY <1>11, <2>1, <2>2, <2>3 DEF Launch, TypeOK, buildVars, storeVars, listVars, worldVars, histVars
<1>12. CASE WriteScript(r)
  <2>1. pc' \in [Runs -> Phases]
    BY <1>12, GotoTyped DEF WriteScript, Phases
  <2>2. child' \in [Runs -> {"none", "starting", "up", "dead", "lost"}]
    BY <1>12 DEF WriteScript, TypeOK
  <2>3. QED
    BY <1>12, <2>1, <2>2 DEF WriteScript, TypeOK, buildVars, storeVars, listVars, worldVars, histVars
<1>13. CASE Wipe(r)
  <2>1. pc' \in [Runs -> Phases]
    BY <1>13, GotoTyped DEF Wipe, Phases
  <2>2. stubAt' \in [Places -> Runs \union {NoRun}] /\ fileAt' \in [Places -> [Artifacts -> 0 .. MaxBuild]]
    BY <1>13 DEF Wipe, TypeOK
  <2>3. QED
    BY <1>13, <2>1, <2>2 DEF Wipe, TypeOK, buildVars, listVars, worldVars, histVars
<1>14. CASE ListRepos(r)
  <2>1. pc' \in [Runs -> Phases]
    BY <1>14, GotoTyped DEF ListRepos, Phases
  <2>2. {e.name : e \in Duplicates(r)} \subseteq {"universe", "local", "other"}
    BY DEF Duplicates, TypeOK, Repository
  <2>3. doomed' \in [Runs -> SUBSET {"universe", "local", "other"}]
    BY <1>14, <2>2 DEF ListRepos, TypeOK
  <2>4. QED
    BY <1>14, <2>1, <2>3 DEF ListRepos, TypeOK, buildVars, hostVars, storeVars, worldVars, histVars
<1>15. CASE AddRepo(r)
  <2>1. pc' \in [Runs -> Phases]
    BY <1>15, GotoTyped DEF AddRepo, Phases
  <2>2. Entry(r) \in Repository
    BY DEF Entry, Repository, TypeOK
  <2>3. QED
    BY <1>15, <2>1, <2>2 DEF AddRepo, TypeOK, buildVars, hostVars, storeVars, worldVars, histVars
<1>16. ASSUME NEW n \in {"universe", "local", "other"}, RemoveRepo(r, n) PROVE TypeOK'
  <2>1. doomed' \in [Runs -> SUBSET {"universe", "local", "other"}]
    BY <1>16 DEF RemoveRepo, TypeOK
  <2>2. QED
    BY <1>16, <2>1 DEF RemoveRepo, TypeOK, buildVars, hostVars, storeVars, worldVars, histVars
<1>17. CASE Raise(r) \/ Fail(r)
  <2>1. Stop(r)
    BY <1>17 DEF Raise, Fail
  <2>2. pc' \in [Runs -> Phases] /\ at' \in [Runs -> Nat \ {0}] /\ next' \in [Runs -> Nat \ {0}]
    BY <2>1 DEF Stop, TypeOK, Phases
  <2>3. cache' \in [Runs -> Answers]
    BY <2>1 DEF Stop, TypeOK, Answers, Unanswered, NoStub
  <2>4. stub' \in [Runs -> [up : Answers, down : Answers, hash : [Artifacts -> 0 .. MaxBuild]]]
    BY <2>1 DEF Stop, TypeOK
  <2>5. copies' \in [Runs -> [Artifacts -> 0 .. MaxBuild]]
    BY <2>1 DEF Stop, TypeOK
  <2>6. doomed' \in [Runs -> SUBSET {"universe", "local", "other"}]
    BY <2>1 DEF Stop, TypeOK
  <2>7. QED
    BY <2>1, <2>2, <2>3, <2>4, <2>5, <2>6 DEF Stop, TypeOK, hostVars, storeVars, worldVars, histVars
<1>18. CASE Bind(r)
  <2>1. child' \in [Runs -> {"none", "starting", "up", "dead", "lost"}]
    <3>1. child \in [Runs -> {"none", "starting", "up", "dead", "lost"}]
      BY DEF TypeOK
    <3>2. \E x \in {"up", "dead", "lost"} : child' = [child EXCEPT ![r] = x]
      BY <1>18 DEF Bind
    <3>3. QED
      BY <3>1, <3>2
  <2>2. servers' \subseteq Ports
    <3>1. \/ servers' = servers
          \/ script # NoRun /\ servers' = servers \union {port[script]}
      BY <1>18 DEF Bind
    <3>2. QED
      BY <3>1 DEF TypeOK, PortInv
  <2>3. QED
    BY <1>18, <2>1, <2>2 DEF Bind, TypeOK, buildVars, storeVars, listVars, worldVars, histVars
<1>19. QED
  BY <1>1, <1>2, <1>3, <1>4, <1>5, <1>6, <1>7, <1>8, <1>9, <1>10, <1>11, <1>12, <1>13, <1>14, <1>15,
     <1>16, <1>17, <1>18, Zenon DEF RunStep

LEMMA TypeStep ==
  ASSUME TypeOK, PortInv, [Next]_vars
  PROVE  TypeOK'
<1>1. ASSUME NEW a \in Volatile, Rebuild(a) PROVE TypeOK'
  <2>1. a \in Artifacts
    BY BuildAssumption
  <2>2. local' \in [Artifacts -> 1 .. MaxBuild]
    <3>1. local[a] \in 1 .. MaxBuild /\ local[a] < MaxBuild /\ MaxBuild \in Nat
      BY <1>1, <2>1, BoundAssumption DEF Rebuild, TypeOK
    <3>2. local[a] + 1 \in 1 .. MaxBuild
      BY <3>1
    <3>3. QED
      BY <1>1, <2>1, <3>2 DEF Rebuild, TypeOK
  <2>3. dirty' \in [Runs -> SUBSET Artifacts]
    BY <1>1, <2>1 DEF Rebuild, TypeOK
  <2>4. QED
    BY <1>1, <2>2, <2>3 DEF Rebuild, TypeOK, buildVars, hostVars, storeVars, listVars
<1>2. CASE Release
  <2>1. site' \in 0 .. MaxRelease
    BY <1>2, BoundAssumption DEF Release, TypeOK
  <2>2. QED
    BY <1>2, <2>1 DEF Release, TypeOK, buildVars, hostVars, storeVars, listVars, histVars
<1>3. ASSUME NEW p \in Ports, TakePort(p) PROVE TypeOK'
  BY <1>3 DEF TakePort, TypeOK, buildVars, hostVars, storeVars, listVars, histVars
<1>4. CASE UNCHANGED vars
  BY <1>4 DEF vars, TypeOK, buildVars, hostVars, storeVars, listVars, worldVars, histVars
<1>5. QED
  BY <1>1, <1>2, <1>3, <1>4, RunTyped, Zenon DEF Next

------------------------------------------------------------------------------
(* What a step leaves alone. *)

Acts(r) == Start(r) \/ RunStep(r) \/ Bind(r) \/ Fail(r)

World == (\E a \in Volatile : Rebuild(a)) \/ Release \/ (\E p \in Ports : TakePort(p)) \/ UNCHANGED vars

LEMMA Steps ==
  ASSUME [Next]_vars
  PROVE  (\E r \in Runs : Acts(r)) \/ World
BY Zenon DEF Next, Acts, World

\* Only its own steps change a run; the web servers are the exception, which
\* another run may kill.
LEMMA OthersKept ==
  ASSUME TypeOK, NEW s \in Runs, Acts(s), NEW r \in Runs, r # s
  PROVE  /\ pc'[r] = pc[r] /\ at'[r] = at[r] /\ cache'[r] = cache[r] /\ stub'[r] = stub[r]
         /\ copies'[r] = copies[r] /\ next'[r] = next[r] /\ port'[r] = port[r] /\ doomed'[r] = doomed[r]
         /\ r \in announced' <=> r \in announced
<1>1. CASE Start(s)
  BY <1>1 DEF Start, Goto, TypeOK, buildVars, hostVars, listVars
<1>2. CASE Construct(s) \/ EndArtifacts(s)
  BY <1>2 DEF Construct, EndArtifacts, Goto, TypeOK, buildVars, hostVars, listVars
<1>3. CASE LookUpUpgrades(s) \/ LookUpDowngrades(s)
  BY <1>3 DEF LookUpUpgrades, LookUpDowngrades, Remember, Goto, TypeOK, hostVars, listVars
<1>4. CASE Template(s) \/ Assemble(s)
  BY <1>4 DEF Template, Assemble, Goto, TypeOK, hostVars, listVars
<1>5. CASE PutStub(s) \/ UploadBundle(s) \/ Spam(s)
  BY <1>5 DEF PutStub, UploadBundle, Spam, Goto, TypeOK, buildVars, hostVars, listVars
<1>6. CASE PutArtifact(s)
  BY <1>6 DEF PutArtifact, TypeOK, buildVars, hostVars, listVars
<1>7. CASE Launch(s) \/ WriteScript(s) \/ Wipe(s)
  BY <1>7 DEF Launch, WriteScript, Wipe, Goto, TypeOK, buildVars, listVars
<1>8. CASE ListRepos(s) \/ AddRepo(s)
  BY <1>8 DEF ListRepos, AddRepo, Goto, TypeOK, buildVars, hostVars
<1>9. ASSUME NEW n \in {"universe", "local", "other"}, RemoveRepo(s, n)
      PROVE  doomed'[r] = doomed[r]
  BY <1>9 DEF RemoveRepo, TypeOK
<1>10. CASE \E n \in {"universe", "local", "other"} : RemoveRepo(s, n)
  BY <1>9, <1>10 DEF RemoveRepo, buildVars, hostVars
<1>11. CASE Raise(s) \/ Fail(s)
  BY <1>11 DEF Raise, Fail, Stop, TypeOK, hostVars
<1>12. CASE Bind(s)
  BY <1>12 DEF Bind, TypeOK, buildVars, listVars
<1>13. QED
  BY <1>1, <1>2, <1>3, <1>4, <1>5, <1>6, <1>7, <1>8, <1>10, <1>11, <1>12, Zenon DEF Acts, RunStep

\* A run changes nothing of the inputs, the build tree and the history but
\* when it starts, and no place but its own.
LEMMA PlacesKept ==
  ASSUME TypeOK, MethodInv, NEW s \in Runs, Acts(s)
  PROVE  /\ cfg' = cfg /\ local' = local /\ dirty' = dirty /\ taken' = taken /\ site' = site
         /\ ~Start(s) => latest' = latest /\ crowded' = crowded
         /\ UploadBundle(s) \/ bundleAt' = bundleAt
         /\ \A p \in Places \ {Place(s)} : stubAt'[p] = stubAt[p] /\ fileAt'[p] = fileAt[p]
         /\ ~Is(s, "http") => script' = script /\ repos' = repos
         /\ ~Bind(s) => (Active(s) \/ Start(s))
<1>1. CASE Start(s) \/ Construct(s) \/ EndArtifacts(s) \/ Spam(s)
  BY <1>1 DEF Start, Construct, EndArtifacts, Spam, Active, Goto, hostVars, storeVars, listVars, worldVars, histVars
<1>2. CASE LookUpUpgrades(s) \/ LookUpDowngrades(s) \/ Template(s) \/ Assemble(s)
  BY <1>2 DEF LookUpUpgrades, LookUpDowngrades, Template, Assemble, Active, Goto, hostVars, storeVars,
              listVars, worldVars, histVars
<1>3. CASE PutStub(s) \/ UploadBundle(s)
  BY <1>3 DEF PutStub, UploadBundle, Active, Goto, TypeOK, hostVars, listVars, worldVars, histVars
<1>4. CASE PutArtifact(s)
  <2>1. /\ stubAt' = stubAt
        /\ fileAt' \in {fileAt, [fileAt EXCEPT ![Place(s)][cfg[s].provided[next[s]]] = local[cfg[s].provided[next[s]]]]}
    BY <1>4 DEF PutArtifact
  <2>2. \A p \in Places \ {Place(s)} : fileAt'[p] = fileAt[p]
    BY <2>1 DEF TypeOK
  <2>3. QED
    BY <1>4, <2>1, <2>2 DEF PutArtifact, Active, hostVars, listVars, worldVars, histVars
<1>5. CASE Launch(s) \/ WriteScript(s)
  BY <1>5 DEF Launch, WriteScript, MethodInv, Active, Goto, storeVars, listVars, worldVars, histVars
<1>6. CASE Wipe(s)
  BY <1>6 DEF Wipe, MethodInv, Active, Goto, TypeOK, Place, listVars, worldVars, histVars
<1>7. CASE ListRepos(s) \/ AddRepo(s)
  BY <1>7 DEF ListRepos, AddRepo, MethodInv, Active, Goto, hostVars, storeVars, worldVars, histVars
<1>8. CASE \E n \in {"universe", "local", "other"} : RemoveRepo(s, n)
  BY <1>8 DEF RemoveRepo, MethodInv, Active, hostVars, storeVars, worldVars, histVars
<1>9. CASE Raise(s) \/ Fail(s)
  BY <1>9 DEF Raise, Fail, Stop, Stuck, Active, hostVars, storeVars, worldVars, histVars
<1>10. CASE Bind(s)
  BY <1>10 DEF Bind, storeVars, listVars, worldVars, histVars
<1>11. QED
  BY <1>1, <1>2, <1>3, <1>4, <1>5, <1>6, <1>7, <1>8, <1>9, <1>10, Zenon DEF Acts, RunStep

LEMMA WorldKept ==
  ASSUME TypeOK, World
  PROVE  /\ UNCHANGED <<cfg, pc, buildVars, copies, next, hostVars, storeVars, listVars, announced,
                        latest, crowded>>
         /\ taken \subseteq taken'
         /\ \A r \in Runs : dirty[r] \subseteq dirty'[r]
<1>1. CASE \E a \in Volatile : Rebuild(a)
  BY <1>1 DEF Rebuild
<1>2. CASE Release \/ (\E p \in Ports : TakePort(p))
  BY <1>2 DEF Release, TakePort, histVars
<1>3. CASE UNCHANGED vars
  BY <1>3 DEF vars, worldVars, histVars
<1>4. QED
  BY <1>1, <1>2, <1>3 DEF World

------------------------------------------------------------------------------
(* Methods and ports. *)

LEMMA AssemblePhase ==
  ASSUME TypeOK, NEW s \in Runs, Assemble(s)
  PROVE  /\ pc[s] = "file"
         /\ \/ cfg[s].method = "aws" /\ pc'[s] = "stub"
            \/ cfg[s].method = "http" /\ pc'[s] = "wipe"
            \/ cfg[s].method = "dcos" /\ pc'[s] = "artifacts"
<1>1. pc[s] = "file" /\ pc'[s] = [aws |-> "stub", http |-> "wipe", dcos |-> "artifacts"][cfg[s].method]
  BY DEF Assemble, Goto, TypeOK
<1>2. QED
  BY <1>1, ConfigFacts

LEMMA MethodStep ==
  ASSUME TypeOK, MethodInv, [Next]_vars
  PROVE  MethodInv'
<1>1. CASE World
  <2>1. cfg' = cfg /\ pc' = pc /\ announced' = announced
    BY <1>1, WorldKept
  <2>2. QED
    BY <2>1 DEF MethodInv, Is
<1>2. ASSUME NEW s \in Runs, Acts(s) PROVE MethodInv'
  <2>1. cfg' = cfg /\ \A r \in Runs : r # s => pc'[r] = pc[r] /\ (r \in announced' <=> r \in announced)
    BY <1>2, PlacesKept, OthersKept
  <2>2. /\ pc'[s] \in {"launch", "script", "wipe", "list", "repos"} => Is(s, "http")
        /\ pc'[s] = "bundle" => Is(s, "dcos")
        /\ pc'[s] \in {"stub", "spam"} => ~Is(s, "dcos")
        /\ s \in announced' => pc'[s] \in {"list", "repos", "done", "failed"} /\ ~Is(s, "dcos")
    <3> USE <1>2, ConfigFacts
    <3>1. CASE Start(s) \/ Construct(s) \/ EndArtifacts(s) \/ Spam(s)
      BY <3>1 DEF Start, Construct, EndArtifacts, Spam, Goto, MethodInv, TypeOK, Is
    <3>2. CASE LookUpUpgrades(s) \/ LookUpDowngrades(s) \/ Template(s)
      BY <3>2 DEF LookUpUpgrades, LookUpDowngrades, Template, Goto, MethodInv, TypeOK
    <3>3. CASE Assemble(s)
      <4>1. s \notin announced'
        BY <3>3 DEF Assemble, Goto, MethodInv
      <4>2. QED
        BY <3>3, <4>1, AssemblePhase DEF Is
    <3>4. CASE PutStub(s) \/ UploadBundle(s) \/ PutArtifact(s)
      BY <3>4 DEF PutStub, UploadBundle, PutArtifact, Goto, MethodInv, TypeOK
    <3>5. CASE Launch(s) \/ WriteScript(s) \/ Wipe(s)
      BY <3>5 DEF Launch, WriteScript, Wipe, Goto, MethodInv, TypeOK, Is
    <3>6. CASE ListRepos(s) \/ AddRepo(s) \/ (\E n \in {"universe", "local", "other"} : RemoveRepo(s, n))
      BY <3>6 DEF ListRepos, AddRepo, RemoveRepo, Goto, MethodInv, TypeOK, Is
    <3>7. CASE Raise(s) \/ Fail(s)
      BY <3>7 DEF Raise, Fail, Stop, MethodInv, TypeOK
    <3>8. CASE Bind(s)
      BY <3>8 DEF Bind, MethodInv
    <3>9. QED
      BY <3>1, <3>2, <3>3, <3>4, <3>5, <3>6, <3>7, <3>8, Zenon DEF Acts, RunStep
  <2>3. QED
    BY <2>1, <2>2 DEF MethodInv, Is
<1>3. QED
  BY <1>1, <1>2, Steps

LEMMA PortStep ==
  ASSUME TypeOK, MethodInv, PortInv, [Next]_vars
  PROVE  PortInv'
<1>1. CASE World
  <2>1. cfg' = cfg /\ pc' = pc /\ port' = port /\ script' = script
    BY <1>1, WorldKept DEF hostVars
  <2>2. QED
    BY <2>1 DEF PortInv, Is
<1>2. ASSUME NEW s \in Runs, Acts(s) PROVE PortInv'
  <2>1. cfg' = cfg /\ \A r \in Runs : r # s => pc'[r] = pc[r] /\ port'[r] = port[r]
    BY <1>2, PlacesKept, OthersKept
  <2>2. CASE Launch(s)
    <3>1. PICK p \in IF cfg[s].port # 0 THEN {cfg[s].port} ELSE Ports \ (servers' \union taken) :
            port' = [port EXCEPT ![s] = p]
      BY <2>2 DEF Launch
    <3>2. p \in Ports
      BY <3>1, ConfigFacts
    <3>3. port'[s] \in Ports
      BY <3>1, <3>2 DEF TypeOK
    <3>4. script' = script
      BY <2>2 DEF Launch
    <3>5. QED
      BY <2>1, <3>3, <3>4, RunsAssumption DEF PortInv, Is, TypeOK
  <2>3. CASE ~Launch(s)
    <3>1. port' = port
      BY <1>2, <2>3 DEF Acts, RunStep, Start, Construct, LookUpUpgrades, LookUpDowngrades, Template,
           Assemble, PutStub, PutArtifact, EndArtifacts, UploadBundle, Spam, WriteScript, Wipe, ListRepos,
           AddRepo, RemoveRepo, Raise, Fail, Stop, Bind, hostVars
    <3>2. \/ script' = script
          \/ script' = NoRun
          \/ WriteScript(s)
      BY <1>2, <2>3 DEF Acts, RunStep, Start, Construct, LookUpUpgrades, LookUpDowngrades, Template,
           Assemble, PutStub, PutArtifact, EndArtifacts, UploadBundle, Spam, Wipe, ListRepos,
           AddRepo, RemoveRepo, Raise, Fail, Stop, Bind, hostVars
    <3>3. WriteScript(s) => script' = s /\ pc[s] = "script"
      BY DEF WriteScript, Goto
    <3>4. pc'[s] \in {"new", "launch", "failed"} \/ pc[s] \notin {"new", "launch", "failed"} \/ ~Is(s, "http")
      BY <1>2, <2>3 DEF Acts, RunStep, Start, Construct, LookUpUpgrades, LookUpDowngrades, Template,
           Assemble, PutStub, PutArtifact, EndArtifacts, UploadBundle, Spam, WriteScript, Wipe, ListRepos,
           AddRepo, RemoveRepo, Raise, Fail, Stop, Bind, Goto, TypeOK
    <3>5. Is(s, "http") /\ pc[s] = "script" => port[s] \in Ports
      BY DEF PortInv
    <3>6. pc[s] = "script" => Is(s, "http")
      BY DEF MethodInv
    <3>7. QED
      BY <2>1, <3>1, <3>2, <3>3, <3>4, <3>5, <3>6 DEF PortInv, Is
  <2>4. QED
    BY <2>2, <2>3
<1>3. QED
  BY <1>1, <1>2, Steps

Basics == TypeOK /\ MethodInv /\ PortInv

LEMMA InitBasics ==
  ASSUME Init
  PROVE  Basics
BY InitTyped DEF Init, Basics, MethodInv, PortInv

LEMMA BasicStep ==
  ASSUME Basics, [Next]_vars
  PROVE  Basics'
BY TypeStep, MethodStep, PortStep DEF Basics

\* Every variable keeps its type, however many runs work on what they share.
THEOREM TypeCorrect == Spec => []TypeOK
<1>1. Basics => TypeOK
  BY DEF Basics
<1>2. QED
  BY <1>1, InitBasics, BasicStep, PTL DEF Spec

------------------------------------------------------------------------------
(* The Universe's answers. *)

LEMMA AnswerStep ==
  ASSUME TypeOK, MethodInv, AnswerInv, [Next]_vars
  PROVE  AnswerInv'
<1>1. CASE World
  <2>1. cfg' = cfg /\ pc' = pc /\ at' = at /\ cache' = cache /\ stub' = stub
    BY <1>1, WorldKept DEF buildVars
  <2>2. QED
    BY <2>1 DEF AnswerInv, Reading, Dry, Is
<1>2. ASSUME NEW s \in Runs, Acts(s) PROVE AnswerInv'
  <2>1. cfg' = cfg
    BY <1>2, PlacesKept
  <2>2. \A r \in Runs : r # s => pc'[r] = pc[r] /\ at'[r] = at[r] /\ cache'[r] = cache[r] /\ stub'[r] = stub[r]
    BY <1>2, OthersKept
  <2>3. stub'[s].up # Unanswered =>
          /\ pc'[s] = "downgrades" /\ Reading(s, "package")' =>
               stub'[s].up = IF Dry(s) THEN DryRunVersion ELSE cache'[s]
          /\ pc'[s] # "failed" /\ ~(pc'[s] = "downgrades" /\ Reading(s, "package")') =>
               stub'[s].down = stub'[s].up
    <3>1. CASE LookUpUpgrades(s)
      <4>1. PICK answer \in Latest(s) :
              /\ cache' = [cache EXCEPT ![s] = IF Dry(s) THEN @ ELSE answer]
              /\ stub' = IF Reading(s, "package") THEN [stub EXCEPT ![s].up = answer] ELSE stub
        BY <3>1 DEF LookUpUpgrades, Remember
      <4>2. pc[s] = "file" /\ pc'[s] = "downgrades" /\ at' = at
        BY <3>1 DEF LookUpUpgrades, Goto, TypeOK
      <4>3. Reading(s, "package")' <=> Reading(s, "package")
        BY <2>1, <4>2 DEF Reading
      <4>4. CASE Reading(s, "package")
        <5>1. stub'[s].up = answer /\ cache'[s] = IF Dry(s) THEN cache[s] ELSE answer
          BY <4>1, <4>4 DEF TypeOK
        <5>2. Dry(s) => answer = DryRunVersion
          BY DEF Latest
        <5>3. QED
          BY <4>2, <4>3, <4>4, <5>1, <5>2
      <4>5. CASE ~Reading(s, "package")
        BY <4>1, <4>2, <4>3, <4>5 DEF AnswerInv
      <4>6. QED
        BY <4>4, <4>5
    <3>2. CASE LookUpDowngrades(s)
      <4>1. PICK answer \in Latest(s) :
              stub' = IF Reading(s, "package") THEN [stub EXCEPT ![s].down = answer] ELSE stub
        BY <3>2 DEF LookUpDowngrades
      <4>2. pc[s] = "downgrades" /\ pc'[s] = "hashes"
        BY <3>2 DEF LookUpDowngrades, Goto, TypeOK
      <4>3. CASE Reading(s, "package")
        <5>1. stub'[s].up = stub[s].up /\ stub'[s].down = answer
          BY <4>1, <4>3 DEF TypeOK
        <5>2. stub[s].up # Unanswered => answer = stub[s].up
          BY <4>2, <4>3 DEF AnswerInv, Latest
        <5>3. QED
          BY <4>2, <5>1, <5>2
      <4>4. CASE ~Reading(s, "package")
        BY <4>1, <4>2, <4>4 DEF AnswerInv
      <4>5. QED
        BY <4>3, <4>4
    <3>3. CASE Template(s)
      <4>1. pc[s] = "hashes" /\ pc'[s] = "file" /\ stub'[s].up = stub[s].up /\ stub'[s].down = stub[s].down
        BY <3>3 DEF Template, Goto, TypeOK
      <4>2. QED
        BY <4>1 DEF AnswerInv
    <3>4. CASE Raise(s) \/ Fail(s)
      BY <3>4 DEF Raise, Fail, Stop, TypeOK
    <3>5. CASE ~LookUpUpgrades(s) /\ ~LookUpDowngrades(s) /\ ~Template(s) /\ ~Raise(s) /\ ~Fail(s)
      <4>1. at' = at /\ stub' = stub
        BY <1>2, <3>5 DEF Acts, RunStep, Start, Construct, Assemble, PutStub, PutArtifact, EndArtifacts,
             UploadBundle, Spam, Launch, WriteScript, Wipe, ListRepos, AddRepo, RemoveRepo, Bind, buildVars
      <4>2. \/ pc'[s] = pc[s] /\ cache'[s] = cache[s]
            \/ pc'[s] # "downgrades" /\ pc[s] \notin {"downgrades", "failed"}
        BY <1>2, <3>5, AssemblePhase
           DEF Acts, RunStep, Start, Construct, PutStub, PutArtifact, EndArtifacts, UploadBundle, Spam,
             Launch, WriteScript, Wipe, ListRepos, AddRepo, RemoveRepo, Bind, Goto, TypeOK, buildVars
      <4>3. Reading(s, "package")' <=> Reading(s, "package")
        BY <2>1, <4>1 DEF Reading
      <4>4. QED
        BY <4>1, <4>2, <4>3 DEF AnswerInv
    <3>6. QED
      BY <3>1, <3>2, <3>3, <3>4, <3>5
  <2>4. QED
    BY <2>1, <2>2, <2>3 DEF AnswerInv, Reading, Dry, Is
<1>3. QED
  BY <1>1, <1>2, Steps

\* The two questions to the Universe get one answer, once there is one,
\* whatever it releases between them.
THEOREM AnswersAgree == Spec => []OneAnswer
<1>1. Init => Basics /\ AnswerInv
  <2>1. ASSUME Init PROVE \A r \in Runs : stub[r].up = Unanswered
    BY <2>1, Zeroes DEF Init
  <2>2. QED
    BY <2>1, InitBasics DEF AnswerInv
<1>2. Basics /\ AnswerInv /\ [Next]_vars => Basics' /\ AnswerInv'
  BY BasicStep, AnswerStep DEF Basics
<1>3. AnswerInv => OneAnswer
  BY DEF AnswerInv, OneAnswer
<1>4. QED
  BY <1>1, <1>2, <1>3, PTL DEF Spec

------------------------------------------------------------------------------
(* Hashes and bundles. *)

LEMMA HashStep ==
  ASSUME TypeOK, MethodInv, HashInv, [Next]_vars
  PROVE  HashInv'
<1>1. ASSUME NEW b \in Volatile, Rebuild(b) PROVE HashInv'
  <2> USE BuildAssumption
  <2>1. cfg' = cfg /\ pc' = pc /\ stub' = stub
    BY <1>1 DEF Rebuild, buildVars
  <2>2. \A a \in Artifacts : a # b => local'[a] = local[a]
    BY <1>1 DEF Rebuild, TypeOK
  <2>3. \A r \in Runs : dirty[r] \subseteq dirty'[r] /\ (Active(r) /\ stub[r].hash[b] # 0 => b \in dirty'[r])
    BY <1>1 DEF Rebuild
  <2>4. QED
    BY <2>1, <2>2, <2>3 DEF HashInv, Agrees, Active, Provided
<1>2. CASE Release \/ (\E p \in Ports : TakePort(p)) \/ UNCHANGED vars
  <2>1. cfg' = cfg /\ pc' = pc /\ stub' = stub /\ local' = local /\ dirty' = dirty
    BY <1>2 DEF Release, TakePort, vars, buildVars, worldVars, histVars
  <2>2. QED
    BY <2>1 DEF HashInv, Agrees, Active, Provided
<1>3. ASSUME NEW s \in Runs, Acts(s) PROVE HashInv'
  <2>1. cfg' = cfg /\ local' = local /\ dirty' = dirty
    BY <1>3, PlacesKept
  <2>2. \A r \in Runs : r # s => pc'[r] = pc[r] /\ stub'[r] = stub[r]
    BY <1>3, OthersKept
  <2>3. \A a \in Artifacts :
          /\ stub'[s].hash[a] # 0 => a \in Provided(s) /\ pc'[s] # "new"
          /\ pc'[s] \notin {"new", "done", "failed"} => stub'[s].hash[a] \in {0, local[a]} \/ a \in dirty[s]
    <3>1. CASE Template(s)
      <4>1. pc[s] = "hashes" /\ pc'[s] = "file"
        BY <3>1 DEF Template, Goto, TypeOK
      <4>2. CASE stub' = stub
        BY <4>1, <4>2 DEF HashInv, Agrees, Active
      <4>3. CASE stub' # stub
        <5>1. stub'[s].hash = [a \in Artifacts |-> IF a \in LocalRefs(s) THEN local[a] ELSE 0]
          <6> DEFINE h == [a \in Artifacts |-> IF a \in LocalRefs(s) THEN local[a] ELSE 0]
          <6>1. stub' = [stub EXCEPT ![s].hash = h]
            BY <3>1, <4>3 DEF Template
          <6>2. stub \in [Runs -> StubType]
            BY DEF TypeOK, StubType
          <6>3. stub[s] \in StubType /\ stub'[s] = [stub[s] EXCEPT !.hash = h]
            BY <6>1, <6>2
          <6> HIDE DEF h
          <6>4. stub'[s].hash = h
            BY <6>3 DEF StubType
          <6>5. QED
            BY <6>4 DEF h
        <5>2. LocalRefs(s) \subseteq Provided(s)
          BY <3>1, <4>3 DEF Template, Hashable
        <5>3. QED
          BY <4>1, <5>1, <5>2
      <4>4. QED
        BY <4>2, <4>3
    <3>2. CASE Raise(s) \/ Fail(s)
      <4>1. pc'[s] = "failed" /\ stub'[s] \in {stub[s], NoStub}
        BY <3>2 DEF Raise, Fail, Stop, TypeOK
      <4>2. QED
        BY <4>1, Zeroes DEF HashInv
    <3>3. CASE Start(s)
      <4>1. pc[s] = "new" /\ pc'[s] # "new" /\ stub' = stub
        BY <3>3 DEF Start, Goto, TypeOK, buildVars
      <4>2. QED
        BY <4>1 DEF HashInv
    <3>4. CASE LookUpUpgrades(s) \/ LookUpDowngrades(s)
      <4>1. pc'[s] # "new" /\ Active(s)
        BY <3>4 DEF LookUpUpgrades, LookUpDowngrades, Goto, TypeOK, Active
      <4>2. stub'[s].hash = stub[s].hash
        BY <3>4 DEF LookUpUpgrades, LookUpDowngrades, TypeOK
      <4>3. QED
        BY <4>1, <4>2 DEF HashInv, Agrees
    <3>5. CASE ~Template(s) /\ ~Raise(s) /\ ~Fail(s) /\ ~Start(s) /\ ~LookUpUpgrades(s) /\ ~LookUpDowngrades(s)
      <4>1. stub' = stub
        BY <1>3, <3>5 DEF Acts, RunStep, Construct, Assemble, PutStub, PutArtifact, EndArtifacts,
             UploadBundle, Spam, Launch, WriteScript, Wipe, ListRepos, AddRepo, RemoveRepo, Bind, buildVars
      <4>2. pc'[s] = pc[s] \/ (Active(s) /\ pc'[s] # "new")
        BY <1>3, <3>5, AssemblePhase
           DEF Acts, RunStep, Construct, PutStub, PutArtifact, EndArtifacts, UploadBundle, Spam, Launch,
             WriteScript, Wipe, ListRepos, AddRepo, RemoveRepo, Bind, Goto, TypeOK, Active
      <4>3. QED
        BY <4>1, <4>2 DEF HashInv, Agrees, Active
    <3>6. QED
      BY <3>1, <3>2, <3>3, <3>4, <3>5
  <2>4. QED
    BY <2>1, <2>2, <2>3 DEF HashInv, Agrees, Active, Provided
<1>4. QED
  BY <1>1, <1>2, <1>3, Steps DEF World

LEMMA CopyStep ==
  ASSUME TypeOK, MethodInv, HashInv, CopyInv, [Next]_vars
  PROVE  CopyInv'
<1>1. CASE World
  <2>1. cfg' = cfg /\ pc' = pc /\ stub' = stub /\ copies' = copies /\ next' = next /\ bundleAt' = bundleAt
    BY <1>1, WorldKept DEF buildVars, storeVars
  <2>2. \A r \in Runs : \A a : Held(r, a) => Held(r, a)'
    BY <1>1, <2>1, WorldKept DEF Held, Agrees
  <2>3. \A r \in Runs : Before(r)' = Before(r) /\ Provided(r)' = Provided(r)
    BY <2>1 DEF Before, Provided
  <2>4. QED
    BY <2>1, <2>2, <2>3 DEF CopyInv, Is
<1>2. ASSUME NEW s \in Runs, Acts(s) PROVE CopyInv'
  <2>1. cfg' = cfg /\ local' = local /\ dirty' = dirty
    BY <1>2, PlacesKept
  <2>2. \A r \in Runs : r # s =>
          pc'[r] = pc[r] /\ stub'[r] = stub[r] /\ copies'[r] = copies[r] /\ next'[r] = next[r]
    BY <1>2, OthersKept
  <2>3. \A r \in Runs : r # s => \A a : Held(r, a)' <=> Held(r, a)
    BY <2>1, <2>2 DEF Held, Agrees
  <2>4. Before(s)' = {cfg[s].provided[i] : i \in {j \in DOMAIN cfg[s].provided : j < next'[s]}}
    BY <2>1 DEF Before
  <2>5. /\ pc'[s] \in Building => next'[s] = 1
        /\ pc'[s] = "artifacts" /\ Is(s, "dcos") => \A a \in Before(s)' : Held(s, a)'
        /\ pc'[s] = "bundle" => \A a \in Provided(s) : Held(s, a)'
    <3>1. CASE PutArtifact(s)
      <4>1. PICK b \in Artifacts : b = cfg[s].provided[next[s]] /\ local[b] \in 1 .. MaxBuild
        BY <3>1, TurnFacts DEF PutArtifact
      <4>2. /\ pc' = pc /\ stub' = stub /\ pc[s] = "artifacts"
            /\ next' = [next EXCEPT ![s] = @ + 1]
            /\ Is(s, "dcos") => copies' = [copies EXCEPT ![s][b] = local[b]]
        BY <3>1, <4>1 DEF PutArtifact, buildVars
      <4>3. next'[s] = next[s] + 1 /\ next[s] \in Nat
        BY <4>2 DEF TypeOK
      <4>4. CASE Is(s, "dcos")
        <5>1. copies'[s][b] = local[b] /\ \A a \in Artifacts : a # b => copies'[s][a] = copies[s][a]
          BY <4>1, <4>2, <4>4 DEF TypeOK
        <5>2. Agrees(s, b, local[b])
          BY <4>1, <4>2 DEF HashInv, Active
        <5>3. local[b] # 0
          BY <4>1, BoundAssumption
        <5>4. Held(s, b)'
          BY <2>1, <4>2, <5>1, <5>2, <5>3 DEF Held, Agrees
        <5>5. \A a \in Artifacts : a # b => (Held(s, a) => Held(s, a)')
          BY <2>1, <4>2, <5>1 DEF Held, Agrees
        <5>6. \A i \in DOMAIN cfg[s].provided : i < next'[s] => i = next[s] \/ i < next[s]
          BY <4>3, ConfigFacts
        <5>7. \A a \in Before(s)' : a = b \/ a \in Before(s)
          BY <2>4, <4>1, <5>6 DEF Before
        <5>8. \A a \in Before(s) : Held(s, a) /\ a \in Artifacts
          BY <4>2, <4>4, ConfigFacts DEF CopyInv, Before
        <5>9. QED
          BY <4>2, <5>4, <5>5, <5>7, <5>8 DEF Building
      <4>5. QED
        BY <4>2, <4>4 DEF Building
    <3>2. CASE EndArtifacts(s)
      <4>1. stub' = stub /\ copies' = copies /\ pc[s] = "artifacts" /\ next[s] > Len(cfg[s].provided)
            /\ pc'[s] = IF Is(s, "dcos") THEN "bundle" ELSE "spam"
        BY <3>2 DEF EndArtifacts, Goto, TypeOK, buildVars
      <4>2. \A i \in DOMAIN cfg[s].provided : i < next[s]
        <5>1. next[s] \in Nat
          BY DEF TypeOK
        <5>2. QED
          BY <4>1, <5>1, ConfigFacts
      <4>3. Is(s, "dcos") => \A a \in Provided(s) : Held(s, a)
        <5>1. Provided(s) \subseteq Before(s)
          BY <4>2 DEF Provided, Before
        <5>2. QED
          BY <4>1, <5>1 DEF CopyInv
      <4>4. \A a : Held(s, a) => Held(s, a)'
        BY <2>1, <4>1 DEF Held, Agrees
      <4>5. QED
        BY <4>1, <4>3, <4>4 DEF Building
    <3>3. CASE Assemble(s)
      <4>1. next' = next /\ next[s] = 1
        BY <3>3, AssemblePhase DEF Assemble, CopyInv, Building
      <4>2. \A i \in DOMAIN cfg[s].provided : ~(i < 1)
        BY ConfigFacts
      <4>3. Before(s)' = {}
        BY <2>4, <4>1, <4>2
      <4>4. QED
        BY <3>3, <4>1, <4>3, AssemblePhase
    <3>4. CASE PutStub(s)
      BY <3>4 DEF PutStub, Goto, TypeOK, MethodInv, Building
    <3>5. CASE Raise(s) \/ Fail(s)
      BY <3>5 DEF Raise, Fail, Stop, TypeOK, Building
    <3>6. CASE Bind(s)
      <4>1. pc' = pc /\ stub' = stub /\ copies' = copies /\ next' = next
        BY <3>6 DEF Bind, buildVars
      <4>2. \A a : Held(s, a) => Held(s, a)'
        BY <2>1, <4>1 DEF Held, Agrees
      <4>3. Before(s)' = Before(s)
        BY <2>4, <4>1 DEF Before
      <4>4. QED
        BY <4>1, <4>2, <4>3 DEF CopyInv
    <3>7. CASE /\ ~PutArtifact(s) /\ ~EndArtifacts(s) /\ ~Assemble(s) /\ ~PutStub(s) /\ ~Raise(s)
               /\ ~Fail(s) /\ ~Bind(s)
      <4>1. next' = next
        BY <1>2, <3>7 DEF Acts, RunStep, Start, Construct, LookUpUpgrades, LookUpDowngrades, Template,
             UploadBundle, Spam, Launch, WriteScript, Wipe, ListRepos, AddRepo, RemoveRepo
      <4>2. pc'[s] \notin {"artifacts", "bundle"} /\ (pc'[s] \in Building => pc[s] \in Building)
        BY <1>2, <3>7 DEF Acts, RunStep, Start, Construct, LookUpUpgrades, LookUpDowngrades, Template,
             UploadBundle, Spam, Launch, WriteScript, Wipe, ListRepos, AddRepo, RemoveRepo, Goto, TypeOK,
             Building
      <4>3. QED
        BY <4>1, <4>2 DEF CopyInv
    <3>8. QED
      BY <3>1, <3>2, <3>3, <3>4, <3>5, <3>6, <3>7
  <2>6. ASSUME NEW d \in Dirs, NEW q \in Runs, bundleAt'[d] = q
        PROVE  pc'[q] = "done" /\ \A a \in Provided(q) : Held(q, a)'
    <3>1. CASE UploadBundle(s) /\ q = s
      <4>1. pc[s] = "bundle" /\ pc'[s] = "done" /\ stub' = stub /\ copies' = copies
        BY <3>1 DEF UploadBundle, Goto, TypeOK, buildVars
      <4>2. \A a : Held(q, a) => Held(q, a)'
        BY <2>1, <4>1 DEF Held, Agrees
      <4>3. QED
        BY <3>1, <4>1, <4>2 DEF CopyInv
    <3>2. CASE ~(UploadBundle(s) /\ q = s)
      <4>1. bundleAt[d] = q
        BY <1>2, <2>6, <3>2, PlacesKept DEF UploadBundle, TypeOK
      <4>2. pc[q] = "done" /\ \A a \in Provided(q) : Held(q, a)
        BY <4>1 DEF CopyInv
      <4>3. CASE q = s
        <5>1. Bind(s)
          BY <1>2, <4>2, <4>3, PlacesKept DEF Active, Start, Goto
        <5>2. pc' = pc /\ stub' = stub /\ copies' = copies
          BY <5>1 DEF Bind, buildVars
        <5>3. \A a : Held(q, a) => Held(q, a)'
          BY <2>1, <5>2 DEF Held, Agrees
        <5>4. QED
          BY <4>2, <5>2, <5>3
      <4>4. CASE q # s
        BY <2>2, <2>3, <4>2, <4>4
      <4>5. QED
        BY <4>3, <4>4
    <3>3. QED
      BY <3>1, <3>2
  <2>7. \A r \in Runs : r # s => Before(r)' = Before(r)
    BY <2>1, <2>2 DEF Before
  <2>8. QED
    BY <2>1, <2>2, <2>3, <2>5, <2>6, <2>7 DEF CopyInv, Provided, Is
<1>3. QED
  BY <1>1, <1>2, Steps

\* A bundle on S3 is whole, and its hashes are those of its artifacts unless
\* one was rebuilt meanwhile, for any number of runs in any directories.
THEOREM BundlesAreWhole == Spec => []BundleWhole
<1>1. Init => Basics /\ HashInv /\ CopyInv
  <2>1. ASSUME Init PROVE HashInv /\ CopyInv
    <3>1. \A r \in Runs : pc[r] = "new" /\ next[r] = 1 /\ \A a \in Artifacts : stub[r].hash[a] = 0
      BY <2>1, Zeroes DEF Init
    <3>2. \A d \in Dirs, q \in Runs : bundleAt[d] # q
      BY <2>1, RunsAssumption DEF Init
    <3>3. QED
      BY <3>1, <3>2 DEF HashInv, CopyInv, Active
  <2>2. QED
    BY <2>1, InitBasics
<1>2. Basics /\ HashInv /\ CopyInv /\ [Next]_vars => Basics' /\ HashInv' /\ CopyInv'
  BY BasicStep, HashStep, CopyStep DEF Basics
<1>3. Basics /\ CopyInv => BundleWhole
  BY DEF Basics, TypeOK, CopyInv, BundleWhole, Held, Agrees
<1>4. QED
  BY <1>1, <1>2, <1>3, PTL DEF Spec

------------------------------------------------------------------------------
(* Undisturbed runs. *)

LEMMA AloneStep ==
  ASSUME TypeOK, MethodInv, AloneInv, [Next]_vars
  PROVE  AloneInv'
<1>1. CASE World
  <2>1. cfg' = cfg /\ pc' = pc /\ latest' = latest /\ crowded' = crowded
    BY <1>1, WorldKept
  <2>2. QED
    BY <2>1 DEF AloneInv, Undisturbed, Active, Place, Is
<1>2. ASSUME NEW s \in Runs, Acts(s) PROVE AloneInv'
  <2>1. cfg' = cfg /\ \A r \in Runs : r # s => pc'[r] = pc[r]
    BY <1>2, PlacesKept, OthersKept
  <2>2. CASE Start(s)
    <3>1. pc[s] = "new" /\ pc'[s] \notin {"new", "done", "failed"}
      BY <2>2 DEF Start, Goto, TypeOK
    <3>2. latest' = [latest EXCEPT ![Place(s)] = s] /\ Place(s) \in Places
      BY <2>2, ConfigFacts DEF Start
    <3>3. crowded \subseteq crowded'
          /\ (s \notin crowded' => \A q \in Runs : Active(q) => Place(q) # Place(s))
      BY <2>2 DEF Start
    <3>4. \A r \in Runs : r # s /\ Undisturbed(r)' => Place(r) # Place(s) /\ Undisturbed(r)
      BY <2>1, <3>2, <3>3, ConfigFacts DEF Undisturbed, Place, Is, TypeOK
    <3>5. \A r \in Runs : Place(r)' = Place(r) /\ (r # s => (Active(r)' <=> Active(r)))
      BY <2>1 DEF Place, Is, Active
    <3>6. Undisturbed(s)' => s \notin crowded'
      BY DEF Undisturbed
    <3>7. QED
      BY <2>1, <3>1, <3>3, <3>4, <3>5, <3>6 DEF AloneInv
  <2>3. CASE ~Start(s)
    <3>1. latest' = latest /\ crowded' = crowded
      BY <1>2, <2>3, PlacesKept
    <3>2. \A r \in Runs : (Active(r)' => Active(r)) /\ (pc'[r] # "new" => pc[r] # "new")
      <4>1. CASE Bind(s)
        BY <4>1 DEF Bind, Active
      <4>2. CASE ~Bind(s)
        <5>1. Active(s)
          BY <1>2, <2>3, <4>2, PlacesKept
        <5>2. QED
          BY <2>1, <5>1 DEF Active
      <4>3. QED
        BY <4>1, <4>2
    <3>3. \A r \in Runs : Place(r)' = Place(r) /\ (Undisturbed(r)' <=> Undisturbed(r))
      BY <2>1, <3>1 DEF Place, Is, Undisturbed
    <3>4. QED
      BY <3>2, <3>3 DEF AloneInv
  <2>4. QED
    BY <2>2, <2>3
<1>3. QED
  BY <1>1, <1>2, Steps

\* Who acts while a run is undisturbed, acts elsewhere.
LEMMA Elsewhere ==
  ASSUME TypeOK, MethodInv, AloneInv, NEW s \in Runs, Acts(s), ~Bind(s),
         NEW r \in Runs, r # s, pc[r] # "new", Undisturbed(r)'
  PROVE  Undisturbed(r) /\ Place(s) # Place(r)
<1>1. cfg' = cfg
  BY PlacesKept
<1>2. CASE Start(s)
  <2>1. latest' = [latest EXCEPT ![Place(s)] = s] /\ crowded \subseteq crowded'
    BY <1>2 DEF Start
  <2>2. QED
    BY <1>1, <2>1, ConfigFacts DEF Undisturbed, Place, Is, TypeOK
<1>3. CASE ~Start(s)
  <2>1. Active(s) /\ latest' = latest /\ crowded' = crowded
    BY <1>3, PlacesKept
  <2>2. Undisturbed(r)
    BY <1>1, <2>1 DEF Undisturbed, Place, Is
  <2>3. QED
    BY <2>1, <2>2 DEF AloneInv
<1>4. QED
  BY <1>2, <1>3

LEMMA OwnSteps ==
  ASSUME TypeOK, MethodInv, NEW s \in Runs, Acts(s), pc[s] # "new", Undisturbed(s)'
  PROVE  Undisturbed(s)
<1>1. ~Start(s)
  BY DEF Start, Goto
<1>2. QED
  BY <1>1, PlacesKept DEF Undisturbed, Place, Is

------------------------------------------------------------------------------
(* Stub universes and their artifacts. *)

LEMMA UrlStep ==
  ASSUME TypeOK, MethodInv, HashInv, CopyInv, AloneInv, UrlInv, [Next]_vars
  PROVE  UrlInv'
<1>1. CASE World
  <2>1. /\ cfg' = cfg /\ pc' = pc /\ stub' = stub /\ next' = next /\ stubAt' = stubAt /\ fileAt' = fileAt
        /\ announced' = announced /\ latest' = latest /\ crowded' = crowded
        /\ \A r \in Runs : dirty[r] \subseteq dirty'[r]
    BY <1>1, WorldKept DEF buildVars, storeVars
  <2>2. \A r \in Runs : Place(r)' = Place(r) /\ Dry(r)' = Dry(r) /\ (Undisturbed(r)' <=> Undisturbed(r))
    BY <2>1 DEF Place, Dry, Is, Undisturbed
  <2>3. \A r \in Runs : \A a : At(r, a) => At(r, a)'
    BY <2>1, <2>2 DEF At, Agrees
  <2>4. \A r \in Runs : Before(r)' = Before(r) /\ Provided(r)' = Provided(r)
    BY <2>1 DEF Before, Provided
  <2>5. QED
    BY <2>1, <2>2, <2>3, <2>4 DEF UrlInv, Is
<1>2. ASSUME NEW s \in Runs, Acts(s),
             NEW r \in Runs, Undisturbed(r)', ~Dry(r), ~Is(r, "dcos")
      PROVE  /\ pc'[r] = "artifacts" => stubAt'[Place(r)] = r /\ \A a \in Before(r)' : At(r, a)'
             /\ pc'[r] = "spam" \/ r \in announced' => stubAt'[Place(r)] = r /\ \A a \in Provided(r) : At(r, a)'
  <2>1. cfg' = cfg /\ local' = local /\ dirty' = dirty
    BY <1>2, PlacesKept
  <2>2. Place(r)' = Place(r) /\ Provided(r)' = Provided(r) /\ Place(r) \in Places
    BY <2>1, ConfigFacts DEF Place, Provided, Is
  <2>3. CASE pc[r] = "new"
    <3>1. pc'[r] \notin {"artifacts", "spam"}
      <4>1. CASE r = s
        BY <1>2, <2>3, <4>1 DEF Acts, RunStep, Start, Construct, LookUpUpgrades, LookUpDowngrades, Template,
           Assemble, PutStub, PutArtifact, EndArtifacts, UploadBundle, Spam, Launch, WriteScript, Wipe,
           ListRepos, AddRepo, RemoveRepo, Raise, Stuck, Fail, Stop, Active, Bind, Goto, TypeOK
      <4>2. CASE r # s
        BY <1>2, <2>3, <4>2, OthersKept
      <4>3. QED
        BY <4>1, <4>2
    <3>2. r \notin announced'
      <4>1. r \notin announced
        BY <2>3 DEF MethodInv
      <4>2. ~Spam(r)
        BY <2>3 DEF Spam, Goto
      <4>3. CASE r = s
        BY <1>2, <4>1, <4>2, <4>3 DEF Acts, RunStep, Start, Construct, LookUpUpgrades, LookUpDowngrades,
           Template, Assemble, PutStub, PutArtifact, EndArtifacts, UploadBundle, Launch, WriteScript, Wipe,
           ListRepos, AddRepo, RemoveRepo, Raise, Fail, Stop, Bind
      <4>4. CASE r # s
        BY <1>2, <4>1, <4>4, OthersKept
      <4>5. QED
        BY <4>3, <4>4
    <3>3. QED
      BY <3>1, <3>2
  <2>4. CASE pc[r] # "new" /\ Bind(s)
    <3>1. /\ pc' = pc /\ stub' = stub /\ next' = next /\ stubAt' = stubAt /\ fileAt' = fileAt
          /\ announced' = announced /\ latest' = latest /\ crowded' = crowded
      BY <2>4 DEF Bind, buildVars, storeVars, histVars
    <3>2. Undisturbed(r) /\ Before(r)' = Before(r) /\ \A a : At(r, a) => At(r, a)'
      BY <1>2, <2>1, <2>2, <3>1 DEF Undisturbed, Before, At, Agrees
    <3>3. QED
      BY <1>2, <3>1, <3>2 DEF UrlInv
  <2>5. CASE pc[r] # "new" /\ ~Bind(s) /\ r # s
    <3>1. Undisturbed(r) /\ Place(s) # Place(r)
      BY <1>2, <2>5, Elsewhere
    <3>2. stubAt'[Place(r)] = stubAt[Place(r)] /\ fileAt'[Place(r)] = fileAt[Place(r)]
      BY <1>2, <2>2, <3>1, PlacesKept
    <3>3. pc'[r] = pc[r] /\ stub'[r] = stub[r] /\ next'[r] = next[r] /\ (r \in announced' <=> r \in announced)
      BY <1>2, <2>5, OthersKept
    <3>4. Before(r)' = Before(r) /\ \A a : At(r, a) => At(r, a)'
      BY <2>1, <2>2, <3>2, <3>3 DEF Before, At, Agrees
    <3>5. QED
      BY <1>2, <3>1, <3>2, <3>3, <3>4 DEF UrlInv
  <2>6. CASE pc[r] # "new" /\ ~Bind(s) /\ r = s
    <3> USE <2>6
    <3>1. Undisturbed(s) /\ ~Start(s)
      BY <1>2, OwnSteps DEF Start, Goto
    <3>2. CASE PutStub(s)
      <4>1. /\ pc[s] = "stub" /\ pc'[s] = "artifacts" /\ next' = next /\ announced' = announced
            /\ stubAt' = [stubAt EXCEPT ![Place(s)] = s]
        BY <1>2, <3>2 DEF PutStub, Goto, TypeOK
      <4>2. next'[s] = 1 /\ s \notin announced
        BY <4>1 DEF CopyInv, Building, MethodInv
      <4>3. \A i \in DOMAIN cfg[s].provided : ~(i < 1)
        BY ConfigFacts
      <4>4. Before(s)' = {}
        BY <2>1, <4>2, <4>3 DEF Before
      <4>5. QED
        BY <2>2, <4>1, <4>2, <4>4 DEF TypeOK
    <3>3. CASE PutArtifact(s)
      <4>1. PICK b \in Artifacts : b = cfg[s].provided[next[s]] /\ local[b] \in 1 .. MaxBuild
        BY <3>3, TurnFacts DEF PutArtifact
      <4>2. /\ pc' = pc /\ stub' = stub /\ pc[s] = "artifacts" /\ stubAt' = stubAt /\ announced' = announced
            /\ next' = [next EXCEPT ![s] = @ + 1]
            /\ fileAt' = [fileAt EXCEPT ![Place(s)][b] = local[b]]
        BY <1>2, <3>3, <4>1 DEF PutArtifact, buildVars
      <4>3. next'[s] = next[s] + 1 /\ next[s] \in Nat /\ s \notin announced
        BY <4>2 DEF TypeOK, MethodInv
      <4>4. fileAt'[Place(s)][b] = local[b] /\ \A a \in Artifacts : a # b => fileAt'[Place(s)][a] = fileAt[Place(s)][a]
        BY <2>2, <4>1, <4>2 DEF TypeOK
      <4>5. Agrees(s, b, local[b])
        BY <4>1, <4>2 DEF HashInv, Active
      <4>6. local[b] # 0
        BY <4>1, BoundAssumption
      <4>7. At(s, b)'
        BY <2>1, <2>2, <4>2, <4>4, <4>5, <4>6 DEF At, Agrees
      <4>8. \A a \in Artifacts : a # b => (At(s, a) => At(s, a)')
        BY <2>1, <2>2, <4>2, <4>4 DEF At, Agrees
      <4>9. \A i \in DOMAIN cfg[s].provided : i < next'[s] => i = next[s] \/ i < next[s]
        BY <4>3, ConfigFacts
      <4>10. \A a \in Before(s)' : a = b \/ a \in Before(s)
        BY <2>1, <4>1, <4>9 DEF Before
      <4>11. stubAt[Place(s)] = s /\ \A a \in Before(s) : At(s, a) /\ a \in Artifacts
        BY <1>2, <3>1, <4>2, ConfigFacts DEF UrlInv, Before
      <4>12. QED
        BY <4>2, <4>3, <4>7, <4>8, <4>10, <4>11
    <3>4. CASE EndArtifacts(s)
      <4>1. stub' = stub /\ pc[s] = "artifacts" /\ next[s] > Len(cfg[s].provided) /\ pc'[s] = "spam"
            /\ stubAt' = stubAt /\ fileAt' = fileAt
        BY <1>2, <3>4 DEF EndArtifacts, Goto, TypeOK, buildVars, storeVars
      <4>2. Provided(s) \subseteq Before(s)
        <5>1. next[s] \in Nat
          BY DEF TypeOK
        <5>2. \A i \in DOMAIN cfg[s].provided : i < next[s]
          BY <4>1, <5>1, ConfigFacts
        <5>3. QED
          BY <5>2 DEF Provided, Before
      <4>3. \A a : At(s, a) => At(s, a)'
        BY <2>1, <2>2, <4>1 DEF At, Agrees
      <4>4. QED
        BY <1>2, <3>1, <4>1, <4>2, <4>3 DEF UrlInv
    <3>5. CASE Spam(s)
      <4>1. stub' = stub /\ pc[s] = "spam" /\ pc'[s] # "artifacts" /\ stubAt' = stubAt /\ fileAt' = fileAt
        BY <3>5 DEF Spam, Goto, TypeOK, buildVars, storeVars
      <4>2. \A a : At(s, a) => At(s, a)'
        BY <2>1, <2>2, <4>1 DEF At, Agrees
      <4>3. QED
        BY <1>2, <3>1, <4>1, <4>2 DEF UrlInv
    <3>6. CASE Raise(s) \/ Fail(s)
      <4>1. pc'[s] = "failed" /\ announced' = announced /\ stubAt' = stubAt /\ fileAt' = fileAt
            /\ (stubAt[Place(s)] = s => stub' = stub)
        BY <2>2, <3>6 DEF Raise, Fail, Stop, TypeOK, storeVars
      <4>2. s \in announced => stubAt[Place(s)] = s /\ \A a \in Provided(s) : At(s, a)
        BY <1>2, <3>1 DEF UrlInv
      <4>3. s \in announced => \A a : At(s, a) => At(s, a)'
        BY <2>1, <2>2, <4>1, <4>2 DEF At, Agrees
      <4>4. QED
        BY <4>1, <4>2, <4>3
    <3>7. CASE ListRepos(s) \/ AddRepo(s) \/ (\E n \in {"universe", "local", "other"} : RemoveRepo(s, n))
      <4>1. pc'[s] \notin {"artifacts", "spam"} /\ announced' = announced /\ stub' = stub
            /\ stubAt' = stubAt /\ fileAt' = fileAt
        BY <3>7 DEF ListRepos, AddRepo, RemoveRepo, Goto, TypeOK, buildVars, storeVars
      <4>2. \A a : At(s, a) => At(s, a)'
        BY <2>1, <2>2, <4>1 DEF At, Agrees
      <4>3. QED
        BY <1>2, <3>1, <4>1, <4>2 DEF UrlInv
    <3>8. CASE /\ ~PutStub(s) /\ ~PutArtifact(s) /\ ~EndArtifacts(s) /\ ~Spam(s) /\ ~Raise(s) /\ ~Fail(s)
               /\ ~ListRepos(s) /\ ~AddRepo(s) /\ \A n \in {"universe", "local", "other"} : ~RemoveRepo(s, n)
      <4>1. announced' = announced
        BY <1>2, <3>1, <3>8 DEF Acts, RunStep, Construct, LookUpUpgrades, LookUpDowngrades, Template,
           Assemble, UploadBundle, Launch, WriteScript, Wipe
      <4>2. pc[s] \notin {"list", "repos", "done", "failed"} /\ pc'[s] \notin {"artifacts", "spam"}
        BY <1>2, <3>1, <3>8, AssemblePhase
           DEF Acts, RunStep, Construct, LookUpUpgrades, LookUpDowngrades, Template, UploadBundle, Launch,
             WriteScript, Wipe, Goto, TypeOK, Is
      <4>3. QED
        BY <4>1, <4>2 DEF MethodInv
    <3>9. QED
      BY <3>2, <3>3, <3>4, <3>5, <3>6, <3>7, <3>8
  <2>7. QED
    BY <2>3, <2>4, <2>5, <2>6
<1>3. ASSUME NEW s \in Runs, Acts(s) PROVE UrlInv'
  <2>1. \A r \in Runs : Dry(r)' = Dry(r) /\ (Is(r, "dcos")' <=> Is(r, "dcos"))
                         /\ Place(r)' = Place(r) /\ Provided(r)' = Provided(r)
    BY <1>3, PlacesKept DEF Dry, Is, Place, Provided
  <2>2. QED
    BY <1>2, <1>3, <2>1 DEF UrlInv
<1>4. QED
  BY <1>1, <1>3, Steps

\* A URL that was announced leads to a whole stub universe, whatever runs work
\* elsewhere and whatever earlier ones have left: the stub goes up first, but
\* the URL is written last.
THEOREM UrlsAreComplete == Spec => []UrlComplete
<1>1. Init => Basics /\ HashInv /\ CopyInv /\ AloneInv /\ UrlInv
  <2>1. ASSUME Init PROVE HashInv /\ CopyInv /\ AloneInv /\ UrlInv
    <3>1. \A r \in Runs : pc[r] = "new" /\ next[r] = 1 /\ \A a \in Artifacts : stub[r].hash[a] = 0
      BY <2>1, Zeroes DEF Init
    <3>2. announced = {} /\ \A d \in Dirs, q \in Runs : bundleAt[d] # q
      BY <2>1, RunsAssumption DEF Init
    <3>3. QED
      BY <3>1, <3>2 DEF HashInv, CopyInv, AloneInv, UrlInv, Active
  <2>2. QED
    BY <2>1, InitBasics
<1>2. Basics /\ HashInv /\ CopyInv /\ AloneInv /\ UrlInv /\ [Next]_vars
        => Basics' /\ HashInv' /\ CopyInv' /\ AloneInv' /\ UrlInv'
  BY BasicStep, HashStep, CopyStep, AloneStep, UrlStep DEF Basics
<1>3. Basics /\ HashInv /\ UrlInv => UrlComplete
  <2>1. ASSUME Basics, HashInv, UrlInv, NEW r \in announced, Undisturbed(r), ~Dry(r)
        PROVE  /\ stubAt[Place(r)] = r /\ \A a \in Provided(r) : At(r, a)
               /\ {a \in Artifacts : stub[r].hash[a] # 0} \subseteq Provided(r)
    BY <2>1 DEF Basics, TypeOK, MethodInv, HashInv, UrlInv
  <2>2. QED
    BY <2>1 DEF UrlComplete, At, Agrees
<1>4. QED
  BY <1>1, <1>2, <1>3, PTL DEF Spec

------------------------------------------------------------------------------
(* The cluster's repositories and the local server. *)

\* Only publish_http.py touches the machine and the cluster.
LEMMA OnlyHttp ==
  ASSUME TypeOK, MethodInv, NEW s \in Runs, Acts(s), ~Bind(s), ~Is(s, "http")
  PROVE  UNCHANGED <<repos, script, servers, child>>
<1>1. ~Launch(s) /\ ~WriteScript(s) /\ ~Wipe(s)
  BY DEF Launch, WriteScript, Wipe, Goto, MethodInv
<1>2. servers' = servers /\ child' = child
  BY <1>1 DEF Acts, RunStep, Start, Construct, LookUpUpgrades, LookUpDowngrades, Template, Assemble, PutStub,
     PutArtifact, EndArtifacts, UploadBundle, Spam, ListRepos, AddRepo, RemoveRepo, Raise, Fail, Stop, hostVars
<1>3. QED
  BY <1>2, PlacesKept

LEMMA ListStep ==
  ASSUME TypeOK, MethodInv, AloneInv, ListInv, [Next]_vars
  PROVE  ListInv'
<1>1. CASE World
  <2>1. /\ cfg' = cfg /\ pc' = pc /\ port' = port /\ doomed' = doomed /\ repos' = repos
        /\ latest' = latest /\ crowded' = crowded
    BY <1>1, WorldKept DEF hostVars, listVars
  <2>2. QED
    BY <2>1 DEF ListInv, Undisturbed, Place, Is, Rivals, Entry
<1>2. ASSUME NEW s \in Runs, Acts(s), NEW r \in Runs, Undisturbed(r)'
      PROVE  /\ pc'[r] = "repos" => \A e \in Rivals(r)' : e.name \in doomed'[r]
             /\ pc'[r] = "done" /\ Is(r, "http") /\ cfg[r].cli => Rivals(r)' = {Entry(r)'}
  <2>1. cfg' = cfg
    BY <1>2, PlacesKept
  <2>2. CASE Bind(s)
    <3>1. /\ pc' = pc /\ port' = port /\ doomed' = doomed /\ repos' = repos
          /\ latest' = latest /\ crowded' = crowded
      BY <2>2 DEF Bind, listVars, histVars
    <3>2. Undisturbed(r)
      BY <1>2, <2>1, <3>1 DEF Undisturbed, Place, Is
    <3>3. QED
      BY <3>1, <3>2 DEF ListInv, Rivals, Entry
  <2>3. CASE ~Bind(s) /\ r # s
    <3>1. pc'[r] = pc[r] /\ port'[r] = port[r] /\ doomed'[r] = doomed[r]
      BY <1>2, <2>3, OthersKept
    <3>2. CASE pc[r] # "new" /\ Is(r, "http")
      <4>1. Undisturbed(r) /\ Place(s) # Place(r)
        BY <1>2, <2>3, <3>2, Elsewhere
      <4>2. repos' = repos
        BY <1>2, <2>3, <3>2, <4>1, OnlyHttp DEF Place
      <4>3. QED
        BY <3>1, <4>1, <4>2 DEF ListInv, Rivals, Entry
    <3>3. CASE pc[r] = "new" \/ ~Is(r, "http")
      BY <3>1, <3>3 DEF MethodInv
    <3>4. QED
      BY <3>2, <3>3
  <2>4. CASE ~Bind(s) /\ r = s
    <3>1. CASE ListRepos(s)
      <4>1. /\ doomed'[s] = IF cfg[s].cli THEN {e.name : e \in Duplicates(s)} ELSE {}
            /\ pc'[s] = IF cfg[s].cli THEN "repos" ELSE "done"
            /\ repos' = repos /\ port' = port
        BY <3>1 DEF ListRepos, Goto, TypeOK, hostVars
      <4>2. Rivals(s)' = Duplicates(s)
        BY <4>1 DEF Rivals, Duplicates, Entry
      <4>3. QED
        BY <2>4, <4>1, <4>2
    <3>2. ASSUME NEW n \in {"universe", "local", "other"}, RemoveRepo(s, n)
          PROVE  pc'[s] = "repos" /\ \A e \in Rivals(s)' : e.name \in doomed'[s]
      <4>1. /\ pc' = pc /\ pc[s] = "repos" /\ port' = port /\ latest' = latest /\ crowded' = crowded
            /\ doomed'[s] = doomed[s] \ {n} /\ repos' = repos \ Named(n)
        BY <3>2 DEF RemoveRepo, TypeOK, hostVars, histVars
      <4>2. Undisturbed(s)
        BY <1>2, <2>1, <2>4, <4>1 DEF Undisturbed, Place, Is
      <4>3. \A e \in Rivals(s)' : e \in Rivals(s) /\ e.name # n
        BY <4>1 DEF Rivals, Named, Entry
      <4>4. QED
        BY <4>1, <4>2, <4>3 DEF ListInv
    <3>3. CASE AddRepo(s)
      <4>1. pc'[s] = "done" /\ Rivals(s) = {} /\ repos' = repos \union {Entry(s)} /\ port' = port
        BY <3>3 DEF AddRepo, Goto, TypeOK, hostVars
      <4>2. Entry(s)' = Entry(s)
        BY <4>1 DEF Entry
      <4>3. Rivals(s)' = {Entry(s)}
        BY <4>1, <4>2 DEF Rivals
      <4>4. QED
        BY <2>4, <4>1, <4>2, <4>3
    <3>4. CASE ~ListRepos(s) /\ ~AddRepo(s) /\ \A n \in {"universe", "local", "other"} : ~RemoveRepo(s, n)
      <4>1. pc'[s] # "repos" /\ (pc'[s] = "done" => ~Is(s, "http"))
        <5>1. CASE PutArtifact(s)
          BY <5>1 DEF PutArtifact, buildVars
        <5>2. CASE ~PutArtifact(s)
          BY <1>2, <2>4, <3>4, <5>2, AssemblePhase
             DEF Acts, RunStep, Start, Construct, LookUpUpgrades, LookUpDowngrades, Template, PutStub,
               EndArtifacts, UploadBundle, Spam, Launch, WriteScript, Wipe, Raise, Fail, Stop, Goto, TypeOK,
               MethodInv, Is
        <5>3. QED
          BY <5>1, <5>2
      <4>2. QED
        BY <2>4, <4>1
    <3>5. QED
      BY <2>4, <3>1, <3>2, <3>3, <3>4
  <2>5. QED
    BY <2>2, <2>3, <2>4
<1>3. ASSUME NEW s \in Runs, Acts(s) PROVE ListInv'
  <2>1. cfg' = cfg
    BY <1>3, PlacesKept
  <2>2. QED
    BY <1>2, <1>3, <2>1 DEF ListInv, Is
<1>4. QED
  BY <1>1, <1>3, Steps

\* The cluster accepts the repository of a build, whatever entries it has, of
\* whatever names and URIs, as long as no other run works on the machine.
THEOREM RepositoriesAreAccepted == Spec => []AddNeverRefused
<1>1. Init => Basics /\ AloneInv /\ ListInv
  <2>1. ASSUME Init PROVE AloneInv /\ ListInv
    BY <2>1 DEF Init, AloneInv, ListInv, Active
  <2>2. QED
    BY <2>1, InitBasics
<1>2. Basics /\ AloneInv /\ ListInv /\ [Next]_vars => Basics' /\ AloneInv' /\ ListInv'
  BY BasicStep, AloneStep, ListStep DEF Basics
<1>3. ListInv => AddNeverRefused
  BY DEF ListInv, AddNeverRefused
<1>4. QED
  BY <1>1, <1>2, <1>3, PTL DEF Spec

Serving == Phases \ {"new", "launch", "construct", "script", "failed"}

LEMMA ServerStep ==
  ASSUME TypeOK, MethodInv, AloneInv, ServerInv, [Next]_vars
  PROVE  ServerInv'
<1>1. CASE World
  <2>1. /\ cfg' = cfg /\ pc' = pc /\ port' = port /\ child' = child /\ script' = script
        /\ servers' = servers /\ taken \subseteq taken' /\ latest' = latest /\ crowded' = crowded
    BY <1>1, WorldKept DEF hostVars
  <2>2. QED
    BY <2>1 DEF ServerInv, Undisturbed, Place, Is
<1>2. ASSUME NEW s \in Runs, Acts(s),
             NEW r \in Runs, Undisturbed(r)', Is(r, "http"), pc'[r] \in Serving
      PROVE  /\ script' \in {r, NoRun}
             /\ child'[r] \in {"starting", "up", "dead", "lost"}
             /\ child'[r] \in {"up", "dead"} => port'[r] \in servers' \union taken'
  <2>1. cfg' = cfg /\ taken' = taken
    BY <1>2, PlacesKept
  <2>2. CASE Bind(s)
    <3>1. pc' = pc /\ port' = port /\ script' = script /\ latest' = latest /\ crowded' = crowded
      BY <2>2 DEF Bind, histVars
    <3>2. Undisturbed(r) /\ pc[r] \in Serving
      BY <1>2, <2>1, <3>1 DEF Undisturbed, Place, Is
    <3>3. /\ script \in {r, NoRun}
          /\ child[r] \in {"starting", "up", "dead", "lost"}
          /\ child[r] \in {"up", "dead"} => port[r] \in servers \union taken
      BY <1>2, <3>2 DEF ServerInv, Serving
    <3>4. servers \subseteq servers' /\ (s # r => child'[r] = child[r])
      BY <2>2 DEF Bind, TypeOK
    <3>5. CASE s # r
      BY <2>1, <3>1, <3>3, <3>4, <3>5
    <3>6. CASE s = r
      <4>1. \/ child'[r] = "lost"
            \/ script = r /\ child'[r] = "dead" /\ port[r] \in servers \union taken
            \/ script = r /\ child'[r] = "up" /\ port[r] \in servers'
        BY <2>2, <3>3, <3>6 DEF Bind, TypeOK
      <4>2. QED
        BY <2>1, <3>1, <3>3, <3>4, <4>1
    <3>7. QED
      BY <3>5, <3>6
  <2>3. CASE ~Bind(s) /\ r # s
    <3>1. pc'[r] = pc[r] /\ port'[r] = port[r]
      BY <1>2, <2>3, OthersKept
    <3>2. Undisturbed(r) /\ Place(s) # Place(r)
      BY <1>2, <2>3, <3>1, Elsewhere DEF Serving
    <3>3. UNCHANGED <<script, servers, child>>
      BY <1>2, <2>3, <3>2, OnlyHttp DEF Place
    <3>4. QED
      BY <1>2, <2>1, <3>1, <3>2, <3>3 DEF ServerInv, Serving
  <2>4. CASE ~Bind(s) /\ r = s
    <3>1. CASE WriteScript(s)
      <4>1. script' = s /\ child'[s] = "starting"
        BY <3>1 DEF WriteScript, TypeOK
      <4>2. QED
        BY <2>4, <4>1
    <3>2. CASE ~WriteScript(s)
      <4>1. pc[s] \in Serving
        BY <1>2, <2>4, <3>2
           DEF Acts, RunStep, Start, Construct, LookUpUpgrades, LookUpDowngrades, Template, Assemble, PutStub,
             PutArtifact, EndArtifacts, UploadBundle, Spam, Launch, Wipe, ListRepos, AddRepo, RemoveRepo,
             Raise, Fail, Stop, Goto, TypeOK, Is, Serving, Phases
      <4>2. Undisturbed(s)
        BY <1>2, <2>4, <4>1, OwnSteps DEF Serving
      <4>3. ~Launch(s)
        BY <4>1 DEF Launch, Goto, Serving
      <4>4. port' = port /\ child' = child /\ servers' = servers /\ script' \in {script, NoRun}
        BY <1>2, <2>4, <3>2, <4>3
           DEF Acts, RunStep, Start, Construct, LookUpUpgrades, LookUpDowngrades, Template, Assemble, PutStub,
             PutArtifact, EndArtifacts, UploadBundle, Spam, Wipe, ListRepos, AddRepo, RemoveRepo,
             Raise, Fail, Stop, hostVars
      <4>5. QED
        BY <1>2, <2>1, <2>4, <4>1, <4>2, <4>4 DEF ServerInv, Serving
    <3>3. QED
      BY <3>1, <3>2
  <2>5. QED
    BY <2>2, <2>3, <2>4
<1>3. ASSUME NEW s \in Runs, Acts(s) PROVE ServerInv'
  <2>1. cfg' = cfg
    BY <1>3, PlacesKept
  <2>2. QED
    BY <1>2, <1>3, <2>1 DEF ServerInv, Is, Serving
<1>4. QED
  BY <1>1, <1>3, Steps

\* The URL that publish_http.py has printed is served, unless its port was
\* taken or its script removed first, as long as no other run is started.
THEOREM UrlsAreServed == Spec => []UrlServed
<1>1. Init => Basics /\ AloneInv /\ ServerInv
  <2>1. ASSUME Init PROVE AloneInv /\ ServerInv
    BY <2>1 DEF Init, AloneInv, ServerInv, Active
  <2>2. QED
    BY <2>1, InitBasics
<1>2. Basics /\ AloneInv /\ ServerInv /\ [Next]_vars => Basics' /\ AloneInv' /\ ServerInv'
  BY BasicStep, AloneStep, ServerStep DEF Basics
<1>3. ServerInv => UrlServed
  BY DEF ServerInv, UrlServed, Phases
<1>4. QED
  BY <1>1, <1>2, <1>3, PTL DEF Spec

==============================================================================
