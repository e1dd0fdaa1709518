------------------------ MODULE UniverseReleaseProofs ------------------------
(***************************************************************************)
(* What holds of every number of release runs, builds and versions.  The   *)
(* inductive invariants say what is known of a run in each phase.          *)
(***************************************************************************)
EXTENDS UniverseRelease, WellFoundedInduction, TLAPS

USE DEF Indexes, NoIndex, Files, Dirs, GaMultiplier, BetaMultiplier

------------------------------------------------------------------------------
(* The largest index of a package. *)

LEMMA IntervalsAreNat == Indexes \subseteq Nat
BY MaxIndexAssumption

\* A non-empty set of indexes has a largest element, which Max picks: this is
\* what the loop of _find_release_index computes.
LEMMA MaxOfIndexes ==
  ASSUME NEW S \in SUBSET Indexes, S # {}
  PROVE  Max(S) \in S /\ \A i \in S : i <= Max(S)
<1> DEFINE T == {MaxIndex - i : i \in S}
<1>1. T \subseteq Nat /\ T # {}
  <2>1. \A i \in S : i \in Int /\ 0 <= i /\ i <= MaxIndex
    BY MaxIndexAssumption
  <2>2. \A i \in S : MaxIndex - i \in Nat
    BY <2>1, MaxIndexAssumption
  <2> QED BY <2>2
<1>2. PICK x \in T : \A y \in T : ~(<<y, x>> \in OpToRel(<, Nat))
  <2> HIDE DEF T
  <2> QED BY <1>1, NatLessThanWellFounded, WFMin
<1>3. \A y \in T : ~(y < x)
  BY <1>1, <1>2 DEF OpToRel
<1>4. PICK m \in S : x = MaxIndex - m
  BY <1>2
<1>5. \A i \in S : m >= i
  BY <1>3, <1>4, MaxIndexAssumption
<1> QED
  BY <1>5, MaxIndexAssumption DEF Max

LEMMA LastIndexType ==
  ASSUME NEW S \in SUBSET Indexes
  PROVE  /\ LastIndex(S) \in S \union {NoIndex}
         /\ LastIndex(S) \in Indexes \union {NoIndex}
         /\ \A i \in S : i <= LastIndex(S)
BY MaxOfIndexes DEF LastIndex

------------------------------------------------------------------------------
(* _find_release_index, for every content of the package's directory. *)

\* The index chosen for a run is free in the clone.  When the run chooses it, it
\* is above every release there, and for a GA release a multiple of 100.
THEOREM ThisIndexFits ==
  ASSUME NEW S \in SUBSET Indexes, NEW c \in ConfigType, ~IndexTaken(S, c)
  PROVE  /\ ThisIndex(S, c) \in Nat
         /\ ThisIndex(S, c) \notin S
         /\ c.index = NoIndex =>
              /\ \A i \in S : i < ThisIndex(S, c)
              /\ ~c.beta => ThisIndex(S, c) % GaMultiplier = 0
<1>0. /\ c.index \in Nat \union {NoIndex} /\ c.beta \in BOOLEAN
  BY MaxIndexAssumption DEF ConfigType
<1>1. CASE c.index # NoIndex
  BY <1>0, <1>1 DEF ThisIndex, IndexTaken
<1>2. CASE c.index = NoIndex /\ S = {}
  BY <1>2 DEF ThisIndex
<1>3. CASE c.index = NoIndex /\ S # {}
  <2> DEFINE m == Max(S)
  <2>0. m \in S /\ \A i \in S : i <= m
    BY <1>3, MaxOfIndexes
  <2>4. ThisIndex(S, c) = Multiplier(c) * ((m \div Multiplier(c)) + 1)
    BY <1>3 DEF ThisIndex
  <2> HIDE DEF m
  <2>1. m \in Nat /\ \A i \in S : i \in Nat /\ i <= m
    BY <2>0, MaxIndexAssumption
  <2>2. CASE c.beta
    <3>1. Multiplier(c) = 1
      BY <2>2 DEF Multiplier
    <3>2. 1 * ((m \div 1) + 1) = m + 1
      BY <2>1
    <3> QED BY <2>1, <2>2, <2>4, <3>1, <3>2
  <2>3. CASE ~c.beta
    <3>1. ThisIndex(S, c) = 100 * ((m \div 100) + 1)
      BY <2>3, <2>4 DEF Multiplier
    <3>2. /\ m < 100 * ((m \div 100) + 1)
          /\ 100 * ((m \div 100) + 1) \in Nat
          /\ (100 * ((m \div 100) + 1)) % 100 = 0
      BY <2>1
    <3> QED BY <2>1, <3>1, <3>2
  <2> QED BY <2>2, <2>3, <1>0
<1> QED BY <1>1, <1>2, <1>3

\* The release a run diffs against is the closest one below its own index.
THEOREM PriorIndexFits ==
  ASSUME NEW S \in SUBSET Indexes, NEW c \in ConfigType, ~IndexTaken(S, c)
  PROVE  /\ PriorIndex(S, c) \in S \union {NoIndex}
         /\ PriorIndex(S, c) < ThisIndex(S, c)
         /\ \A i \in S : i > PriorIndex(S, c) => i > ThisIndex(S, c)
<1>0. c.index \in Nat \union {NoIndex}
  BY MaxIndexAssumption DEF ConfigType
<1>1. CASE c.index # NoIndex
  <2> DEFINE B == {i \in S : i < c.index}
  <2> DEFINE l == LastIndex(B)
  <2>1. B \in SUBSET Indexes /\ PriorIndex(S, c) = l
    BY <1>1 DEF PriorIndex
  <2>2. ThisIndex(S, c) = c.index /\ c.index \notin S
    BY <1>1 DEF ThisIndex, IndexTaken
  <2>3. l \in B \union {-1} /\ \A i \in B : i <= l
    BY <2>1, LastIndexType
  <2>4. S \subseteq Nat /\ c.index \in Nat
    BY <1>0, <1>1, MaxIndexAssumption
  <2> HIDE DEF l
  <2>5. CASE l = -1
    BY <2>1, <2>2, <2>3, <2>4, <2>5
  <2>6. CASE l \in B
    BY <2>1, <2>2, <2>3, <2>4, <2>6
  <2> QED
    BY <2>3, <2>5, <2>6
<1>2. CASE c.index = NoIndex
  <2> DEFINE l == LastIndex(S)
             n == ThisIndex(S, c)
  <2>1. PriorIndex(S, c) = l
    BY <1>2 DEF PriorIndex
  <2>2. l \in S \union {-1} /\ \A i \in S : i <= l
    BY LastIndexType
  <2>3. n \in Nat /\ \A i \in S : i < n
    BY <1>2, ThisIndexFits
  <2>4. S \subseteq Nat
    BY MaxIndexAssumption
  <2> HIDE DEF l, n
  <2>5. l < n /\ \A i \in S : i > l => i > n
    BY <2>2, <2>3, <2>4
  <2> QED
    BY <2>1, <2>2, <2>5 DEF n
<1> QED BY <1>1, <1>2

------------------------------------------------------------------------------
(* Type correctness. *)

\* Whoever is past the clone, or has a branch, has an index.
IndexedBranches ==
  \A r \in Runs :
    pc[r] \in {"cloned", "pushed", "needs_pr"} \/ pr[r] # "none"
      => index[r] # NoIndex

TypeInv == TypeOK /\ IndexedBranches

LEMMA ConfigOfRun ==
  ASSUME TypeOK, NEW r \in Runs
  PROVE  /\ cfg[r] \in ConfigType
         /\ cfg[r].beta \in BOOLEAN /\ cfg[r].force \in BOOLEAN
         /\ cfg[r].dry \in BOOLEAN
         /\ cfg[r].index \in Indexes \union {NoIndex}
         /\ Dir(r) \in Dirs
         /\ Count(r) \in Files
<1>1. cfg[r] \in ConfigType
  BY DEF TypeOK
<1> QED
  BY <1>1, CountAssumption DEF ConfigType, Dir, Count

LEMMA IndexSetsAreIndexes ==
  ASSUME TypeInv, NEW beta \in BOOLEAN
  PROVE  /\ PackageIndexes(beta) \subseteq Indexes
         /\ PublishedIndexes(beta) \subseteq PackageIndexes(beta)
<1>1. \A r \in Merged(beta) : index[r] \in Indexes
  BY DEF TypeInv, TypeOK, IndexedBranches, Merged
<1> QED
  BY <1>1, ExistingAssumption DEF PackageIndexes, PublishedIndexes

\* The steps of one run keep every variable in its type, and give an index to
\* the runs that push a branch.
LEMMA StepType ==
  ASSUME TypeInv, NEW r \in Runs, Step(r) \/ OpenByHand(r) \/ Merge(r)
  PROVE  TypeInv'
<1> USE DEF TypeInv, TypeOK, IndexedBranches, Goto, Phases, PrStates
<1>0. cfg[r] \in ConfigType /\ Dir(r) \in Dirs /\ Count(r) \in Files
  BY ConfigOfRun
<1>1. CASE RejectVersion(r)
  BY <1>1 DEF RejectVersion, MayStart
<1>2. CASE Prepare(r)
  <2>1. LastIndex(PublishedIndexes(cfg[r].beta)) \in Indexes \union {NoIndex}
    BY <1>0, IndexSetsAreIndexes, LastIndexType DEF ConfigType
  <2> HIDE DEF Indexes
  <2>2. from' \in [Runs -> Indexes \union {NoIndex}]
    BY <1>2, <2>1 DEF Prepare, Latest
  <2>3. registry' \in [Images -> Runs \union {Nobody}]
    BY <1>2 DEF Prepare
  <2> QED
    BY <1>2, <2>2, <2>3 DEF Prepare, MayStart
<1>3. CASE CheckDestination(r)
  BY <1>3 DEF CheckDestination
<1>4. CASE Abort(r)
  BY <1>4 DEF Abort
<1>5. CASE UploadArtifact(r)
  <2>1. next' \in [Runs -> 1 .. MaxArtifacts + 1]
    BY <1>0, <1>5, MaxArtifactsAssumption DEF UploadArtifact
  <2>2. s3' \in [Dirs -> [Files -> Runs \union {Nobody}]]
    BY <1>0, <1>5 DEF UploadArtifact, Put
  <2> QED
    BY <1>5, <2>1, <2>2 DEF UploadArtifact
<1>6. CASE UploadStub(r)
  <2>1. s3' \in [Dirs -> [Files -> Runs \union {Nobody}]]
    BY <1>0, <1>6 DEF UploadStub, Put
  <2> QED
    BY <1>6, <2>1 DEF UploadStub
<1>7. CASE CloneUniverse(r)
  <2> DEFINE S == PackageIndexes(cfg[r].beta)
  <2>1. S \in SUBSET Indexes
    BY <1>0, IndexSetsAreIndexes DEF ConfigType
  <2>2. seen' = [seen EXCEPT ![r] = S]
    BY <1>7 DEF CloneUniverse
  <2> HIDE DEF S
  <2>3. CASE IndexTaken(S, cfg[r]) /\ Goto(r, "failed") /\ UNCHANGED <<prior, index>>
    BY <1>7, <2>1, <2>2, <2>3 DEF CloneUniverse
  <2>4. CASE /\ ~IndexTaken(S, cfg[r])
             /\ ThisIndex(S, cfg[r]) <= MaxIndex
             /\ Goto(r, "cloned")
             /\ index' = [index EXCEPT ![r] = ThisIndex(S, cfg[r])]
             /\ prior' = [prior EXCEPT ![r] = PriorIndex(S, cfg[r])]
    <3>1. ThisIndex(S, cfg[r]) \in Indexes
      BY <1>0, <2>1, <2>4, ThisIndexFits, MaxIndexAssumption
    <3>2. PriorIndex(S, cfg[r]) \in Indexes \union {NoIndex}
      BY <1>0, <2>1, <2>4, PriorIndexFits
    <3>3. ThisIndex(S, cfg[r]) # NoIndex
      BY <3>1, MaxIndexAssumption
    <3> HIDE DEF Indexes, NoIndex
    <3> QED
      BY <1>7, <2>1, <2>2, <2>4, <3>1, <3>2, <3>3 DEF CloneUniverse
  <2> QED
    BY <1>7, <2>3, <2>4 DEF CloneUniverse, S
<1>8. CASE PushBranch(r)
  BY <1>8 DEF PushBranch
<1>9. CASE CreatePullRequest(r)
  BY <1>9 DEF CreatePullRequest
<1>10. CASE Fail(r)
  BY <1>10 DEF Fail
<1>11. CASE OpenByHand(r)
  BY <1>11 DEF OpenByHand
<1>12. CASE Merge(r)
  BY <1>12 DEF Merge, runVars
<1> QED
  BY <1>1, <1>2, <1>3, <1>4, <1>5, <1>6, <1>7, <1>8, <1>9, <1>10, <1>11, <1>12
     DEF Step

LEMMA NextType == TypeInv /\ [Next]_vars => TypeInv'
<1> SUFFICES ASSUME TypeInv, [Next]_vars PROVE TypeInv'
  OBVIOUS
<1>1. ASSUME NEW r \in Runs, Step(r) \/ OpenByHand(r) \/ Merge(r)
      PROVE  TypeInv'
  BY <1>1, StepType
<1>2. CASE Publish
  BY <1>2 DEF Publish, runVars, TypeInv, TypeOK, IndexedBranches
<1>3. ASSUME NEW d \in Dirs, RemoveDirectory(d)
      PROVE  TypeInv'
  BY <1>3 DEF RemoveDirectory, runVars, TypeInv, TypeOK, IndexedBranches
<1>4. CASE UNCHANGED vars
  BY <1>4 DEF vars, TypeInv, TypeOK, IndexedBranches
<1> QED
  BY <1>1, <1>2, <1>3, <1>4 DEF Next

LEMMA InitType == Init => TypeInv
<1> SUFFICES ASSUME Init PROVE TypeInv
  OBVIOUS
<1>1. cfg \in [Runs -> ConfigType]
  BY WorkloadsAssumption DEF Init
<1> QED
  BY <1>1, MaxArtifactsAssumption, MaxIndexAssumption
     DEF Init, TypeInv, TypeOK, IndexedBranches, Phases, PrStates

\* Every variable keeps its type in every execution, whatever the runs, their
\* configurations and the failures; indexes stay in the range TLC explores.
THEOREM TypeCorrect == Spec => []TypeOK
<1> QED
  BY InitType, NextType, PTL DEF Spec, TypeInv

------------------------------------------------------------------------------
(* Announced packages are complete. *)

\* The run has passed its destination check and has not failed.
UnderWay(r) ==
  pc[r] \in {"uploading", "cloned", "pushed", "needs_pr", "unanswered", "done"}

\* The files a run that is under way has uploaded so far.
Uploaded(r) ==
  {f \in 1 .. MaxArtifacts : f < next[r]}
    \union (IF pc[r] = "done" /\ cfg[r].op = "move" THEN {0} ELSE {})

\* Only a complete set of artifacts leaves the upload loop, only releases clone
\* the Universe, and what was uploaded is still there while the run is under
\* way or once it has landed.
ProgressInv ==
  \A r \in Runs :
    /\ pc[r] \in {"idle", "prepared"} => next[r] = 1
    /\ pc[r] \in {"cloned", "pushed", "needs_pr", "unanswered", "done"} => Count(r) < next[r]
    /\ pc[r] \in {"cloned", "pushed", "needs_pr", "unanswered"} => cfg[r].op = "release"
    /\ UnderWay(r) /\ ~cfg[r].dry =>
         \A f \in Uploaded(r) : s3[Dir(r)][f] # Nobody

\* What the steps that leave the bucket alone do to the phase of a run.
QuietMove(r) ==
  \/ pc'[r] = pc[r]
  \/ pc[r] = "idle" /\ pc'[r] = "prepared"
  \/ pc[r] = "prepared" /\ pc'[r] = "uploading"
  \/ /\ pc[r] = "uploading" /\ pc'[r] = "cloned"
     /\ Count(r) < next[r] /\ cfg[r].op = "release"
  \/ pc[r] = "cloned" /\ pc'[r] = "pushed"
  \/ pc[r] = "pushed" /\ pc'[r] \in {"needs_pr", "unanswered", "done"}
  \/ pc[r] = "needs_pr" /\ pc'[r] = "done"
  \/ pc'[r] \in {"aborted", "refused", "failed"}

LEMMA ProgressKept ==
  ASSUME TypeOK, ProgressInv, UNCHANGED <<cfg, next, s3>>,
         \A r \in Runs : QuietMove(r)
  PROVE  ProgressInv'
<1> SUFFICES ASSUME NEW r \in Runs
             PROVE
    /\ pc'[r] \in {"idle", "prepared"} => next[r] = 1
    /\ pc'[r] \in {"cloned", "pushed", "needs_pr", "unanswered", "done"} => Count(r) < next[r]
    /\ pc'[r] \in {"cloned", "pushed", "needs_pr", "unanswered"} => cfg[r].op = "release"
    /\ UnderWay(r)' /\ ~cfg[r].dry =>
         \A f \in Uploaded(r)' : s3[Dir(r)][f] # Nobody
  BY DEF ProgressInv, Dir, Count
<1>1. Count(r) \in Nat /\ next[r] \in Nat
  BY ConfigOfRun, MaxArtifactsAssumption DEF TypeOK
<1>2. /\ pc'[r] \in {"idle", "prepared"} => next[r] = 1
      /\ pc'[r] \in {"cloned", "pushed", "needs_pr", "unanswered", "done"} => Count(r) < next[r]
      /\ pc'[r] \in {"cloned", "pushed", "needs_pr", "unanswered"} => cfg[r].op = "release"
  BY DEF ProgressInv, QuietMove
<1>3. ASSUME UnderWay(r)', ~cfg[r].dry
      PROVE  \A f \in Uploaded(r)' : s3[Dir(r)][f] # Nobody
  <2>1. CASE UnderWay(r)
    <3>1. Uploaded(r)' = Uploaded(r)
      BY <1>3, <2>1 DEF QuietMove, ProgressInv, UnderWay, Uploaded
    <3> QED BY <1>3, <2>1, <3>1 DEF ProgressInv
  <2>2. CASE ~UnderWay(r)
    <3>1. pc'[r] = "uploading" /\ next[r] = 1
      BY <1>3, <2>2 DEF QuietMove, ProgressInv, UnderWay
    <3>2. Uploaded(r)' = {}
      BY <3>1 DEF Uploaded
    <3> QED BY <3>2
  <2> QED BY <2>1, <2>2
<1> QED
  BY <1>2, <1>3

LEMMA StepProgress ==
  ASSUME TypeOK, ProgressInv,
         NEW r \in Runs, Step(r) \/ OpenByHand(r) \/ Merge(r)
  PROVE  ProgressInv'
<1>0. /\ pc \in [Runs -> Phases] /\ next \in [Runs -> 1 .. MaxArtifacts + 1]
      /\ s3 \in [Dirs -> [Files -> Runs \union {Nobody}]]
      /\ cfg \in [Runs -> ConfigType]
      /\ Dir(r) \in Dirs /\ Count(r) \in Files
  BY ConfigOfRun DEF TypeOK
<1> USE DEF Goto
<1>1. CASE RejectVersion(r)
  BY <1>0, <1>1, ProgressKept DEF RejectVersion, QuietMove
<1>2. CASE Prepare(r)
  BY <1>0, <1>2, ProgressKept DEF Prepare, MayStart, QuietMove
<1>3. CASE CheckDestination(r)
  BY <1>0, <1>3, ProgressKept DEF CheckDestination, QuietMove
<1>4. CASE Abort(r)
  BY <1>0, <1>4, ProgressKept DEF Abort, QuietMove
<1>7. CASE CloneUniverse(r)
  <2>1. \A q \in Runs : QuietMove(q)
    BY <1>0, <1>7, MaxArtifactsAssumption DEF CloneUniverse, QuietMove
  <2>2. UNCHANGED <<cfg, next, s3>>
    BY <1>7 DEF CloneUniverse
  <2> QED BY <2>1, <2>2, ProgressKept
<1>8. CASE PushBranch(r)
  BY <1>0, <1>8, ProgressKept DEF PushBranch, QuietMove
<1>9. CASE CreatePullRequest(r)
  BY <1>0, <1>9, ProgressKept DEF CreatePullRequest, QuietMove
<1>10. CASE Fail(r)
  BY <1>0, <1>10, ProgressKept DEF Fail, QuietMove
<1>11. CASE OpenByHand(r)
  BY <1>0, <1>11, ProgressKept DEF OpenByHand, QuietMove
<1>12. CASE Merge(r)
  BY <1>0, <1>12, ProgressKept DEF Merge, runVars, QuietMove
<1>5. CASE UploadArtifact(r)
  <2>1. /\ next' = [next EXCEPT ![r] = @ + 1] /\ UNCHANGED <<cfg, pc>>
        /\ pc[r] = "uploading" /\ next[r] <= Count(r) /\ next[r] \in Files
        /\ s3' = IF cfg[r].dry THEN s3 ELSE [s3 EXCEPT ![Dir(r)][next[r]] = r]
    BY <1>0, <1>5, MaxArtifactsAssumption DEF UploadArtifact, Put
  <2>2. ASSUME NEW q \in Runs, UnderWay(q), ~cfg[q].dry, NEW f \in Uploaded(q)'
        PROVE  s3'[Dir(q)][f] # Nobody
    <3>0. Dir(q) \in Dirs
      BY ConfigOfRun
    <3>1. CASE f \in Uploaded(q)
      BY <1>0, <2>1, <2>2, <3>0, <3>1, NobodyAssumption DEF ProgressInv
    <3>2. CASE f \notin Uploaded(q)
      <4>1. q = r /\ f = next[r]
        BY <1>0, <2>1, <2>2, <3>2, MaxArtifactsAssumption DEF Uploaded
      <4> QED
        BY <1>0, <2>1, <2>2, <3>0, <4>1, NobodyAssumption
    <3> QED BY <3>1, <3>2
  <2>3. \A q \in Runs :
          /\ pc'[q] \in {"idle", "prepared"} => next'[q] = 1
          /\ pc'[q] \in {"cloned", "pushed", "needs_pr", "unanswered", "done"} => Count(q) < next'[q]
          /\ pc'[q] \in {"cloned", "pushed", "needs_pr", "unanswered"} => cfg[q].op = "release"
    BY <1>0, <2>1 DEF ProgressInv
  <2> QED
    BY <2>1, <2>2, <2>3 DEF ProgressInv, Dir, Count, UnderWay
<1>6. CASE UploadStub(r)
  <2>1. /\ pc' = [pc EXCEPT ![r] = "done"] /\ UNCHANGED <<cfg, next>>
        /\ pc[r] = "uploading" /\ Count(r) < next[r] /\ 0 \in Files
        /\ s3' = IF cfg[r].dry THEN s3 ELSE [s3 EXCEPT ![Dir(r)][0] = r]
    BY <1>0, <1>6, MaxArtifactsAssumption DEF UploadStub, Put
  <2>2. ASSUME NEW q \in Runs, UnderWay(q)', ~cfg[q].dry, NEW f \in Uploaded(q)'
        PROVE  s3'[Dir(q)][f] # Nobody
    <3>0. Dir(q) \in Dirs
      BY ConfigOfRun
    <3>1. CASE UnderWay(q) /\ f \in Uploaded(q)
      BY <1>0, <2>1, <2>2, <3>0, <3>1, NobodyAssumption DEF ProgressInv
    <3>2. CASE ~(UnderWay(q) /\ f \in Uploaded(q))
      <4>1. q = r /\ f = 0
        BY <1>0, <2>1, <2>2, <3>2 DEF Uploaded, UnderWay
      <4> QED
        BY <1>0, <2>1, <2>2, <3>0, <4>1, NobodyAssumption
    <3> QED BY <3>1, <3>2
  <2>3. \A q \in Runs :
          /\ pc'[q] \in {"idle", "prepared"} => next'[q] = 1
          /\ pc'[q] \in {"cloned", "pushed", "needs_pr", "unanswered", "done"} => Count(q) < next'[q]
          /\ pc'[q] \in {"cloned", "pushed", "needs_pr", "unanswered"} => cfg[q].op = "release"
    BY <1>0, <2>1 DEF ProgressInv
  <2> QED
    BY <2>1, <2>2, <2>3 DEF ProgressInv, Dir, Count
<1> QED
  BY <1>1, <1>2, <1>3, <1>4, <1>5, <1>6, <1>7, <1>8, <1>9, <1>10, <1>11, <1>12
     DEF Step

LEMMA NextProgress == TypeOK /\ ProgressInv /\ [Next]_vars => ProgressInv'
<1> SUFFICES ASSUME TypeOK, ProgressInv, [Next]_vars PROVE ProgressInv'
  OBVIOUS
<1>1. ASSUME NEW r \in Runs, Step(r) \/ OpenByHand(r) \/ Merge(r)
      PROVE  ProgressInv'
  BY <1>1, StepProgress
<1>2. CASE Publish
  BY <1>2, ProgressKept DEF Publish, runVars, QuietMove
<1>3. ASSUME NEW d \in Dirs, RemoveDirectory(d)
      PROVE  ProgressInv'
  <2>1. ASSUME NEW r \in Runs, UnderWay(r), ~cfg[r].dry
        PROVE  s3'[Dir(r)] = s3[Dir(r)]
    <3>1. Active(r) \/ Landed(r)
      BY <2>1 DEF UnderWay, Active, Landed
    <3> QED
      BY <1>3, <3>1 DEF RemoveDirectory
  <2>2. UNCHANGED <<cfg, pc, next>>
    BY <1>3 DEF RemoveDirectory, runVars
  <2>3. \A r \in Runs : /\ Dir(r)' = Dir(r) /\ Count(r)' = Count(r)
                        /\ UnderWay(r)' = UnderWay(r)
                        /\ Uploaded(r)' = Uploaded(r)
    BY <2>2 DEF Dir, Count, UnderWay, Uploaded
  <2> QED
    BY <2>1, <2>2, <2>3 DEF ProgressInv
<1>4. CASE UNCHANGED vars
  BY <1>4, ProgressKept DEF vars, QuietMove
<1> QED
  BY <1>1, <1>2, <1>3, <1>4 DEF Next

\* An announced package has every one of its files in S3, however runs overlap,
\* fail, are forced or are cleaned up after.
THEOREM AnnouncedPackagesComplete == Spec => []AnnouncedComplete
<1>1. Init => ProgressInv
  BY DEF Init, ProgressInv, UnderWay
<1>2. TypeOK /\ ProgressInv => AnnouncedComplete
  <2> SUFFICES ASSUME TypeOK, ProgressInv, NEW r \in Runs, Landed(r),
                      NEW f \in FilesOf(r)
               PROVE  s3[Dir(r)][f] # Nobody
    BY DEF AnnouncedComplete
  <2>1. Count(r) \in 0 .. MaxArtifacts /\ next[r] \in Nat
    BY ConfigOfRun, MaxArtifactsAssumption DEF TypeOK
  <2>2. f \in Uploaded(r)
    BY <2>1, MaxArtifactsAssumption DEF FilesOf, Landed, Uploaded, ProgressInv
  <2> QED
    BY <2>2 DEF ProgressInv, UnderWay, Landed
<1> QED
  BY <1>1, <1>2, NextProgress, TypeCorrect, PTL DEF Spec

------------------------------------------------------------------------------
(* The index of a release. *)

\* What a run that chose an index knows of its clone.
ChosenInv ==
  \A r \in Runs :
    /\ pc[r] \in {"idle", "prepared", "uploading"} => index[r] = NoIndex
    /\ index[r] # NoIndex => /\ ~IndexTaken(seen[r], cfg[r])
                             /\ index[r] = ThisIndex(seen[r], cfg[r])
                             /\ prior[r] = PriorIndex(seen[r], cfg[r])

\* Only the clone sets the index, the snapshot and the prior release.
LEMMA ChosenKept ==
  ASSUME TypeOK, ChosenInv, UNCHANGED <<cfg, seen, prior, index>>,
         \A r \in Runs : \/ pc'[r] = pc[r]
                         \/ pc[r] \in {"idle", "prepared"}
                         \/ pc'[r] \notin {"idle", "prepared", "uploading"}
  PROVE  ChosenInv'
BY DEF ChosenInv

LEMMA NextChosen == TypeOK /\ ChosenInv /\ [Next]_vars => ChosenInv'
<1> SUFFICES ASSUME TypeOK, ChosenInv, [Next]_vars PROVE ChosenInv'
  OBVIOUS
<1>0. /\ pc \in [Runs -> Phases] /\ seen \in [Runs -> SUBSET Indexes]
      /\ index \in [Runs -> Indexes \union {NoIndex}]
      /\ prior \in [Runs -> Indexes \union {NoIndex}]
  BY DEF TypeOK
<1>1. ASSUME NEW r \in Runs, CloneUniverse(r)
      PROVE  ChosenInv'
  <2> DEFINE S == PackageIndexes(cfg[r].beta)
  <2>1. /\ seen' = [seen EXCEPT ![r] = S] /\ UNCHANGED cfg
        /\ pc[r] = "uploading" /\ index[r] = NoIndex
        /\ \/ /\ pc' = [pc EXCEPT ![r] = "failed"]
              /\ UNCHANGED <<prior, index>>
           \/ /\ ~IndexTaken(S, cfg[r])
              /\ pc' = [pc EXCEPT ![r] = "cloned"]
              /\ index' = [index EXCEPT ![r] = ThisIndex(S, cfg[r])]
              /\ prior' = [prior EXCEPT ![r] = PriorIndex(S, cfg[r])]
    BY <1>1 DEF CloneUniverse, ChosenInv, Goto
  <2> HIDE DEF S, NoIndex, Indexes
  <2>2. ASSUME NEW q \in Runs
        PROVE  /\ pc'[q] \in {"idle", "prepared", "uploading"} => index'[q] = NoIndex
               /\ index'[q] # NoIndex =>
                    /\ ~IndexTaken(seen'[q], cfg[q])
                    /\ index'[q] = ThisIndex(seen'[q], cfg[q])
                    /\ prior'[q] = PriorIndex(seen'[q], cfg[q])
    <3>1. CASE q # r
      BY <1>0, <2>1, <3>1 DEF ChosenInv
    <3>2. CASE q = r
      BY <1>0, <2>1, <3>2
    <3> QED BY <3>1, <3>2
  <2> QED
    BY <2>1, <2>2 DEF ChosenInv
<1>2. ASSUME NEW r \in Runs, Step(r) \/ OpenByHand(r) \/ Merge(r),
             ~CloneUniverse(r)
      PROVE  ChosenInv'
  <2>1. UNCHANGED <<cfg, seen, prior, index>>
    BY <1>2 DEF Step, RejectVersion, Prepare, CheckDestination, Abort,
      UploadArtifact, UploadStub, PushBranch, CreatePullRequest, Fail,
      OpenByHand, Merge, runVars
  <2>2. \A q \in Runs : \/ pc'[q] = pc[q]
                        \/ pc[q] \in {"idle", "prepared"}
                        \/ pc'[q] \notin {"idle", "prepared", "uploading"}
    BY <1>0, <1>2 DEF Step, RejectVersion, Prepare, CheckDestination, Abort,
      UploadArtifact, UploadStub, PushBranch, CreatePullRequest, Fail,
      OpenByHand, Merge, runVars, Goto, MayStart
  <2> QED BY <2>1, <2>2, ChosenKept
<1>3. CASE Publish \/ (\E d \in Dirs : RemoveDirectory(d)) \/ UNCHANGED vars
  BY <1>3, ChosenKept DEF Publish, RemoveDirectory, runVars, vars
<1> QED
  BY <1>1, <1>2, <1>3 DEF Next

\* For every content of the Universe, the directory a run adds was free in its
\* clone, above the releases there unless RELEASE_INDEX says otherwise, on the
\* grid that leaves room for hotfixes, and diffed against the closest release.
THEOREM IndexesFit == Spec => []IndexFitsClone
<1>1. Init => ChosenInv
  BY DEF Init, ChosenInv
<1>2. TypeOK /\ ChosenInv => IndexFitsClone
  <2> SUFFICES ASSUME TypeOK, ChosenInv, NEW r \in Runs, index[r] # NoIndex
               PROVE
        /\ index[r] \notin seen[r]
        /\ prior[r] < index[r]
        /\ \A i \in seen[r] : i > prior[r] => i > index[r]
        /\ prior[r] \in seen[r] \union {NoIndex}
        /\ cfg[r].index = NoIndex =>
             /\ \A i \in seen[r] : i < index[r]
             /\ ~cfg[r].beta => index[r] % GaMultiplier = 0
    BY DEF IndexFitsClone
  <2>1. cfg[r] \in ConfigType /\ seen[r] \in SUBSET Indexes
    BY ConfigOfRun DEF TypeOK
  <2>2. /\ ~IndexTaken(seen[r], cfg[r])
        /\ index[r] = ThisIndex(seen[r], cfg[r])
        /\ prior[r] = PriorIndex(seen[r], cfg[r])
    BY DEF ChosenInv
  <2> QED
    BY <2>1, <2>2, ThisIndexFits, PriorIndexFits
<1> QED
  BY <1>1, <1>2, NextChosen, TypeCorrect, PTL DEF Spec

------------------------------------------------------------------------------
(* The upgrade path of a release. *)

\* A pull request outlives its run: once it is open the run has ended, so that
\* no step of the run can take back what became of it.
RequestsInv ==
  \A r \in Runs : pr[r] \in {"open", "merged"} => pc[r] \in {"done", "unanswered"}

LEMMA NextRequests == TypeOK /\ RequestsInv /\ [Next]_vars => RequestsInv'
<1> SUFFICES ASSUME TypeOK, RequestsInv, [Next]_vars PROVE RequestsInv'
  OBVIOUS
<1>0. pc \in [Runs -> Phases] /\ pr \in [Runs -> PrStates]
  BY DEF TypeOK
<1>1. ASSUME NEW r \in Runs, PushBranch(r) \/ CreatePullRequest(r) \/ OpenByHand(r)
      PROVE  RequestsInv'
  BY <1>0, <1>1 DEF PushBranch, CreatePullRequest, OpenByHand, Goto, RequestsInv
<1>2. ASSUME NEW r \in Runs, Step(r), ~PushBranch(r), ~CreatePullRequest(r)
      PROVE  RequestsInv'
  BY <1>0, <1>2 DEF Step, RejectVersion, Prepare, CheckDestination, Abort,
     UploadArtifact, UploadStub, CloneUniverse, Fail, MayStart, Goto, RequestsInv
<1>3. ASSUME NEW r \in Runs, Merge(r)
      PROVE  RequestsInv'
  BY <1>0, <1>3 DEF Merge, runVars, RequestsInv
<1>4. CASE Publish \/ (\E d \in Dirs : RemoveDirectory(d)) \/ UNCHANGED vars
  BY <1>4 DEF Publish, RemoveDirectory, runVars, vars, RequestsInv
<1> QED
  BY <1>1, <1>2, <1>3, <1>4 DEF Next, Step

\* A release directory never leaves the Universe, whatever a step does.
LEMMA PackagesGrow ==
  ASSUME TypeOK, RequestsInv, [Next]_vars, NEW beta \in BOOLEAN
  PROVE  PackageIndexes(beta) \subseteq PackageIndexes(beta)'
<1>0. pr \in [Runs -> PrStates] /\ index \in [Runs -> Indexes \union {NoIndex}]
  BY DEF TypeOK
<1>1. ASSUME NEW q \in Runs, pr[q] = "merged"
      PROVE  pr'[q] = "merged" /\ index'[q] = index[q] /\ cfg'[q] = cfg[q]
  <2>0. pc[q] \in {"done", "unanswered"}
    BY <1>1 DEF RequestsInv
  <2>1. ASSUME NEW r \in Runs, Step(r) \/ OpenByHand(r)
        PROVE  pr'[q] = "merged" /\ index'[q] = index[q] /\ cfg'[q] = cfg[q]
    BY <1>0, <1>1, <2>0, <2>1 DEF Step, RejectVersion, Prepare, CheckDestination,
       Abort, UploadArtifact, UploadStub, CloneUniverse, PushBranch,
       CreatePullRequest, Fail, OpenByHand
  <2>2. ASSUME NEW r \in Runs, Merge(r)
        PROVE  pr'[q] = "merged" /\ index'[q] = index[q] /\ cfg'[q] = cfg[q]
    BY <1>0, <1>1, <2>2 DEF Merge, runVars
  <2>3. CASE Publish \/ (\E d \in Dirs : RemoveDirectory(d)) \/ UNCHANGED vars
    BY <1>1, <2>3 DEF Publish, RemoveDirectory, runVars, vars
  <2> QED
    BY <2>1, <2>2, <2>3 DEF Next
<1> QED
  BY <1>1 DEF Merged, PackageIndexes

\* Together with the other invariants, the property is inductive.
UpgradeInv == RequestsInv /\ UpgradeSourcePublished

LEMMA NextUpgrade ==
  TypeInv /\ ChosenInv /\ UpgradeInv /\ [Next]_vars => UpgradeSourcePublished'
<1> SUFFICES ASSUME TypeInv, ChosenInv, UpgradeInv, [Next]_vars,
                    NEW q \in Runs, from'[q] # NoIndex
             PROVE  /\ (from[q] \in PackageIndexes(cfg[q].beta))'
                    /\ index'[q] # NoIndex /\ cfg'[q].index = NoIndex
                         => from'[q] < index'[q]
  BY DEF UpgradeSourcePublished
<1>0. /\ TypeOK /\ RequestsInv /\ UpgradeSourcePublished
      /\ from \in [Runs -> Indexes \union {NoIndex}]
      /\ index \in [Runs -> Indexes \union {NoIndex}]
      /\ cfg[q] \in ConfigType /\ cfg[q].beta \in BOOLEAN
  BY ConfigOfRun DEF TypeInv, TypeOK, UpgradeInv
<1>1. UNCHANGED cfg
  BY DEF Next, Step, RejectVersion, Prepare, CheckDestination, Abort,
     UploadArtifact, UploadStub, CloneUniverse, PushBranch, CreatePullRequest,
     Fail, OpenByHand, Merge, Publish, RemoveDirectory, runVars, vars
<1>2. PICK b \in BOOLEAN : b = cfg[q].beta /\ b = cfg'[q].beta
  BY <1>0, <1>1
<1>3. /\ PackageIndexes(b) \subseteq PackageIndexes(b)'
      /\ PackageIndexes(cfg[q].beta) = PackageIndexes(b)
      /\ PackageIndexes(cfg[q].beta)' = PackageIndexes(b)'
  <2>1. PackageIndexes(b) \subseteq PackageIndexes(b)'
    BY <1>0, PackagesGrow
  <2> QED
    BY <1>2, <2>1 DEF PackageIndexes, Merged
<1>4. CASE from'[q] = from[q] /\ index'[q] = index[q]
  BY <1>0, <1>1, <1>3, <1>4 DEF UpgradeSourcePublished
<1>5. CASE Prepare(q)
  <2> DEFINE P == PublishedIndexes(cfg[q].beta)
  <2>1. P \in SUBSET Indexes /\ P \subseteq PackageIndexes(cfg[q].beta)
    BY <1>0, IndexSetsAreIndexes
  <2>2. from'[q] = LastIndex(P) /\ index'[q] = NoIndex
    BY <1>0, <1>5 DEF Prepare, MayStart, ChosenInv, Latest
  <2> HIDE DEF P
  <2>3. from'[q] \in PackageIndexes(b)
    BY <1>3, <2>1, <2>2, LastIndexType
  <2> QED
    BY <1>3, <2>2, <2>3
<1>6. CASE CloneUniverse(q)
  <2> DEFINE S == PackageIndexes(cfg[q].beta)
  <2>1. S \in SUBSET Indexes
    BY <1>0, IndexSetsAreIndexes
  <2>2. from'[q] = from[q] /\ from[q] \in S
    BY <1>0, <1>6 DEF CloneUniverse, UpgradeSourcePublished
  <2>3. \/ index'[q] = index[q]
        \/ ~IndexTaken(S, cfg[q]) /\ index'[q] = ThisIndex(S, cfg[q])
    BY <1>0, <1>6 DEF CloneUniverse
  <2> HIDE DEF S
  <2>4. ~IndexTaken(S, cfg[q]) /\ cfg[q].index = NoIndex
          => from[q] < ThisIndex(S, cfg[q])
    BY <1>0, <2>1, <2>2, ThisIndexFits
  <2>5. CASE index'[q] = index[q]
    BY <1>4, <2>2, <2>5
  <2>6. CASE ~IndexTaken(S, cfg[q]) /\ index'[q] = ThisIndex(S, cfg[q])
    BY <1>1, <1>3, <2>2, <2>4, <2>6 DEF S
  <2> QED
    BY <2>3, <2>5, <2>6
<1>7. CASE ~Prepare(q) /\ ~CloneUniverse(q)
  <2>1. from'[q] = from[q] /\ index'[q] = index[q]
    BY <1>0, <1>7 DEF Next, Step, RejectVersion, Prepare, CheckDestination,
       Abort, UploadArtifact, UploadStub, CloneUniverse, PushBranch,
       CreatePullRequest, Fail, OpenByHand, Merge, Publish, RemoveDirectory,
       runVars, vars
  <2> QED
    BY <1>4, <2>1
<1> QED
  BY <1>5, <1>6, <1>7

\* upgradesFrom, read from the Universe server long before the index is chosen,
\* names a release of the package that is still there, and an older one than the
\* new release unless RELEASE_INDEX asks for another place, however many runs
\* merge in between.
THEOREM UpgradesFromReleases == Spec => []UpgradeSourcePublished
<1>1. Init => TypeInv /\ ChosenInv /\ UpgradeInv
  <2>1. Init => TypeInv
    BY InitType
  <2>2. Init => ChosenInv /\ UpgradeInv
    BY DEF Init, ChosenInv, UpgradeInv, RequestsInv, UpgradeSourcePublished
  <2> QED BY <2>1, <2>2
<1>2. TypeInv /\ ChosenInv /\ UpgradeInv /\ [Next]_vars
        => (TypeInv /\ ChosenInv /\ UpgradeInv)'
  BY NextType, NextChosen, NextRequests, NextUpgrade DEF TypeInv, UpgradeInv
<1>3. UpgradeInv => UpgradeSourcePublished
  BY DEF UpgradeInv
<1> QED
  BY <1>1, <1>2, <1>3, PTL DEF Spec

==============================================================================
