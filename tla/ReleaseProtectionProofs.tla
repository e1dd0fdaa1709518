----------------------- MODULE ReleaseProtectionProofs -----------------------
(***************************************************************************)
(* What the destination check of _copy_artifacts_s3 is worth when runs on  *)
(* one directory do not overlap: releases stay intact, nothing is stomped, *)
(* and the bucket implements ReleaseRegister.  (TLC shows that each of the *)
(* three fails when runs may overlap.)                                     *)
(***************************************************************************)
EXTENDS UniverseReleaseProofs

USE DEF Files, Dirs

OwnOrForced(r, f) ==
  \/ s3[Dir(r)][f] = r
  \/ s3[Dir(r)][f] # Nobody /\ cfg[s3[Dir(r)][f]].force

\* One run at a time works on a directory; an unforced run past the check sees
\* only its own files there; what a run uploaded is still its own, or was
\* replaced by a forced run.
ProtectInv ==
  /\ \A r, q \in Runs : Active(r) /\ Active(q) /\ Dir(r) = Dir(q) => r = q
  /\ \A r \in Runs :
       pc[r] \in {"uploading", "cloned", "pushed"} /\ ~cfg[r].dry /\ ~cfg[r].force
         => \A f \in Files : s3[Dir(r)][f] \in {Nobody, r}
  /\ \A r \in Runs :
       UnderWay(r) /\ ~cfg[r].dry => \A f \in Uploaded(r) : OwnOrForced(r, f)

Inv == TypeOK /\ ProgressInv /\ ProtectInv

LEMMA QuietUploads ==
  ASSUME TypeOK, ProgressInv, UNCHANGED <<cfg, next>>,
         NEW r \in Runs, QuietMove(r), UnderWay(r)'
  PROVE  \/ Uploaded(r)' = {}
         \/ UnderWay(r) /\ Uploaded(r)' = Uploaded(r)
<1>1. CASE UnderWay(r)
  BY <1>1 DEF QuietMove, ProgressInv, UnderWay, Uploaded
<1>2. CASE ~UnderWay(r)
  <2>1. pc'[r] = "uploading" /\ next[r] = 1
    BY <1>2 DEF QuietMove, ProgressInv, UnderWay
  <2> QED BY <2>1 DEF Uploaded
<1> QED BY <1>1, <1>2

\* Steps that leave the bucket alone, apart from starting a run and checking
\* its destination, keep the directories protected.
LEMMA ProtectKept ==
  ASSUME Inv, UNCHANGED <<cfg, next, s3>>,
         \A r \in Runs :
           /\ QuietMove(r)
           /\ Active(r)' => Active(r)
           /\ pc'[r] = "uploading" => pc[r] = "uploading"
  PROVE  ProtectInv'
<1>1. \A r \in Runs : Dir(r)' = Dir(r)
  BY DEF Dir
<1>2. \A r, q \in Runs : Active(r)' /\ Active(q)' /\ Dir(r)' = Dir(q)' => r = q
  BY <1>1 DEF Inv, ProtectInv
<1>3. ASSUME NEW r \in Runs, pc'[r] \in {"uploading", "cloned", "pushed"},
             ~cfg[r].dry, ~cfg[r].force
      PROVE  \A f \in Files : s3[Dir(r)][f] \in {Nobody, r}
  <2>1. pc[r] \in {"uploading", "cloned", "pushed"}
    BY <1>3 DEF QuietMove
  <2> QED BY <1>3, <2>1 DEF Inv, ProtectInv
<1>4. ASSUME NEW r \in Runs, UnderWay(r)', ~cfg[r].dry, NEW f \in Uploaded(r)'
      PROVE  OwnOrForced(r, f)
  <2>1. UnderWay(r) /\ f \in Uploaded(r)
    BY <1>4, QuietUploads DEF Inv
  <2> QED BY <1>4, <2>1 DEF Inv, ProtectInv
<1> QED
  BY <1>1, <1>2, <1>3, <1>4 DEF ProtectInv, OwnOrForced

\* A run that starts finds no other run on its directory.
LEMMA PrepareProtects ==
  ASSUME Inv, Sequential, NEW r \in Runs, Prepare(r)
  PROVE  ProtectInv'
<1>1. /\ pc \in [Runs -> Phases] /\ pc' = [pc EXCEPT ![r] = "prepared"]
      /\ UNCHANGED <<cfg, next, s3>> /\ pc[r] = "idle"
      /\ \A q \in Runs \ {r} : ~(Active(q) /\ Dir(q) = Dir(r))
  BY DEF Prepare, MayStart, Sequential, Goto, Inv, TypeOK
<1>2. \A q \in Runs : /\ Dir(q)' = Dir(q)
                      /\ q # r => /\ Active(q)' = Active(q)
                                  /\ UnderWay(q)' = UnderWay(q)
                                  /\ Uploaded(q)' = Uploaded(q)
  BY <1>1 DEF Dir, Active, UnderWay, Uploaded
<1>3. pc'[r] = "prepared" /\ ~UnderWay(r)'
  BY <1>1 DEF UnderWay
<1>4. \A q, p \in Runs : Active(q)' /\ Active(p)' /\ Dir(q)' = Dir(p)' => q = p
  BY <1>1, <1>2 DEF Inv, ProtectInv
<1>5. ASSUME NEW q \in Runs, pc'[q] \in {"uploading", "cloned", "pushed"},
             ~cfg[q].dry, ~cfg[q].force
      PROVE  \A f \in Files : s3[Dir(q)][f] \in {Nobody, q}
  BY <1>1, <1>3, <1>5 DEF Inv, ProtectInv
<1>6. ASSUME NEW q \in Runs, UnderWay(q)', ~cfg[q].dry, NEW f \in Uploaded(q)'
      PROVE  OwnOrForced(q, f)
  BY <1>2, <1>3, <1>6 DEF Inv, ProtectInv
<1> QED
  BY <1>1, <1>2, <1>4, <1>5, <1>6 DEF ProtectInv, OwnOrForced

\* An unforced run that passes the check has found its directory empty.
LEMMA CheckProtects ==
  ASSUME Inv, NEW r \in Runs, CheckDestination(r)
  PROVE  ProtectInv'
<1>1. /\ pc \in [Runs -> Phases] /\ pc[r] = "prepared"
      /\ UNCHANGED <<cfg, next, s3>>
      /\ pc' = [pc EXCEPT ![r] = IF Occupied(r) /\ ~cfg[r].force
                                 THEN "refused" ELSE "uploading"]
  BY DEF CheckDestination, Goto, Inv, TypeOK
<1>2. \A q \in Runs : /\ Dir(q)' = Dir(q) /\ (Active(q)' => Active(q))
                      /\ QuietMove(q)
  BY <1>1 DEF Dir, Active, QuietMove
<1>4. \A q, p \in Runs : Active(q)' /\ Active(p)' /\ Dir(q)' = Dir(p)' => q = p
  BY <1>2 DEF Inv, ProtectInv
<1>5. ASSUME NEW q \in Runs, pc'[q] \in {"uploading", "cloned", "pushed"},
             ~cfg[q].dry, ~cfg[q].force
      PROVE  \A f \in Files : s3[Dir(q)][f] \in {Nobody, q}
  <2>1. CASE q = r
    BY <1>1, <1>5, <2>1 DEF Occupied
  <2>2. CASE q # r
    BY <1>1, <1>5, <2>2 DEF Inv, ProtectInv
  <2> QED BY <2>1, <2>2
<1>6. ASSUME NEW q \in Runs, UnderWay(q)', ~cfg[q].dry, NEW f \in Uploaded(q)'
      PROVE  OwnOrForced(q, f)
  <2>1. UnderWay(q) /\ f \in Uploaded(q)
    BY <1>1, <1>2, <1>6, QuietUploads DEF Inv
  <2> QED BY <1>6, <2>1 DEF Inv, ProtectInv
<1> QED
  BY <1>1, <1>2, <1>4, <1>5, <1>6 DEF ProtectInv, OwnOrForced

\* A run writes to its own directory only, where it is alone; it replaces
\* nobody's file unless it was forced.
LEMMA WriteProtects ==
  ASSUME Inv, NEW r \in Runs, pc[r] = "uploading", ~cfg[r].dry, NEW g \in Files,
         s3' = [s3 EXCEPT ![Dir(r)][g] = r], UNCHANGED cfg,
         \A q \in Runs : Active(q)' => Active(q),
         \A q \in Runs : pc'[q] = "uploading" => pc[q] = "uploading",
         pc'[r] \in {"uploading", "done"},
         \A q \in Runs \ {r} : pc'[q] = pc[q] /\ next'[q] = next[q],
         \A f \in Uploaded(r)' : f = g \/ f \in Uploaded(r)
  PROVE  ProtectInv'
<1>1. /\ s3 \in [Dirs -> [Files -> Runs \union {Nobody}]]
      /\ \A q \in Runs : Dir(q) \in Dirs /\ Dir(q)' = Dir(q)
  BY ConfigOfRun DEF Inv, TypeOK, Dir
<1>2. \A q \in Runs \ {r} : /\ UnderWay(q)' = UnderWay(q)
                            /\ Uploaded(q)' = Uploaded(q)
  BY DEF UnderWay, Uploaded
<1>3. \A q, p \in Runs : Active(q)' /\ Active(p)' /\ Dir(q)' = Dir(p)' => q = p
  BY <1>1 DEF Inv, ProtectInv
<1>4. ASSUME NEW q \in Runs, pc'[q] \in {"uploading", "cloned", "pushed"},
             ~cfg[q].dry, ~cfg[q].force
      PROVE  \A f \in Files : s3'[Dir(q)][f] \in {Nobody, q}
  <2>1. pc[q] \in {"uploading", "cloned", "pushed"}
    BY <1>4
  <2>2. \A f \in Files : s3[Dir(q)][f] \in {Nobody, q}
    BY <1>4, <2>1 DEF Inv, ProtectInv
  <2>3. CASE q = r
    BY <1>1, <2>2, <2>3
  <2>4. CASE q # r
    <3>1. Dir(q) # Dir(r)
      BY <2>1, <2>4 DEF Inv, ProtectInv, Active
    <3> QED BY <1>1, <2>2, <3>1
  <2> QED BY <2>3, <2>4
<1>5. ASSUME NEW q \in Runs, UnderWay(q)', ~cfg[q].dry, NEW f \in Uploaded(q)'
      PROVE  \/ s3'[Dir(q)][f] = q
             \/ s3'[Dir(q)][f] # Nobody /\ cfg[s3'[Dir(q)][f]].force
  <2>0. f \in Files
    <3>1. f \in 1 .. MaxArtifacts \/ f = 0
      BY <1>5 DEF Uploaded
    <3>2. CASE f = 0
      BY <3>2, MaxArtifactsAssumption
    <3>3. CASE f \in 1 .. MaxArtifacts
      BY <3>3, MaxArtifactsAssumption
    <3> QED BY <3>1, <3>2, <3>3
  <2>1. CASE q = r /\ f = g
    BY <1>1, <2>0, <2>1
  <2>2. CASE ~(q = r /\ f = g)
    <3>1. UnderWay(q) /\ f \in Uploaded(q)
      BY <1>2, <1>5, <2>2 DEF UnderWay
    <3>2. OwnOrForced(q, f)
      BY <1>5, <3>1 DEF Inv, ProtectInv
    <3>3. CASE Dir(q) = Dir(r) /\ f = g
      <4>1. s3'[Dir(q)][f] = r /\ r # Nobody
        BY <1>1, <2>0, <3>3, NobodyAssumption
      <4>2. CASE cfg[r].force
        BY <4>1, <4>2
      <4>3. CASE ~cfg[r].force
        <5>1. s3[Dir(q)][f] \in {Nobody, r}
          BY <2>0, <3>3, <4>3 DEF Inv, ProtectInv
        <5>2. s3[Dir(q)][f] = q
          BY <3>2, <4>3, <5>1, NobodyAssumption DEF OwnOrForced
        <5> QED BY <2>2, <3>3, <5>1, <5>2, NobodyAssumption
      <4> QED BY <4>2, <4>3
    <3>4. CASE ~(Dir(q) = Dir(r) /\ f = g)
      <4>1. s3'[Dir(q)][f] = s3[Dir(q)][f]
        BY <1>1, <2>0, <3>4
      <4> QED BY <3>2, <4>1 DEF OwnOrForced
    <3> QED BY <3>3, <3>4
  <2> QED BY <2>1, <2>2
<1> QED
  BY <1>1, <1>3, <1>4, <1>5 DEF ProtectInv, OwnOrForced

LEMMA NextProtects ==
  ASSUME Inv, Sequential, [Next]_vars
  PROVE  ProtectInv'
<1>0. /\ pc \in [Runs -> Phases] /\ next \in [Runs -> 1 .. MaxArtifacts + 1]
      /\ TypeOK
  BY DEF Inv, TypeOK
<1>1. ASSUME NEW r \in Runs, Prepare(r) \/ CheckDestination(r)
      PROVE  ProtectInv'
  BY <1>1, PrepareProtects, CheckProtects
<1>2. ASSUME NEW r \in Runs, UploadArtifact(r)
      PROVE  ProtectInv'
  <2>0. Count(r) \in Files
    BY <1>0, ConfigOfRun
  <2>1. /\ next' = [next EXCEPT ![r] = @ + 1] /\ UNCHANGED <<cfg, pc>>
        /\ pc[r] = "uploading" /\ next[r] <= Count(r)
        /\ s3' = IF cfg[r].dry THEN s3 ELSE [s3 EXCEPT ![Dir(r)][next[r]] = r]
    BY <1>2 DEF UploadArtifact, Put
  <2>5. next[r] \in Files
    BY <1>0, <2>0, <2>1, MaxArtifactsAssumption
  <2>2. \A f \in Uploaded(r)' : f = next[r] \/ f \in Uploaded(r)
    BY <1>0, <2>1, MaxArtifactsAssumption DEF Uploaded
  <2>3. CASE cfg[r].dry
    <3>1. \A q \in Runs : /\ Dir(q)' = Dir(q) /\ Active(q)' = Active(q)
                          /\ UnderWay(q)' = UnderWay(q)
                          /\ ~cfg[q].dry => Uploaded(q)' = Uploaded(q)
      BY <1>0, <2>1, <2>3 DEF Dir, Active, UnderWay, Uploaded
    <3> QED
      BY <2>1, <2>3, <3>1 DEF Inv, ProtectInv, OwnOrForced
  <2>4. CASE ~cfg[r].dry
    <3>1. \A q \in Runs : Active(q)' => Active(q)
      BY <2>1 DEF Active
    <3> QED
      BY <1>0, <2>1, <2>2, <2>4, <2>5, <3>1, WriteProtects
  <2> QED BY <2>3, <2>4
<1>3. ASSUME NEW r \in Runs, UploadStub(r)
      PROVE  ProtectInv'
  <2>1. /\ pc' = [pc EXCEPT ![r] = "done"] /\ UNCHANGED <<cfg, next>>
        /\ pc[r] = "uploading"
        /\ s3' = IF cfg[r].dry THEN s3 ELSE [s3 EXCEPT ![Dir(r)][0] = r]
    BY <1>3 DEF UploadStub, Put, Goto
  <2>5. 0 \in Files
    BY MaxArtifactsAssumption
  <2>2. \A q \in Runs : Active(q)' => Active(q)
    BY <1>0, <2>1 DEF Active
  <2>3. CASE cfg[r].dry
    <3>1. \A q \in Runs : /\ Dir(q)' = Dir(q)
                          /\ ~cfg[q].dry => /\ pc'[q] = pc[q]
                                            /\ UnderWay(q)' = UnderWay(q)
                                            /\ Uploaded(q)' = Uploaded(q)
      BY <1>0, <2>1, <2>3 DEF Dir, UnderWay, Uploaded
    <3> QED
      BY <2>1, <2>2, <2>3, <3>1 DEF Inv, ProtectInv, OwnOrForced
  <2>4. CASE ~cfg[r].dry
    <3>1. \A f \in Uploaded(r)' : f = 0 \/ f \in Uploaded(r)
      BY <2>1 DEF Uploaded
    <3>2. \A q \in Runs \ {r} : pc'[q] = pc[q] /\ next'[q] = next[q]
      BY <1>0, <2>1
    <3>3. pc'[r] = "done" /\ \A q \in Runs : pc'[q] = "uploading" => pc[q] = "uploading"
      BY <1>0, <2>1
    <3> QED
      BY <2>1, <2>2, <2>4, <2>5, <3>1, <3>2, <3>3, WriteProtects
  <2> QED BY <2>3, <2>4
<1>4. ASSUME NEW r \in Runs, CloneUniverse(r)
      PROVE  ProtectInv'
  <2>1. /\ UNCHANGED <<cfg, next, s3>> /\ pc[r] = "uploading"
        /\ Count(r) < next[r] /\ cfg[r].op = "release"
        /\ pc' = [pc EXCEPT ![r] = "cloned"] \/ pc' = [pc EXCEPT ![r] = "failed"]
    BY <1>0, <1>4, ConfigOfRun, MaxArtifactsAssumption DEF CloneUniverse, Goto
  <2>2. \A q \in Runs : /\ QuietMove(q) /\ (Active(q)' => Active(q))
                        /\ pc'[q] = "uploading" => pc[q] = "uploading"
    BY <1>0, <2>1 DEF QuietMove, Active
  <2> QED BY <2>1, <2>2, ProtectKept
<1>5. ASSUME NEW r \in Runs,
             \/ RejectVersion(r) \/ Abort(r) \/ PushBranch(r)
             \/ CreatePullRequest(r) \/ Fail(r) \/ OpenByHand(r) \/ Merge(r)
      PROVE  ProtectInv'
  <2>1. UNCHANGED <<cfg, next, s3>>
    BY <1>5 DEF RejectVersion, Abort, PushBranch, CreatePullRequest, Fail,
                OpenByHand, Merge, runVars
  <2>2. \A q \in Runs : /\ QuietMove(q) /\ (Active(q)' => Active(q))
                        /\ pc'[q] = "uploading" => pc[q] = "uploading"
    BY <1>0, <1>5 DEF RejectVersion, Abort, PushBranch, CreatePullRequest, Fail,
                OpenByHand, Merge, runVars, Goto, QuietMove, Active
  <2> QED BY <2>1, <2>2, ProtectKept
<1>6. ASSUME NEW d \in Dirs, RemoveDirectory(d)
      PROVE  ProtectInv'
  <2>1. UNCHANGED <<cfg, pc, next>>
    BY <1>6 DEF RemoveDirectory, runVars
  <2>2. \A r \in Runs : /\ Dir(r)' = Dir(r) /\ Dir(r) \in Dirs
                        /\ Active(r)' = Active(r)
                        /\ UnderWay(r)' = UnderWay(r)
                        /\ Uploaded(r)' = Uploaded(r)
    BY <1>0, <2>1, ConfigOfRun DEF Dir, Active, UnderWay, Uploaded
  <2>3. \A r \in Runs : (UnderWay(r) /\ ~cfg[r].dry) \/ Active(r) => Dir(r) # d
    BY <1>6 DEF RemoveDirectory, UnderWay, Active, Landed
  <2>4. \A e \in Dirs : e # d => s3'[e] = s3[e]
    BY <1>6 DEF RemoveDirectory
  <2> QED
    BY <2>1, <2>2, <2>3, <2>4 DEF Inv, ProtectInv, OwnOrForced, Active
<1>7. CASE Publish \/ UNCHANGED vars
  <2>1. UNCHANGED <<cfg, pc, next, s3>>
    BY <1>7 DEF Publish, runVars, vars
  <2> QED
    BY <2>1, ProtectKept DEF QuietMove, Active
<1> QED
  BY <1>1, <1>2, <1>3, <1>4, <1>5, <1>6, <1>7 DEF Next, Step

\* How runs are started does not change.
LEMMA ConfigsKept ==
  ASSUME [Next]_vars
  PROVE  UNCHANGED cfg /\ (Sequential' <=> Sequential)
<1>1. UNCHANGED cfg
  BY DEF Next, Step, RejectVersion, Prepare, CheckDestination, Abort,
     UploadArtifact, UploadStub, CloneUniverse, PushBranch, CreatePullRequest,
     Fail, OpenByHand, Merge, Publish, RemoveDirectory, runVars, vars
<1> QED
  BY <1>1 DEF Sequential

SequentialInv == Sequential => ProtectInv

\* The three inductive invariants together.
LEMMA InvHolds == Spec => [](Sequential => Inv)
<1>1. Init => ProgressInv /\ ProtectInv
  BY DEF Init, ProgressInv, ProtectInv, UnderWay, Active
<1>2. TypeOK /\ ProgressInv /\ [Next]_vars => ProgressInv'
  BY NextProgress
<1>3. TypeOK /\ ProgressInv /\ SequentialInv /\ [Next]_vars => SequentialInv'
  <2> SUFFICES ASSUME TypeOK, ProgressInv, SequentialInv, [Next]_vars, Sequential'
               PROVE  ProtectInv'
    BY DEF SequentialInv
  <2>1. Sequential /\ Inv
    BY ConfigsKept DEF SequentialInv, Inv
  <2> QED BY <2>1, NextProtects
<1>4. Init => SequentialInv
  BY <1>1 DEF SequentialInv
<1>5. TypeOK /\ ProgressInv /\ SequentialInv => (Sequential => Inv)
  BY DEF SequentialInv, Inv
<1> QED
  BY <1>1, <1>2, <1>3, <1>4, <1>5, TypeCorrect, PTL DEF Spec

\* What a landed run has to show for itself.
LEMMA LandedFiles ==
  ASSUME Inv, NEW r \in Runs, Landed(r), NEW f \in FilesOf(r)
  PROVE  f \in Files /\ OwnOrForced(r, f)
<1>1. Count(r) \in 0 .. MaxArtifacts /\ next[r] \in Nat
  BY ConfigOfRun, MaxArtifactsAssumption DEF Inv, TypeOK
<1>2. f \in Uploaded(r)
  BY <1>1, MaxArtifactsAssumption
     DEF FilesOf, Landed, Uploaded, ProgressInv, Inv
<1>3. f \in Files
  BY <1>1, MaxArtifactsAssumption DEF FilesOf
<1> QED
  BY <1>2, <1>3 DEF Inv, ProtectInv, UnderWay, Landed

\* The destination check protects every announced release, for any number of
\* runs that fail, retry, move or release, as long as runs on one directory do
\* not overlap.
THEOREM ReleasesStayIntact == Spec => []ReleasedIntact
<1>1. (Sequential => Inv) => ReleasedIntact
  BY LandedFiles DEF ReleasedIntact, Intact, OwnOrForced
<1> QED
  BY <1>1, InvHolds, PTL

\* Without overlap, only a forced run replaces a file in the bucket.
THEOREM NothingStomped == Spec => NoStomp
<1> DEFINE Stomp ==
      Sequential => \A d \in Dirs, f \in Files :
        s3[d][f] # Nobody /\ s3'[d][f] \notin {s3[d][f], Nobody}
          => cfg[s3'[d][f]].force
<1>1. (Sequential => Inv) /\ [Next]_vars => [Stomp]_vars
  <2> SUFFICES ASSUME Inv, Next, NEW d \in Dirs, NEW f \in Files,
                      s3[d][f] # Nobody, s3'[d][f] \notin {s3[d][f], Nobody}
               PROVE  cfg[s3'[d][f]].force
    OBVIOUS
  <2>0. s3 \in [Dirs -> [Files -> Runs \union {Nobody}]]
    BY DEF Inv, TypeOK
  <2>1. ASSUME NEW e \in Dirs, RemoveDirectory(e)
        PROVE  FALSE
    BY <2>0, <2>1 DEF RemoveDirectory
  <2>2. ASSUME NEW r \in Runs, NEW g, pc[r] = "uploading", Put(r, g)
        PROVE  cfg[s3'[d][f]].force
    <3>1. ~cfg[r].dry /\ d = Dir(r) /\ s3'[d][f] = r
      BY <2>0, <2>2 DEF Put
    <3>2. CASE ~cfg[r].force
      BY <2>2, <3>1, <3>2 DEF Inv, ProtectInv
    <3> QED BY <3>1, <3>2
  <2>3. ASSUME UNCHANGED s3
        PROVE  FALSE
    BY <2>3
  <2> QED
    BY <2>1, <2>2, <2>3 DEF Next, Step, RejectVersion, Prepare,
      CheckDestination, Abort, UploadArtifact, UploadStub, CloneUniverse,
      PushBranch, CreatePullRequest, Fail, OpenByHand, Merge, Publish
<1> QED
  BY <1>1, InvHolds, PTL DEF Spec, NoStomp

------------------------------------------------------------------------------
(* The bucket implements ReleaseRegister. *)

\* Every step either makes one run land or changes nothing of who has landed.
LEMMA LandingSteps ==
  ASSUME Inv, Next
  PROVE  /\ UNCHANGED cfg
         /\ \/ \A q \in Runs : Landed(q)' = Landed(q)
            \/ \E r \in Runs :
                 /\ pc[r] \in {"uploading", "pushed"} /\ ~cfg[r].dry
                 /\ Landed(r)' /\ FilesOf(r)' = FilesOf(r)
                 /\ \A q \in Runs \ {r} : Landed(q)' = Landed(q)
<1>0. pc \in [Runs -> Phases]
  BY DEF Inv, TypeOK
<1>1. ASSUME NEW r \in Runs, UploadStub(r) \/ CreatePullRequest(r)
      PROVE  /\ UNCHANGED cfg
             /\ pc[r] \in {"uploading", "pushed"}
             /\ \E p \in Phases : pc' = [pc EXCEPT ![r] = p]
  BY <1>1 DEF UploadStub, CreatePullRequest, Goto, Phases
<1>2. ASSUME NEW r \in Runs, Step(r) \/ OpenByHand(r) \/ Merge(r),
             ~UploadStub(r), ~CreatePullRequest(r)
      PROVE  UNCHANGED cfg /\ \A q \in Runs : Landed(q)' = Landed(q)
  BY <1>0, <1>2 DEF Step, RejectVersion, Prepare, CheckDestination, Abort,
      UploadArtifact, CloneUniverse, PushBranch, Fail, OpenByHand, Merge,
      MayStart, Goto, runVars, Landed
<1>3. ASSUME Publish \/ \E d \in Dirs : RemoveDirectory(d)
      PROVE  UNCHANGED cfg /\ \A q \in Runs : Landed(q)' = Landed(q)
  BY <1>3 DEF Publish, RemoveDirectory, runVars, Landed
<1>4. ASSUME NEW r \in Runs, UploadStub(r) \/ CreatePullRequest(r)
      PROVE  \/ \A q \in Runs : Landed(q)' = Landed(q)
             \/ /\ pc[r] \in {"uploading", "pushed"} /\ ~cfg[r].dry
                /\ Landed(r)' /\ FilesOf(r)' = FilesOf(r)
                /\ \A q \in Runs \ {r} : Landed(q)' = Landed(q)
  <2>1. \A q \in Runs \ {r} : Landed(q)' = Landed(q)
    BY <1>0, <1>1, <1>4 DEF Landed
  <2>2. ~Landed(r) /\ FilesOf(r)' = FilesOf(r)
    BY <1>1, <1>4 DEF Landed, FilesOf, Count
  <2>3. Landed(r)' => ~cfg[r].dry
    BY <1>1, <1>4 DEF Landed
  <2>4. CASE ~Landed(r)'
    <3>1. Landed(r)' = Landed(r)
      BY <2>2, <2>4 DEF Landed
    <3> QED BY <2>1, <3>1
  <2>5. CASE Landed(r)'
    BY <1>1, <1>4, <2>1, <2>2, <2>3, <2>5
  <2> QED BY <2>4, <2>5
<1> QED
  BY <1>1, <1>2, <1>3, <1>4 DEF Next

\* Without overlap, and when every build has an artifact, a directory is
\* announced once, and again only by a forced run: release_builder.py
\* implements the write-once register.
THEOREM ReleasesAreRegister ==
  ASSUME \A b \in Builds : ArtifactCount[b] > 0
  PROVE  Spec => AnnouncedOnce
<1> DEFINE F == [r \in Runs |-> cfg[r].force]
           A == [d \in Dirs |-> {r \in Runs : Sequential /\ Landed(r) /\ Dir(r) = d}]
<1>1. Init => Register!Init
  <2> SUFFICES ASSUME Init
               PROVE  F \in [Runs -> BOOLEAN] /\ A = [d \in Dirs |-> {}]
    BY DEF Register!Init
  <2>1. \A r \in Runs : cfg[r].force \in BOOLEAN /\ ~Landed(r)
    BY WorkloadsAssumption DEF Init, ConfigType, Landed
  <2> QED BY <2>1
<1>2. (Sequential => Inv) /\ [Next]_vars => [Register!Next]_(Register!registerVars)
  <2> SUFFICES ASSUME Sequential => Inv, [Next]_vars
               PROVE  Register!Next \/ UNCHANGED <<F, A>>
    BY DEF Register!registerVars
  <2>0. UNCHANGED cfg /\ (Sequential' <=> Sequential)
    BY ConfigsKept
  <2>1. CASE UNCHANGED cfg /\ \A q \in Runs : Landed(q)' = Landed(q)
    BY <2>0, <2>1 DEF Dir
  <2>5. CASE ~Sequential
    BY <2>0, <2>5
  <2>2. ASSUME Sequential, Inv, UNCHANGED cfg, NEW r \in Runs,
               pc[r] \in {"uploading", "pushed"}, ~cfg[r].dry,
               Landed(r)', FilesOf(r)' = FilesOf(r),
               \A q \in Runs \ {r} : Landed(q)' = Landed(q)
        PROVE  Register!Next
    <3>0. Dir(r) \in Dirs /\ \A q \in Runs : Dir(q)' = Dir(q)
      BY <2>2, ConfigOfRun DEF Inv, Dir
    <3>4. Sequential'
      BY <2>0, <2>2
    <3>1. A' = [A EXCEPT ![Dir(r)] = @ \union {r}]
      <4>1. \A d \in Dirs : A'[d] = IF d = Dir(r) THEN A[d] \union {r} ELSE A[d]
        BY <2>2, <3>0, <3>4
      <4> QED BY <3>0, <4>1
    <3>2. A[Dir(r)] = {} \/ F[r]
      <4> SUFFICES ASSUME NEW q \in Runs, Landed(q), Dir(q) = Dir(r),
                          ~cfg[r].force
                   PROVE  FALSE
        BY <3>0
      <4>1. q # r
        BY <2>2 DEF Landed
      <4>2. PICK f : f \in FilesOf(q)
        <5>1. Count(q) \in Nat /\ Count(q) > 0
          BY <2>2, ConfigOfRun, MaxArtifactsAssumption
             DEF Inv, TypeOK, ConfigType, Count
        <5> QED BY <5>1 DEF FilesOf
      <4>3. f \in Files /\ OwnOrForced(q, f)
        BY <2>2, <4>2, LandedFiles
      <4>4. s3[Dir(r)][f] \in {Nobody, r}
        BY <2>2, <4>3 DEF Inv, ProtectInv
      <4> QED
        BY <4>1, <4>3, <4>4, NobodyAssumption DEF OwnOrForced
    <3>3. F' = F
      BY <2>2
    <3> QED
      BY <3>0, <3>1, <3>2, <3>3 DEF Register!Next, Register!Announce
  <2>3. CASE Sequential /\ Next
    BY <2>1, <2>2, <2>3, LandingSteps
  <2>4. CASE UNCHANGED vars
    BY <2>1, <2>4 DEF vars, Landed
  <2> QED BY <2>3, <2>4, <2>5
<1> QED
  BY <1>1, <1>2, InvHolds, PTL DEF Spec, AnnouncedOnce, Register!Spec

==============================================================================
