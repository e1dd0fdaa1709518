--------------------------- MODULE UniverseRelease ---------------------------
(***************************************************************************)
(* Runs of tools/release_builder.py: each run takes a built package (a     *)
(* stub universe and its artifacts), pushes a docker image, copies the     *)
(* artifacts to an S3 directory named after the version, and either pushes *)
(* a branch with a pull request against the Universe repository            *)
(* ("release") or uploads the rewritten stub universe beside the artifacts *)
(* ("move").  Runs share the S3 bucket, the docker registry, the Universe  *)
(* repository and the server that publishes it; nothing locks them.        *)
(*                                                                         *)
(* One service is modelled.  Its GA package is `foo', its beta package     *)
(* `beta-foo': the flag `beta' of a configuration selects the package.     *)
(***************************************************************************)
EXTENDS Integers, FiniteSets, FiniteSetsExt

CONSTANTS
  Runs,              \* runs of the tool; a retry is another run
  Workloads,         \* the command lines and environments runs may have
  Builds,            \* built packages, named by their stub universe URL
  Versions,          \* version numbers, without a "-beta" suffix
  Images,            \* values of RELEASE_DOCKER_IMAGE
  MaxArtifacts,      \* bound on the artifacts of a build
  ArtifactCount,     \* [Builds -> Files]: artifacts found in resource.json
  Existing,          \* [BOOLEAN -> SUBSET Indexes]: packages already there
  MaxIndex,          \* bound on Universe indexes
  Nobody             \* no run wrote this file

Dirs    == Versions \X BOOLEAN
Indexes == 0 .. MaxIndex
NoIndex == -1
NoImage == "no image"

ConfigType ==
  [op       : {"release", "move"},
   build    : Builds,
   version  : Versions,
   suffixed : BOOLEAN,           \* the version was typed with "-beta"
   beta     : BOOLEAN,           \* BETA
   force    : BOOLEAN,           \* FORCE_ARTIFACT_UPLOAD
   dry      : BOOLEAN,           \* DRY_RUN
   image    : Images \union {NoImage},
   index    : Indexes \union {NoIndex},   \* RELEASE_INDEX, -1 when unset
   waits    : BOOLEAN,           \* whoever starts it lets earlier runs end
   renames  : BOOLEAN]           \* BETA renames a package that restricts
                                 \* its upgrades, and UPGRADES_FROM is unset

\* Every file of an S3 directory: the stub universe is 0, artifacts follow.
Files == 0 .. MaxArtifacts

ASSUME WorkloadsAssumption  == Workloads \subseteq [Runs -> ConfigType]
ASSUME MaxArtifactsAssumption == MaxArtifacts \in Nat
ASSUME CountAssumption      == ArtifactCount \in [Builds -> Files]
ASSUME ExistingAssumption   == Existing \in [BOOLEAN -> SUBSET Indexes]
ASSUME MaxIndexAssumption   == MaxIndex \in Nat
ASSUME NobodyAssumption     == Nobody \notin Runs
ASSUME ImagesAssumption     == NoImage \notin Images

VARIABLES
  cfg,        \* configuration of each run
  pc,         \* where each run is
  next,       \* the artifact each run uploads next
  from,       \* index of the release written to upgradesFrom
  seen,       \* indexes of the package in the run's clone of the Universe
  prior,      \* last_index: the release the run diffs against
  index,      \* this_index: the directory the run adds
  pr,         \* the branch and pull request of each run on GitHub
  s3,         \* which run wrote each file of each release directory
  registry,   \* which run pushed each image
  site        \* runs whose package the Universe server publishes

runVars == <<cfg, pc, next, from, seen, prior, index>>
vars    == <<cfg, pc, next, from, seen, prior, index, pr, s3, registry, site>>

Phases == {"idle", "prepared", "uploading", "cloned", "pushed",
           "needs_pr", "unanswered", "done", "aborted", "refused", "failed"}
PrStates == {"none", "branch", "open", "merged"}

TypeOK ==
  /\ cfg \in [Runs -> ConfigType]
  /\ pc \in [Runs -> Phases]
  /\ next \in [Runs -> 1 .. MaxArtifacts + 1]
  /\ from \in [Runs -> Indexes \union {NoIndex}]
  /\ seen \in [Runs -> SUBSET Indexes]
  /\ prior \in [Runs -> Indexes \union {NoIndex}]
  /\ index \in [Runs -> Indexes \union {NoIndex}]
  /\ pr \in [Runs -> PrStates]
  /\ s3 \in [Dirs -> [Files -> Runs \union {Nobody}]]
  /\ registry \in [Images -> Runs \union {Nobody}]
  /\ site \in SUBSET Runs

------------------------------------------------------------------------------
(* Names and places. *)

\* The S3 directory of a run: assets of foo and beta-foo share a parent, and
\* the version carries "-beta" exactly when the run is a beta release.
Dir(r) == <<cfg[r].version, cfg[r].beta>>

Count(r) == ArtifactCount[cfg[r].build]

\* The files a run has to put in its directory before it may announce it.
FilesOf(r) ==
  (1 .. Count(r)) \union (IF cfg[r].op = "move" THEN {0} ELSE {})

Active(r) == pc[r] \in {"prepared", "uploading", "cloned", "pushed"}

\* The run told its operator that the package is out, or that only the pull
\* request is left to be opened by hand; or the pull request is there and the
\* answer was lost.
Landed(r) == pc[r] \in {"needs_pr", "unanswered", "done"} /\ ~cfg[r].dry

Merged(beta) == {r \in Runs : pr[r] = "merged" /\ cfg[r].beta = beta}

\* Directories of the package on the Universe's release branch.
PackageIndexes(beta) == Existing[beta] \union {index[r] : r \in Merged(beta)}

\* Directories of the package that the Universe server has published.
PublishedIndexes(beta) ==
  Existing[beta] \union {index[r] : r \in site \intersect Merged(beta)}

LastIndex(S) == IF S = {} THEN NoIndex ELSE Max(S)

\* What get_latest may answer: a request that fails counts as a server without
\* packages.
Latest(beta) == {LastIndex(PublishedIndexes(beta)), NoIndex}

------------------------------------------------------------------------------
(* _find_release_index *)

\* GA releases take the indexes 0, 100, 200, ..., beta releases 0, 1, 2, ...
GaMultiplier   == 100
BetaMultiplier == 1

IndexTaken(S, c) == c.index # NoIndex /\ c.index \in S

Multiplier(c) == IF c.beta THEN BetaMultiplier ELSE GaMultiplier

\* Mutant of ThisIndex: the first multiple is not stepped over.
ThisIndexReused(S, c) ==
  IF c.index # NoIndex THEN c.index
  ELSE IF S = {} THEN 0
  ELSE Multiplier(c) * (Max(S) \div Multiplier(c))

ThisIndex(S, c) ==
  IF c.index # NoIndex THEN c.index
  ELSE IF S = {} THEN 0
  ELSE Multiplier(c) * ((Max(S) \div Multiplier(c)) + 1)

PriorIndex(S, c) ==
  IF c.index # NoIndex THEN LastIndex({i \in S : i < c.index}) ELSE LastIndex(S)

------------------------------------------------------------------------------

Init ==
  /\ cfg \in Workloads
  /\ pc = [r \in Runs |-> "idle"]
  /\ next = [r \in Runs |-> 1]
  /\ from = [r \in Runs |-> NoIndex]
  /\ seen = [r \in Runs |-> {}]
  /\ prior = [r \in Runs |-> NoIndex]
  /\ index = [r \in Runs |-> NoIndex]
  /\ pr = [r \in Runs |-> "none"]
  /\ s3 = [d \in Dirs |-> [f \in Files |-> Nobody]]
  /\ registry = [i \in Images |-> Nobody]
  /\ site = {}

Goto(r, phase) == pc' = [pc EXCEPT ![r] = phase]

\* Write file f of the directory of r, unless the run is a dry run.
Put(r, f) == s3' = IF cfg[r].dry THEN s3 ELSE [s3 EXCEPT ![Dir(r)][f] = r]

\* The tool looks for no other run.  Whoever starts it (a CI job per package)
\* may wait for an earlier run on the same directory to end.
MayStart(r) ==
  /\ pc[r] = "idle"
  /\ cfg[r].waits => \A q \in Runs \ {r} : ~(Active(q) /\ Dir(q) = Dir(r))

\* apply_beta_version refuses a "-beta" version without BETA.
RejectVersion(r) ==
  /\ MayStart(r)
  /\ cfg[r].suffixed /\ ~cfg[r].beta
  /\ Goto(r, "aborted")
  /\ UNCHANGED <<cfg, next, from, seen, prior, index, pr, s3, registry, site>>

\* Mutant of Prepare: the upgrade path is read from the other package, as if
\* the name of the stub universe were not renamed before the look-up.
PrepareOtherPackage(r) ==
  /\ MayStart(r)
  /\ cfg[r].suffixed => cfg[r].beta
  /\ Goto(r, "prepared")
  /\ \E latest \in Latest(~cfg[r].beta) :
       from' = [from EXCEPT ![r] = IF cfg[r].renames THEN latest ELSE NoIndex]
  /\ registry' = IF cfg[r].dry \/ cfg[r].image = NoImage THEN registry
                 ELSE [registry EXCEPT ![cfg[r].image] = r]
  /\ UNCHANGED <<cfg, next, seen, prior, index, pr, s3, site>>

\* The run downloads the stub universe and rewrites it: the upgrade path comes
\* from what the Universe server answers now, if it does, and the docker image is
\* pulled, tagged and pushed under its release name.
Prepare(r) ==
  /\ MayStart(r)
  /\ cfg[r].suffixed => cfg[r].beta
  /\ Goto(r, "prepared")
  /\ \E latest \in Latest(cfg[r].beta) :
       from' = [from EXCEPT ![r] = IF cfg[r].renames THEN latest ELSE NoIndex]
  /\ registry' = IF cfg[r].dry \/ cfg[r].image = NoImage THEN registry
                 ELSE [registry EXCEPT ![cfg[r].image] = r]
  /\ UNCHANGED <<cfg, next, seen, prior, index, pr, s3, site>>

\* Mutants of Occupied: only the stub universe is looked for; the directory of
\* the other package is looked at.
OccupiedByStub(r) == ~cfg[r].dry /\ s3[Dir(r)][0] # Nobody

OccupiedOther(r) ==
  ~cfg[r].dry /\ \E f \in Files : s3[<<cfg[r].version, ~cfg[r].beta>>][f] # Nobody

\* `aws s3 ls' lists something; a dry run takes the directory for empty.
Occupied(r) ==
  ~cfg[r].dry /\ \E f \in Files : s3[Dir(r)][f] # Nobody

\* Mutant of CheckDestination: the listing is made and its answer ignored.
CheckDestinationIgnored(r) ==
  /\ pc[r] = "prepared"
  /\ Goto(r, "uploading")
  /\ UNCHANGED <<cfg, next, from, seen, prior, index, pr, s3, registry, site>>

CheckDestination(r) ==
  /\ pc[r] = "prepared"
  /\ Goto(r, IF Occupied(r) /\ ~cfg[r].force THEN "refused" ELSE "uploading")
  /\ UNCHANGED <<cfg, next, from, seen, prior, index, pr, s3, registry, site>>

\* `aws s3 ls' fails with a code above 256, or the run dies before it.
Abort(r) ==
  /\ pc[r] = "prepared"
  /\ Goto(r, "aborted")
  /\ UNCHANGED <<cfg, next, from, seen, prior, index, pr, s3, registry, site>>

\* Mutant of UploadArtifact: one file too many.
UploadArtifactPastEnd(r) ==
  /\ pc[r] = "uploading"
  /\ next[r] <= Count(r) + 1
  /\ Put(r, next[r])
  /\ next' = [next EXCEPT ![r] = @ + 1]
  /\ UNCHANGED <<cfg, pc, from, seen, prior, index, pr, registry, site>>

UploadArtifact(r) ==
  /\ pc[r] = "uploading"
  /\ next[r] <= Count(r)
  /\ Put(r, next[r])
  /\ next' = [next EXCEPT ![r] = @ + 1]
  /\ UNCHANGED <<cfg, pc, from, seen, prior, index, pr, registry, site>>

\* Mutant of UploadStub: the stub universe goes first.
UploadStubEarly(r) ==
  /\ pc[r] = "uploading"
  /\ cfg[r].op = "move"
  /\ Put(r, 0)
  /\ Goto(r, "done")
  /\ UNCHANGED <<cfg, next, from, seen, prior, index, pr, registry, site>>

\* move_package: the rewritten stub universe goes last.
UploadStub(r) ==
  /\ pc[r] = "uploading"
  /\ next[r] > Count(r)
  /\ cfg[r].op = "move"
  /\ Put(r, 0)
  /\ Goto(r, "done")
  /\ UNCHANGED <<cfg, next, from, seen, prior, index, pr, registry, site>>

\* git clone of the release branch, then the choice of the index.
CloneUniverse(r) ==
  /\ pc[r] = "uploading"
  /\ next[r] > Count(r)
  /\ cfg[r].op = "release"
  /\ LET S == PackageIndexes(cfg[r].beta)
     IN  /\ seen' = [seen EXCEPT ![r] = S]
         /\ \/ /\ IndexTaken(S, cfg[r])
               /\ Goto(r, "failed")
               /\ UNCHANGED <<prior, index>>
            \/ /\ ~IndexTaken(S, cfg[r])
               /\ ThisIndex(S, cfg[r]) <= MaxIndex
               /\ Goto(r, "cloned")
               /\ index' = [index EXCEPT ![r] = ThisIndex(S, cfg[r])]
               /\ prior' = [prior EXCEPT ![r] = PriorIndex(S, cfg[r])]
  /\ UNCHANGED <<cfg, next, from, pr, s3, registry, site>>

\* Commit and push: the branch name is random, so the push cannot collide.
PushBranch(r) ==
  /\ pc[r] = "cloned"
  /\ Goto(r, "pushed")
  /\ pr' = [pr EXCEPT ![r] = IF cfg[r].dry THEN "none" ELSE "branch"]
  /\ UNCHANGED <<cfg, next, from, seen, prior, index, s3, registry, site>>

\* POST /repos/.../pulls: accepted, answered with an error status (main returns
\* -1 and asks for a pull request by hand), or accepted and the answer lost, in
\* which case publish raises and the run reports that no PR was created.
CreatePullRequest(r) ==
  /\ pc[r] = "pushed"
  /\ \/ /\ cfg[r].dry
        /\ Goto(r, "done")
        /\ UNCHANGED pr
     \/ /\ ~cfg[r].dry
        /\ Goto(r, "done")
        /\ pr' = [pr EXCEPT ![r] = "open"]
     \/ /\ ~cfg[r].dry
        /\ Goto(r, "needs_pr")
        /\ UNCHANGED pr
     \/ /\ ~cfg[r].dry
        /\ Goto(r, "unanswered")
        /\ pr' = [pr EXCEPT ![r] = "open"]
  /\ UNCHANGED <<cfg, next, from, seen, prior, index, s3, registry, site>>

\* A download, an upload, the unpacking, git or the connection fails, or the
\* run is killed, once the destination check is behind it.
Fail(r) ==
  /\ pc[r] \in {"uploading", "cloned", "pushed"}
  /\ Goto(r, "failed")
  /\ UNCHANGED <<cfg, next, from, seen, prior, index, pr, s3, registry, site>>

------------------------------------------------------------------------------
(* The people and services around the tool. *)

OpenByHand(r) ==
  /\ pc[r] = "needs_pr"
  /\ Goto(r, "done")
  /\ pr' = [pr EXCEPT ![r] = "open"]
  /\ UNCHANGED <<cfg, next, from, seen, prior, index, s3, registry, site>>

\* GitHub refuses to merge a branch that adds a directory already there.
Merge(r) ==
  /\ pr[r] = "open"
  /\ index[r] \notin PackageIndexes(cfg[r].beta)
  /\ pr' = [pr EXCEPT ![r] = "merged"]
  /\ UNCHANGED <<runVars, s3, registry, site>>

\* The Universe server picks up what was merged, some time later.
Publish ==
  /\ site' = {r \in Runs : pr[r] = "merged"}
  /\ site' # site
  /\ UNCHANGED <<runVars, pr, s3, registry>>

\* The operator follows the error message of a failed run and deletes its
\* directory, having seen that no run uses it and no package was announced.
RemoveDirectory(d) ==
  /\ \E r \in Runs : pc[r] = "failed" /\ Dir(r) = d
  /\ \A r \in Runs : Dir(r) = d => ~Active(r) /\ ~Landed(r)
  /\ \E f \in Files : s3[d][f] # Nobody
  /\ s3' = [s3 EXCEPT ![d] = [f \in Files |-> Nobody]]
  /\ UNCHANGED <<runVars, pr, registry, site>>

Step(r) ==
  \/ RejectVersion(r) \/ Prepare(r) \/ CheckDestination(r) \/ Abort(r)
  \/ UploadArtifact(r) \/ UploadStub(r) \/ CloneUniverse(r)
  \/ PushBranch(r) \/ CreatePullRequest(r) \/ Fail(r)

Next ==
  \/ \E r \in Runs : Step(r) \/ OpenByHand(r) \/ Merge(r)
  \/ Publish
  \/ \E d \in Dirs : RemoveDirectory(d)

Spec == Init /\ [][Next]_vars

------------------------------------------------------------------------------
(* Properties. *)

\* Every announced package has all its files in S3: uploads end before the
\* branch or the stub universe appears (release_package, move_package), and no
\* run, failure, forced upload or clean-up takes a file away afterwards.
AnnouncedComplete ==
  \A r \in Runs : Landed(r) => \A f \in FilesOf(r) : s3[Dir(r)][f] # Nobody

\* Runs on one directory do not overlap.
Sequential == \A r \in Runs : cfg[r].waits

Intact(r) == \A f \in FilesOf(r) :
  \/ s3[Dir(r)][f] = r
  \/ s3[Dir(r)][f] # Nobody /\ cfg[s3[Dir(r)][f]].force

\* The files of an announced package are the ones its own run uploaded, or the
\* ones of a run that was forced (FORCE_ARTIFACT_UPLOAD): the destination check
\* protects a release from later runs, finished or failed, when runs on one
\* directory do not overlap.
ReleasedIntact == Sequential => \A r \in Runs : Landed(r) => Intact(r)

\* "to avoid automatically stomping on a previous release": the same of any
\* runs, for the tool says nothing of starting it only once at a time.
NeverStomped == \A r \in Runs : Landed(r) => Intact(r)

\* _find_release_index: the directory a run adds was absent from its clone; an
\* index it chose itself is above every release of the clone and, for a GA
\* release, leaves a gap of ga_index_multiplier for hotfixes; the release it
\* diffs against is the closest one below.
IndexFitsClone ==
  \A r \in Runs : index[r] # NoIndex =>
    /\ index[r] \notin seen[r]
    /\ prior[r] < index[r]
    /\ \A i \in seen[r] : i > prior[r] => i > index[r]
    /\ prior[r] \in seen[r] \union {NoIndex}
    /\ cfg[r].index = NoIndex =>
         /\ \A i \in seen[r] : i < index[r]
         /\ ~cfg[r].beta => index[r] % GaMultiplier = 0

\* upgradesFrom, read from the Universe server long before the package gets its
\* index, names a merged release of the same package, and one that the new
\* release really comes after unless RELEASE_INDEX asks for an older place.
UpgradeSourcePublished ==
  \A r \in Runs : from[r] # NoIndex =>
    /\ from[r] \in PackageIndexes(cfg[r].beta)
    /\ index[r] # NoIndex /\ cfg[r].index = NoIndex => from[r] < index[r]

\* A file that some run uploaded, whatever became of the run, is replaced only
\* by a forced run, when runs on one directory do not overlap.
NoStomp ==
  [][Sequential => \A d \in Dirs, f \in Files :
       s3[d][f] # Nobody /\ s3'[d][f] \notin {s3[d][f], Nobody}
         => cfg[s3'[d][f]].force]_vars

\* What the S3 bucket promises to readers when runs on one directory do not
\* overlap: a directory is announced once, and again only by a forced run.
Register == INSTANCE ReleaseRegister WITH
  forced    <- [r \in Runs |-> cfg[r].force],
  announced <- [d \in Dirs |-> {r \in Runs : Sequential /\ Landed(r) /\ Dir(r) = d}]

AnnouncedOnce == Register!Spec

=============================================================================
