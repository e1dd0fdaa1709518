SPECIFICATION Spec
CONSTANTS
  Runs = {r1, r2, r3}
  Workloads <- MCWorkloads
  Builds = {"full", "thin", "bare"}
  Versions = {"v1"}
  Images = {"img"}
  MaxArtifacts = 2
  ArtifactCount <- MCCount
  Existing <- MCExisting
  MaxIndex = 400
  Nobody = Nobody
CHECK_DEADLOCK FALSE
SYMMETRY RunSymmetry
INVARIANTS
  TypeOK
  ReleasedIntact
  AnnouncedComplete
  IndexFitsClone
  UpgradeSourcePublished
PROPERTIES
  NoStomp
  AnnouncedOnce
