SPECIFICATION Spec
CONSTANTS
  Runs = {r1, r2}
  Workloads <- RetryWorkloads
  Builds = {"full", "thin", "bare"}
  Versions = {"v1"}
  Images = {"img"}
  MaxArtifacts = 2
  ArtifactCount <- MCCount
  Existing <- MCExisting
  MaxIndex = 400
  Nobody = Nobody
CHECK_DEADLOCK FALSE
INVARIANTS
  NeverStomped
