SPECIFICATION Spec
CONSTANTS
  MaxCount = 2
  Requests <- MCRequests
  MaxRuns = 4
  MaxFaults = 3
INVARIANTS
  TypeOK
  OwnZookeeper
  FileComplete
  KeysMatch
  CleanedUp
CHECK_DEADLOCK FALSE
