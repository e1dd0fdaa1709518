SPECIFICATION Spec
CONSTANTS
  MaxServices = 2
  Workers = 2
  MaxAttempts = 2
  Strict = TRUE
CHECK_DEADLOCK FALSE
INVARIANTS
  AllRecorded
