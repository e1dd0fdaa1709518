SPECIFICATION Spec
CONSTANTS
  Order <- MCOrder
  Kind <- MCKind
  Attributes <- MCAttributes
  MaxValue = 1
  MaxInFlight = 2
CHECK_DEADLOCK FALSE
INVARIANTS
  TypeOK
  NameAndTagsAgree
  OneSeries
  NeverAhead
PROPERTIES
  Converges
