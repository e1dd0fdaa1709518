SPECIFICATION Spec
CONSTANTS
  Order <- PlainOrder
  Kind <- PlainKind
  Attributes <- PlainAttributes
  MaxValue = 1
  MaxInFlight = 1
CHECK_DEADLOCK FALSE
PROPERTIES
  TagsAppear
