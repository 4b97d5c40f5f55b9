SPECIFICATION Spec
CONSTANTS
  PriceMax = 100000000
  Sites <- MCSites
  Pages <- MCPages
INVARIANTS
  TypeOK
  MisreadIsFlagged
  TwoWitnesses
  ClearPageMayAlert
PROPERTY
  StaysReadable
CHECK_DEADLOCK FALSE
