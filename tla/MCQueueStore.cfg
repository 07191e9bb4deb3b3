SPECIFICATION Spec
CONSTANTS
  Items = {a, b, c}
  NoItem = NoItem
  MaxLength = 4
INVARIANTS
  TypeOK
  RingConsistent
PROPERTY
  DequeSpec
CHECK_DEADLOCK FALSE
