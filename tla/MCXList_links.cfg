SPECIFICATION Spec
CONSTANTS
  Lists = {ready, delayed}
  Items = {i1, i2, i3}
  Values = {1, 2, 3}
  PORT_MAX_DELAY = 3
  None = None
SYMMETRY Symmetry
INVARIANTS
  TypeOK
  WellLinked
  SingleRing
  CountExact
PROPERTIES
  RotatingSpec
