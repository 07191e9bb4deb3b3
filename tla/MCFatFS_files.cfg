SPECIFICATION Spec
CONSTANTS
  h1 = h1
  h2 = h2
  Handles = {h1, h2}
  MaxSize = 10
  Setups <- Uses
  SS = 4
  SZDIRE = 2
INVARIANTS
  VolumeInv
  NoneLost
  FreeExact
  MirrorEqual
  Kept
  ReadsBack
  FullMeansFull
  FindsExactly
  ListsAll
PROPERTIES
  StoreSpec
