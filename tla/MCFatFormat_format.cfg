SPECIFICATION Spec
CONSTANTS
  Drives <- Sizes
  Earlier <- Before
  Options <- Passed
INVARIANTS
  FormatInv
  MountsFormat
  RootCleared
  DefaultFits
PROPERTIES
  Ends
