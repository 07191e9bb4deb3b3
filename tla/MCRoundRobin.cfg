SPECIFICATION RRSpec
CONSTANTS
  Lists = {ready}
  Items = {i1, i2, i3, i4}
  Values = {0}
  PORT_MAX_DELAY = 3
  None = None
  CountBound = 3
INVARIANT
  AtMostTwice
