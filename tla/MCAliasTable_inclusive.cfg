CONSTANTS
  N = 2
  Ids = {x, y}
  MaxWeight = 2
  MaxLocalItems = 1
  PrefixScan = "inclusive"
  NoId = NoId
  MinTotal = 1
  NaN = NaN
  MaxSamples = 1

SPECIFICATION Spec

INVARIANT RanksBalanced

CHECK_DEADLOCK FALSE
