\* One rank whose items all weigh zero: target_weight is 0 and the int
\* conversion of NaN is chosen among the outcomes of x86-64 and AArch64.
CONSTANTS
  N = 1
  Ids = {x, y}
  MaxWeight = 1
  MaxLocalItems = 2
  PrefixScan = "exclusive"
  NoId = NoId
  MinTotal = 0
  NaN = NaN
  MaxSamples = 1

SPECIFICATION Spec

INVARIANT ZeroTotalIsFatal

CHECK_DEADLOCK FALSE
