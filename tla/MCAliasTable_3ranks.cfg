CONSTANTS
  N = 3
  Ids = {x, y}
  MaxWeight = 3
  MaxLocalItems = 1
  PrefixScan = "exclusive"
  NoId = NoId
  MinTotal = 1
  NaN = NaN
  MaxSamples = 1

SPECIFICATION FairSpec

INVARIANT WeightConserved
INVARIANT RanksBalanced
INVARIANT SamplingUnbiased

\* The constructor returns once every rank has built its table.
CHECK_DEADLOCK FALSE
PROPERTY ConstructorReturns
