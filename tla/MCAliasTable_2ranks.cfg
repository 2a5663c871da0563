CONSTANTS
  N = 2
  Ids = {x, y}
  MaxWeight = 3
  MaxLocalItems = 2
  PrefixScan = "exclusive"
  NoId = NoId
  MinTotal = 1
  NaN = NaN
  MaxSamples = 1

SPECIFICATION FairSpec

INVARIANT WeightConserved
INVARIANT RanksBalanced
INVARIANT SamplingUnbiased

\* The constructor returns once every rank has built its table.
CHECK_DEADLOCK FALSE
PROPERTY ConstructorReturns
