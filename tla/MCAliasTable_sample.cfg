\* Two ranks, one item each, one async_sample call after construction.
CONSTANTS
  N = 2
  Ids = {x, y}
  MaxWeight = 1
  MaxLocalItems = 1
  PrefixScan = "exclusive"
  NoId = NoId
  MinTotal = 1
  NaN = NaN
  MaxSamples = 1

SPECIFICATION Spec

PROPERTY SampleSeesTable

CHECK_DEADLOCK FALSE
