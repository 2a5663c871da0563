CONSTANTS
  Ranks <- MCRanks
  Objs <- MCObjs
  Policy = "lifo"
  Comp <- CompLess
  MaxItems = 3
  MaxMoves = 2
  NoObj = NoObj

SPECIFICATION Spec

INVARIANT EachItemOnce
INVARIANT NoStrandedWork

PROPERTY BarrierLeavesQueuesEmpty
PROPERTY BarrierCompletes
PROPERTY EveryItemHandled
INVARIANT NoDanglingThis
