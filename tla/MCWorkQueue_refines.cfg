\* The fifo instance, checked against the abstract pool of WorkQueueAbs.
CONSTANTS
  Ranks <- MCRanks
  Objs <- MCObjs
  Policy = "fifo"
  Comp <- CompLess
  MaxItems = 3
  MaxMoves = 2
  NoObj = NoObj

SPECIFICATION Spec

PROPERTY RefinesAbstract
