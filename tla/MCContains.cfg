CONSTANTS
  Ranks <- MCRanks
  Values <- MCValues
  Owner <- MCOwner
  Query = "v1"
  MaxInserts = 2

SPECIFICATION Spec

INVARIANT ContainsSeesInserts

\* contains returns: the final state, with the result, has no successor.
CHECK_DEADLOCK FALSE
