\* Forced queries are answered within the life of a temporary key.
CONSTANTS
  Slot = {1, 2, 3, 4}
  MaxKeys = 2
  MaxTroubles = 3
  Prompt = TRUE
  NoKey = 0
  PermKey = PermKey
  NoQuery = NoQuery
SPECIFICATION Spec
\* The program stops when it has crashed, and when the bounds are reached and
\* the data centre is open there is nothing to do.
CHECK_DEADLOCK FALSE
INVARIANTS
  NeverAborts
  OpenMeansBound
PROPERTIES
  Opens
