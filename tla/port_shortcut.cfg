SPECIFICATION Spec
CONSTANTS
  Plain = {e1, e2}
  Identified = {}
  Checks = {k}
  Queries = {}
  MaxRemovals = 1
PROPERTY SkipsOnlyConnected
CHECK_DEADLOCK FALSE
