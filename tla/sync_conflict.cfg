SPECIFICATION Spec
CONSTANTS
  Txs = {1, 2, 3, 4}
  Spends <- ConflictSpends
  AddrOf <- ConflictAddrOf
  Before = {1}
  Pooled = {}
  K = 2
  MaxHeight = 5
  MaxForks = 2
  Refreshes = {r1}
  Nobody = Nobody
  Gap = 1
  Chunk = 4
  SteadyScan = TRUE
INVARIANT UtxoRightAlways
CHECK_DEADLOCK FALSE
