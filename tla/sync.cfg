SPECIFICATION LiveSpec
CONSTANTS
  Txs = {1, 2}
  Spends <- TwoSpends
  AddrOf <- TwoAddrOf
  Before = {1}
  Pooled = {1, 2}
  K = 1
  MaxHeight = 3
  MaxForks = 2
  Refreshes = {r1, r2}
  Nobody = Nobody
  Gap = 1
  Chunk = 2
  SteadyScan = TRUE
INVARIANTS TypeOK UtxoRight SyncPointCovers
PROPERTIES FollowsOneChain RollbackAnswersRefusal RollbackUndoesReorganisation EventuallyInSync
