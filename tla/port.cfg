SPECIFICATION FairSpec
CONSTANTS
  Plain = {e}
  Identified = {i}
  Checks = {k}
  Queries = {q}
  MaxRemovals = 2
INVARIANTS TypeOK ApprovedOnce OwnAnswer NothingLost
PROPERTIES Answered LostWithPort
CHECK_DEADLOCK FALSE
