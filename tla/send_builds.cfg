CONSTANTS
    Receiver = {c1}
    Amount = {n1, n2}
    MaxHash = 1
    MaxSlot = 1
    MaxCalls = 3
    Env = {"impatient", "fails"}
    NULL = NULL
SPECIFICATION FairSpec
INVARIANTS TypeOK FormSettles StaleFlaggedRegularly
PROPERTY Calculated
CHECK_DEADLOCK FALSE
