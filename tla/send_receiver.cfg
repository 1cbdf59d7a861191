CONSTANTS
    Receiver = {c1, c2}
    Amount = {n1}
    MaxHash = 1
    MaxSlot = 0
    MaxCalls = 2
    Env = {"edit_receiver"}
    NULL = NULL
SPECIFICATION Spec
INVARIANT StaleFlagged
CHECK_DEADLOCK FALSE
