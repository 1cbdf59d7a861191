CONSTANTS
    Arg = {a1, a2}
    Cached = TRUE
    MaxCalls = 3
    Env = {"invalidate", "reset", "cancel", "patch"}
    NULL = NULL
SPECIFICATION FairSpec
INVARIANTS TypeOK CacheKeyed ShownIsCurrent RestsWhenQuiet Reissued
PROPERTY Returns
CHECK_DEADLOCK FALSE
