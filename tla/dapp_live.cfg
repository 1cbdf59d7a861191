CONSTANTS
    Tab = {t1, t2}
    Site = {s1}
    Wallet = {x1}
    Req = {r1, r2, r3}
    Menu = {}
    Kind = {"connect_silent", "data", "tx/cardano"}
    Env = {}
    MaxLoad = 0
    NULL = NULL
SPECIFICATION FairSpec
INVARIANT NothingStranded
PROPERTY Answered
CHECK_DEADLOCK FALSE
