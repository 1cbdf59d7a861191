CONSTANTS
    Tab = {t1}
    Site = {s1}
    Wallet = {x1}
    Req = {r1, r2, r3}
    Menu = {m1}
    Kind = {"connect_silent", "data", "tx/cardano", "tx-reorg/cardano"}
    Env = {"navigate", "delete_wallet", "close_early", "reorg_fails"}
    MaxLoad = 1
    NULL = NULL
SPECIFICATION Spec
SYMMETRY Symmetry
INVARIANTS DbSignPromptKept SignedAsShown NoSelfWait
CHECK_DEADLOCK FALSE
