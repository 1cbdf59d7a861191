CONSTANTS
    Tab = {t1}
    Site = {s1, s2}
    Wallet = {x1, x2}
    Req = {r1, r2}
    Menu = {}
    Kind = {"connect", "connect_silent"}
    Env = {"navigate"}
    MaxLoad = 1
    NULL = NULL
SPECIFICATION Spec
PROPERTY WalletAsSelected
CHECK_DEADLOCK FALSE
