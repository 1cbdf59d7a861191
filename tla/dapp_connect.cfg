CONSTANTS
    Tab = {t1, t2}
    Site = {s1, s2}
    Wallet = {x1}
    Req = {r1, r2, r3}
    Menu = {}
    Kind = {"connect", "connect_auth", "query"}
    Env = {"remove_site"}
    MaxLoad = 1
    NULL = NULL
SPECIFICATION Spec
SYMMETRY Symmetry
INVARIANTS TypeOK DbExclusive ConnectPromptKept
PROPERTY ConnectAnswerTrue
CHECK_DEADLOCK FALSE
