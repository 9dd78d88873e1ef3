SPECIFICATION Spec
CONSTANTS
    Browsers = {b1, b2}
    Accounts = {b1}
    Threads = {t1, t2}
    Tokens = {k1, k2}
    AuthRequired = FALSE
    None = None
SYMMETRY Symmetric
INVARIANTS
    OpsHaveOwner
    DisabledIsTrue
    LogoutIsFinal
    SharedWarmupRuns
