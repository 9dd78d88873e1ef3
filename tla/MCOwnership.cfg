SPECIFICATION Spec
CONSTANTS
    Browsers = {b1, b2}
    Accounts = {b1}
    Threads = {t1, t2}
    Tokens = {k1, k2}
    AuthRequired = TRUE
    None = None
SYMMETRY Symmetric
INVARIANTS
    ConnectionsAreOwned
