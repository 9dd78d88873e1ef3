SPECIFICATION Spec
CONSTANTS
    Emails = {admin, e1}
    Admin = admin
    NoEmail = NoEmail
    Subjects = {s1, s2}
    s1 = s1
    s2 = s2
    e1 = e1
    g1 = g1
    EmailOf <- MCEmailOf
    Groups = {g1}
    RoleOf <- MCRoleOf
    Threads = {t1, t2}
    MaxFailures = 1
    None = None
SYMMETRY Symmetric
INVARIANTS
    LockoutBounded
    LocalNeedsPassword
    DeactivatedStaysOut
    AuditIsTrue
PROPERTIES
    RowsKept
