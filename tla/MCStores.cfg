SPECIFICATION Spec
CONSTANTS
    p = p   f1 = f1   f2 = f2   d = d   v = v   s1 = s1   s2 = s2
    Names <- MCNames
    Fields <- MCFields
    Smtp = smtp
    Values <- MCValues
    Default = d
    Secrets <- MCSecrets
    OldProfiles <- MCOldProfiles
    OldConfig <- MCOldConfig
    Threads = {t1, t2}
    MaxRequests = 3
    MaxKeys = 2
    None = None
SYMMETRY Symmetric
INVARIANTS SecretKept ConfigKept LayoutKept
PROPERTIES BootKeepsRows
