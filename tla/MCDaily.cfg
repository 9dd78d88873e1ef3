CONSTANTS
    sw1 = sw1
    c1 = c1
    t1 = t1
    t2 = t2
    Devices = {sw1}
    Kinds = {"switch"}
    KindOf <- MCKindOf
    Horizon = 2
    Controllers = {c1}
    DevicesOf <- MCDevicesOf
    Tenants = {t1, t2}
    DefaultTenant = t1
    FileOwner = FileOwner
    None = None
    Configs <- MCConfigs
    MaxCheck = 1
    MaxStep = 1
    Faults = {"db"}
SPECIFICATION Spec
INVARIANTS
    ReportOncePerDay
PROPERTIES
    OutageDetected
    ReportMarked
