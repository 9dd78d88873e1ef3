CONSTANTS
    ap1 = ap1
    sw1 = sw1
    c1 = c1
    t1 = t1
    Devices = {ap1, sw1}
    Kinds = {"ap", "switch"}
    KindOf <- MCKindOf
    Horizon = 2
    Controllers = {c1}
    DevicesOf <- MCDevicesOf
    Tenants = {t1}
    DefaultTenant = t1
    FileOwner = FileOwner
    None = None
    Configs <- MCConfigs
    MaxCheck = 1
    MaxStep = 1
    Faults = {}
SPECIFICATION Spec
PROPERTIES
    MissingWasAnswered
