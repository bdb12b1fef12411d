\* One fault: a lost connection is enough.
SPECIFICATION FairSpec
CONSTANTS
    d1 = d1
    d2 = d2
    t1 = t1
    t2 = t2
    None = None
    Device = {d1, d2}
    Tenant = {t1, t2}
    Registered <- OneOwned
    DefaultTenant = None
    MaxMessages = 1
    MaxFaults = 1
PROPERTY KeepsListening
CHECK_DEADLOCK FALSE
