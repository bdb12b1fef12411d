\* One meter, three uplinks, two tenants, one synchronisation, one fault.
SPECIFICATION Spec
CONSTANTS
    t1 = t1
    t2 = t2
    d1 = d1
    None = None
    Device = {d1}
    Tenant = {t1, t2}
    Payload <- Payloads
    Gap <- Gaps
    SettingsOf <- Rows
    Default <- Defaults
    MaxFrames = 3
    MaxSyncs = 1
    MaxFaults = 1
INVARIANTS
    MeterIsTrue
    OneActiveEvent
PROPERTIES
    VerdictIsFinal
CHECK_DEADLOCK FALSE
