\* VPN: three calls, one fault, one restart; RF scans: three users, two faults;
\* ingestion: three messages, two faults anywhere.
SPECIFICATION GatewaysSpec
CONSTANTS
    CommonName = {g1, g2}
    Call = {c1, c2, c3}
    Asker = {a1, a2, a3}
    NoName = NoName
    MaxVpnFaults = 1
    MaxRestarts = 1
    MaxScanFaults = 2
    MaxReturns = 1
    d1 = d1
    d2 = d2
    t1 = t1
    t2 = t2
    None = None
    Device = {d1, d2}
    Tenant = {t1, t2}
    Registered <- OneOwned
    DefaultTenant = None
    MaxMessages = 3
    MaxFaults = 2
INVARIANTS
    GatewayRecordsAgree
    EventBacked
    OneRow
    InOrder
PROPERTIES
    ScansSettle
    StoredThenPublished
CHECK_DEADLOCK FALSE
