\* A rule and an MQTT connector, two events, one fault; two sessions until
\* the first event or service, then one.
SPECIFICATION OfficeSpec
CONSTANTS
    t1 = t1
    r1 = r1
    q1 = q1
    a1 = a1
    a2 = a2
    None = None
    Tenant = {t1}
    Id = {q1, r1}
    KindOf <- Kinds
    OwnerOf <- Owners
    ConditionOf <- Conditions
    Reading <- Readings
    Worker = {"rule-engine", "connector-worker"}
    Admin = {a1, a2}
    Password = {"p1", "p2"}
    PendingLimit = 2
    MaxEvents = 2
    MaxFaults = 1
INVARIANTS
    CallsAndLogAgree
PROPERTIES
    PasswordKept
    NoCallAfterOff
    DueIsCalled
CHECK_DEADLOCK FALSE
