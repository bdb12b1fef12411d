\* One device, one rule, two messages, one fault on each side; beside them two
\* devices of one name, three endpoints, one message, one fault; and
\* two requests for members of two tenants, two faults; and
\* two requests and two applications in two networks, one fault; and
\* one device of two tenants, two bursts of frames, 27 hours, one failed run.
SPECIFICATION TrafficSpec
CONSTANTS
    d1 = d1
    t1 = t1
    t2 = t2
    r1 = r1
    a1 = a1
    None = None
    Device = {d1}
    Tenant = {t1, t2}
    Registered <- AllRegistered
    DefaultTenant = None
    MaxMessages = 2
    MaxFaults = 1
    Id = {r1}
    KindOf <- Kinds
    OwnerOf <- Owners
    ConditionOf <- Conditions
    Reading <- Low
    ReadingOf <- Readings
    Worker = {"rule-engine", "connector-worker", "connector-mcp-worker"}
    Admin = {a1}
    Password = {"p1"}
    PendingLimit = 2
    MaxServiceFaults = 1
    Gadget <- Namesakes
    MaxRows = 3
    MaxReports = 1
    MaxEndpointFaults = 1
    Request = {c1, c2}
    Email = {"one", "another"}
    Role = {"operator"}
    NetworkOf <- OneEach
    MaxMemberFaults = 2
    x1 = x1
    x2 = x2
    Network = {"default", "other"}
    Application = {x1, x2}
    User <- Users
    DefaultNetwork = "default"
    NetworkAtFirst <- Settled
    MaxAppFaults = 1
    Burst <- Bursts
    Gap = {6, 7, 20}
    MaxBursts = 2
    MaxTime = 27
    MaxDetectionFaults = 1
INVARIANTS
    CallsFollowFrames
    RecordsInPlace
PROPERTY ConsumersSpec
CHECK_DEADLOCK FALSE
