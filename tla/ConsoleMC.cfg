\* One page at a time, or two tabs: two of each thing, three clicks, two on the
\* pages with a timer, one fault.
SPECIFICATION ConsoleSpec
CONSTANTS
    None = None
    Waiting = Waiting
    MaxItems = 3
    MaxClicks = 3
    MaxPolledClicks = 2
    MaxFaults = 1
    MaxOthers = 1
    MaxChanges = 1
    MaxExpiries = 1
    CodecItem <- SomeItems
    Decoder = {"d1", "d2"}
    Profile = {"p1", "p2"}
    Meter = {"m1", "m2"}
    Typed = "typed"
    DataOf <- SomeData
    Entry <- SomeEntries
    ListItem = {1, 2}
    MatchOf <- SomeFilters
    Name = {"n1", "n2"}
    File = {"f1", "f2"}
    DevEui = {"e1"}
    Key = {"k1", "k2"}
    KeyAtStart = {None, "k1"}
    Builtin = {"b1", "b2"}
    Custom = {"n1", "n2"}
    Model = {"m1"}
    Mode = {"udp", "ovpn"}
    ModeAtStart = {"udp"}
    Tenant = {"x", "y"}
    User = {"u1", "u2"}
    Plan = {"p1", "p2", "p3"}
    First = "p1"
    Tab = {"a", "b"}
    Account = {"admin", "operator", "viewer"}
    Feature = {"agent", "fuota"}
    Admin = {"admin"}
    Writer = {"admin", "operator"}
    Home <- SomeHomes
    Bought <- SomePlans
INVARIANTS
    FramesReadBack
    FormsKeptApart
    CommandsAsMeant
    ListsAsTold
    DevicesAsShown
    TenantsAsSet
    TabsInPlace
PROPERTY ConsoleSettles
CHECK_DEADLOCK FALSE
