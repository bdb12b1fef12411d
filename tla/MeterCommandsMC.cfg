\* Two devices of two tenants, ack events without payload, one fault; and one
\* device, commands one at a time, no faults.
SPECIFICATION CommandsSpec
CONSTANTS
    d1 = d1
    d2 = d2
    t1 = t1
    t2 = t2
    open = open
    close = close
    None = None
    Device = {d1, d2}
    Tenant = {t1, t2}
    Owner <- OneTenantPerDevice
    Payload = {open, close}
    AckHasPayload = FALSE
    MaxCommands = 3
    MaxEvents = 3
    MaxGeneric = 1
    MaxFaults = 1
    Single = d1
    FreePayload = open
    MaxFree = 2
INVARIANTS
    AckOneToOne
    SentReachedQueue
    NoForgottenCommand
    AttributedInTurn
PROPERTIES
    AcksDrain
    LedgerSpec
CHECK_DEADLOCK FALSE
