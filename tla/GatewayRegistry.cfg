SPECIFICATION Spec
CONSTANTS
    Gateway = {g1, g2}
    Tenant = {t1, t2}
    Outside = Outside
    None = None
    Request = {r1, r2, r3}
    MaxGateways = 1
    MaxFaults = 1
    MaxSuspends = 1
SYMMETRY Symmetry
INVARIANTS
    OwnersAgree
    QuotaHeld
PROPERTIES
    TakenWithLeave
CHECK_DEADLOCK FALSE
