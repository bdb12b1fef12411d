SPECIFICATION PlansBounded
CONSTANTS
    Sub = {s1, s2}
    Plan = {basic, pro}
    Starter = basic
    Hook = {h1, h2}
    None = None
    MaxEvents = 3
    MaxBillingFaults = 1
    Size = {1, 2}
    Device = {d1, d2, d3}
    Far = {d3}
    Reg = {r1, r2}
    Edit = {u1, u2}
    MaxRegistryFaults = 1
SYMMETRY PlansSymmetry
INVARIANTS
    SubscriptionInForce
PROPERTIES
    QuotaKept
    DisabledByRequest
CHECK_DEADLOCK FALSE
