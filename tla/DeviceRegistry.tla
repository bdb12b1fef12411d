--------------------------- MODULE DeviceRegistry ---------------------------
(***************************************************************************)
(* The LoRaWAN devices of one tenant: registration, update and deletion    *)
(* (internal/handler/lorawan_write.go) in ChirpStack                       *)
(* (internal/chirpstack/client.go).  A registration is checked against the *)
(* plan in the tenant's row (licensing.go, checkDeviceQuota) and, by       *)
(* ChirpStack, against the limits of its tenant; TenantBilling says how    *)
(* these two come about, and here they change at any time.                 *)
(*                                                                         *)
(* A plan is the number of devices it allows.  The keys of a device are    *)
(* left out.                                                               *)
(***************************************************************************)
EXTENDS Naturals, FiniteSets

CONSTANTS
    Plan,
    Device,
    Far,          \* those in applications after the tenant's first hundred
    Reg,          \* the registrations at work
    Edit,         \* the updates at work
    None,
    MaxRegistryFaults  \* bound: calls to ChirpStack that fail or are not answered

VARIABLES
    plan,       \* the plan of the tenant's row
    cap,        \* the devices ChirpStack allows the tenant
    present,    \* the devices ChirpStack has
    off,        \* the devices that are disabled
    reg,        \* each registration: [at, device, plan]
    edit,       \* each update: [at, device, set, value]
    loose,      \* history: registrations that something came in between
    crossed,    \* history: updates that something came in between
    registryFaults

devices == <<present, off>>
calls == <<reg, edit>>
crossings == <<loose, crossed>>
registryVars == <<plan, cap, devices, calls, crossings, registryFaults>>

Free == [at |-> "idle", device |-> None, plan |-> 0]
Still == [at |-> "idle", device |-> None, set |-> None, value |-> FALSE]

RegistryInit ==
    /\ plan \in Plan /\ cap = plan
    /\ present = {} /\ off = {}
    /\ reg = [r \in Reg |-> Free] /\ edit = [u \in Edit |-> Still]
    /\ loose = {} /\ crossed = {} /\ registryFaults = 0

RegistryFault == registryFaults < MaxRegistryFaults /\ registryFaults' = registryFaults + 1
RegistryWell == UNCHANGED registryFaults

Registering == {r \in Reg : reg[r].at # "idle"}

Editing(d) == {u \in Edit : edit[u].at # "idle" /\ edit[u].device = d}

(* The row or the limits change (TenantBilling).                           *)
Bill ==
    /\ \/ plan' \in Plan \ {plan} /\ loose' = loose \cup Registering /\ UNCHANGED cap
       \/ cap' \in Plan \ {cap} /\ UNCHANGED <<plan, loose>>
    /\ UNCHANGED <<devices, calls, crossed, registryFaults>>

-----------------------------------------------------------------------------
(* createDevice *)

Step(r, from, to) == reg[r].at = from /\ reg' = [reg EXCEPT ![r].at = to]

Ends(r) == reg' = [reg EXCEPT ![r] = Free] /\ loose' = loose \ {r}

AskDevice(r) ==
    /\ reg[r].at = "idle"
    /\ \E d \in Device : reg' = [reg EXCEPT ![r].at = "plan", ![r].device = d]
    /\ UNCHANGED <<plan, cap, devices, edit, crossings, registryFaults>>

(* checkDeviceQuota reads the plan of the row, whatever the subscription   *)
(* is worth.  Too many uplinks in the month, or a failing query, refuse.   *)
ReadPlan(r) ==
    /\ reg[r].at = "plan"
    /\ \/ reg' = [reg EXCEPT ![r].at = "count", ![r].plan = plan] /\ loose' = loose \ {r}
       \/ Ends(r)
    /\ UNCHANGED <<plan, cap, devices, edit, crossed, registryFaults>>

(* Mutant: one device more than the plan allows.                           *)
AllowsOneMore(r, n) == n <= reg[r].plan

Allows(r, n) == n < reg[r].plan

Counted == present \ Far

(* ListDevices adds up the first hundred applications, without those that  *)
(* cannot be listed.                                                       *)
CountDevices(r) ==
    LET all == Cardinality(Counted) IN
    /\ reg[r].at = "count"
    /\ \/ Allows(r, all) /\ Step(r, "count", "create") /\ RegistryWell /\ UNCHANGED loose
       \/ ~Allows(r, all) /\ Ends(r) /\ RegistryWell
       \/ /\ \E n \in 0..all : Allows(r, n)
          /\ Step(r, "count", "create")
          /\ RegistryFault /\ loose' = loose \cup {r}
    /\ UNCHANGED <<plan, cap, devices, edit, crossed>>

(* ChirpStack makes the device, unless it has it or the tenant's limit is  *)
(* reached.                                                                *)
Makes(r) == reg[r].device \notin present /\ Cardinality(present) < cap

CreateDevice(r) ==
    LET d == reg[r].device IN
    /\ reg[r].at = "create"
    /\ \/ /\ Makes(r)
          /\ present' = present \cup {d}
          /\ crossed' = crossed \cup Editing(d)
          /\ \/ /\ Step(r, "create", "keys") /\ RegistryWell
                /\ loose' = loose \cup (Registering \ {r})
             \/ /\ reg' = [reg EXCEPT ![r] = Free] /\ RegistryFault
                /\ loose' = (loose \cup Registering) \ {r}
       \/ ~Makes(r) /\ Ends(r) /\ RegistryWell /\ UNCHANGED <<present, crossed>>
    /\ UNCHANGED <<plan, cap, off, edit>>

(* CreateDeviceKeys, whose failure the answer tells.                       *)
CreateKeys(r) ==
    /\ reg[r].at = "keys"
    /\ Ends(r)
    /\ RegistryWell \/ RegistryFault
    /\ UNCHANGED <<plan, cap, devices, edit, crossed>>

DeleteDevice(d) ==
    /\ d \in present
    /\ present' = present \ {d} /\ off' = off \ {d}
    /\ crossed' = crossed \cup Editing(d)
    /\ UNCHANGED <<plan, cap, calls, loose, registryFaults>>

-----------------------------------------------------------------------------
(* updateDevice *)

(* Mutant: what the request does not name is written as false.             *)
MergedBare(d, want) == want = TRUE

Merged(d, want) == IF want = None THEN d \in off ELSE want

(* The request names isDisabled or leaves it as it is; UpdateDevice reads  *)
(* the device and merges the two.                                          *)
ReadDevice(u) ==
    /\ edit[u].at = "idle"
    /\ \E d \in present, want \in {None, TRUE, FALSE} :
         edit' = [edit EXCEPT ![u] = [at |-> "write", device |-> d, set |-> want,
                                      value |-> Merged(d, want)]]
    /\ UNCHANGED <<plan, cap, devices, reg, crossings, registryFaults>>

(* It writes the whole device.                                             *)
WriteDevice(u) ==
    LET d == edit[u].device IN
    /\ edit[u].at = "write"
    /\ edit' = [edit EXCEPT ![u] = Still]
    /\ \/ /\ d \in present
          /\ off' = IF edit[u].value THEN off \cup {d} ELSE off \ {d}
          /\ crossed' = (crossed \cup Editing(d)) \ {u}
          /\ RegistryWell
       \/ d \notin present /\ crossed' = crossed \ {u} /\ RegistryWell /\ UNCHANGED off
       \/ RegistryFault /\ crossed' = crossed \ {u} /\ UNCHANGED off
    /\ UNCHANGED <<plan, cap, present, reg, loose>>

RegistryNext ==
    \/ Bill
    \/ \E r \in Reg :
         AskDevice(r) \/ ReadPlan(r) \/ CountDevices(r) \/ CreateDevice(r) \/ CreateKeys(r)
    \/ \E d \in Device : DeleteDevice(d)
    \/ \E u \in Edit : ReadDevice(u) \/ WriteDevice(u)

RegistrySpec == RegistryInit /\ [][RegistryNext]_registryVars

-----------------------------------------------------------------------------
(* Properties *)

RegistryTypeOK ==
    /\ plan \in Plan /\ cap \in Plan
    /\ present \subseteq Device /\ off \subseteq present
    /\ \A r \in Reg :
         /\ reg[r].at \in {"idle", "plan", "count", "create", "keys"}
         /\ reg[r].at # "idle" => reg[r].device \in Device
    /\ \A u \in Edit : edit[u] # Still => edit[u].device \in Device
    /\ loose \subseteq Registering
    /\ crossed \subseteq {u \in Edit : edit[u].at # "idle"}
    /\ registryFaults \in 0..MaxRegistryFaults

(* A registration adds a device only within the plan of the tenant's row,  *)
(* as far as devices are counted, unless another registration or a change  *)
(* of plan came in between, or an application could not be listed.         *)
QuotaKept ==
    [][\A d \in present' \ present :
         \E r \in Reg : reg[r].device = d
                     /\ (r \in loose \/ Cardinality(Counted') <= plan)]_registryVars

(* A device is disabled and enabled by a request that says so, never by    *)
(* one that changes its name - unless the two crossed.                     *)
DisabledByRequest ==
    [][\A d \in present \cap present' : (d \in off) # (d \in off') =>
         \E u \in Edit : edit[u].device = d
                      /\ (u \in crossed \/ edit[u].set = (d \in off'))]_registryVars
=============================================================================
