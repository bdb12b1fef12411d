--------------------------- MODULE GatewayRegistry ---------------------------
(***************************************************************************)
(* Who owns a gateway (services/platform-api, internal/handler/            *)
(* lorawan_write.go and lorawan_guard.go).  The owner is written twice:    *)
(* the gateway's tenantId in ChirpStack, and the row of tenant_gateways.   *)
(* createGateway writes both, one after the other, and takes over a        *)
(* gateway that exists already when canReassignGateway allows it.          *)
(* ChirpStack has no partial update: Client.UpdateGateway reads the whole  *)
(* gateway, changes some fields and writes the whole of it back, tenantId  *)
(* included.                                                               *)
(*                                                                         *)
(* A tenant of the platform and its ChirpStack tenant have one name here.  *)
(***************************************************************************)
EXTENDS Integers, FiniteSets, TLC

CONSTANTS
    Gateway,      \* gateway ids
    Tenant,       \* rows of tenants, each with its own ChirpStack tenant
    Outside,      \* a ChirpStack tenant no row names
    None,
    Request,      \* the requests of the run
    MaxGateways,  \* plans.max_gateways
    MaxFaults,    \* bound: failed calls
    MaxSuspends   \* bound: changes of tenants.status

ASSUME NamesAreDistinct ==
    /\ None \notin Tenant /\ Outside \notin Tenant /\ None # Outside
ASSUME BoundsAreNaturals ==
    MaxGateways \in Nat /\ MaxFaults \in Nat /\ MaxSuspends \in Nat

VARIABLES
    lns,          \* tenantId of each gateway in ChirpStack, None when there is no such gateway
    mapping,      \* tenant_gateways: the row's tenant_id, or None
    suspended,    \* the tenants whose status is not 'active'
    pc,           \* where each request is
    op,           \* what it does
    gw, by,       \* its gateway, and the tenant it acts for
    admin,        \* whether its caller is a platform-admin
    seen,         \* the tenantId ensureGateway compared with its own
    held,         \* the tenantId Client.UpdateGateway read and will write back
    move,         \* whether its update carries a tenantId
    holders,      \* history: the tenants a gateway was ever mapped to
    tangled,      \* history: the gateways several requests, or a failed one, worked on
    crowded,      \* history: the tenants with requests side by side, or given a gateway back
    free,         \* history: the requests that found the gateway without an active owner
    faults, suspends

request == <<op, gw, by, admin>>
history == <<holders, tangled, crowded, free>>
local == <<seen, held, move>>
vars == <<lns, mapping, suspended, pc, request, local, history, faults, suspends>>

Owner == Tenant \cup {Outside, None}
Ops == {"create", "update", "delete"}
Ended == {"idle", "done", "refused"}
Steps == Ended \cup {"quota", "create", "existing", "leave", "assert", "assertmap",
                     "read", "write", "tags", "tagwrite", "register", "remove"}

Init ==
    /\ lns \in [Gateway -> {Outside, None}]
    /\ mapping = [g \in Gateway |-> None]
    /\ suspended = {}
    /\ pc = [r \in Request |-> "idle"]
    /\ op = [r \in Request |-> "create"]
    /\ gw = [r \in Request |-> None]
    /\ by = [r \in Request |-> None]
    /\ admin = [r \in Request |-> FALSE]
    /\ seen = [r \in Request |-> None]
    /\ held = [r \in Request |-> None]
    /\ move = [r \in Request |-> FALSE]
    /\ holders = [g \in Gateway |-> {}]
    /\ tangled = {} /\ crowded = {} /\ free = {}
    /\ faults = 0 /\ suspends = 0

NoFault == UNCHANGED faults

Go(r, to) == pc' = [pc EXCEPT ![r] = to]

Busy(r) == pc[r] \notin Ended

(* A call of r fails: the request is answered with an error.               *)
Fail(r) ==
    /\ Go(r, "refused")
    /\ faults < MaxFaults /\ faults' = faults + 1
    /\ tangled' = tangled \cup {gw[r]}

Gateways(t) == {g \in Gateway : lns[g] = t}

-----------------------------------------------------------------------------
(* A request arrives: POST, PUT or DELETE /lorawan/gateways, by a member   *)
(* of the tenant or by an administrator who selected it with ?tenantId.    *)
Arrive(r) ==
    /\ pc[r] = "idle"
    /\ \E o \in Ops, g \in Gateway, t \in Tenant, a \in BOOLEAN :
      /\ Go(r, IF o = "create" THEN "quota" ELSE "assert")
      /\ op' = [op EXCEPT ![r] = o]
      /\ gw' = [gw EXCEPT ![r] = g]
      /\ by' = [by EXCEPT ![r] = t]
      /\ admin' = [admin EXCEPT ![r] = a]
      /\ tangled' = IF \E q \in Request : Busy(q) /\ gw[q] = g THEN tangled \cup {g} ELSE tangled
      /\ crowded' = IF \E q \in Request : Busy(q) /\ by[q] = t THEN crowded \cup {t} ELSE crowded
      /\ UNCHANGED <<lns, mapping, suspended, local, holders, free, faults, suspends>>

(* Mutant: the limit is let through.                                       *)
WithinQuotaOrAt(t) == Cardinality(Gateways(t)) <= MaxGateways

(* checkGatewayQuota                                                       *)
WithinQuota(t) == Cardinality(Gateways(t)) < MaxGateways

Quota(r) ==
    /\ pc[r] = "quota"
    /\ \/ /\ Go(r, IF WithinQuota(by[r]) THEN "create" ELSE "refused")
          /\ NoFault /\ UNCHANGED tangled
       \/ Fail(r)
    /\ UNCHANGED <<lns, mapping, suspended, request, local, holders, crowded, free, suspends>>

(* The registration goes on with the RF tags of the request, if it has any.*)
Registering == {"tags", "register"}

(* ensureGateway: POST the gateway; ChirpStack refuses an id it knows.     *)
Create(r) ==
    /\ pc[r] = "create"
    /\ \/ /\ lns[gw[r]] = None /\ lns' = [lns EXCEPT ![gw[r]] = by[r]]
          /\ \/ \E next \in Registering : Go(r, next) /\ NoFault /\ UNCHANGED tangled
             \/ Fail(r)
       \/ /\ lns[gw[r]] # None /\ UNCHANGED lns
          /\ Go(r, "existing") /\ NoFault /\ UNCHANGED tangled
       \/ Fail(r) /\ UNCHANGED lns
    /\ UNCHANGED <<mapping, suspended, request, local, holders, crowded, free, suspends>>

(* ensureGateway: whose is it?  Its own tenant's, or an administrator      *)
(* moves it; the others need leave.                                        *)
Existing(r) ==
    /\ pc[r] = "existing"
    /\ LET owner == lns[gw[r]]
           next == IF owner = None THEN "refused"
                   ELSE IF owner = by[r] \/ admin[r] THEN "read" ELSE "leave"
       IN \/ /\ Go(r, next)
             /\ seen' = [seen EXCEPT ![r] = owner]
             /\ move' = [move EXCEPT ![r] = owner # by[r]]
             /\ NoFault /\ UNCHANGED tangled
          \/ Fail(r) /\ UNCHANGED <<seen, move>>
    /\ UNCHANGED <<lns, mapping, suspended, request, held, holders, crowded, free, suspends>>

(* TenantIDByChirpStackTenant finds active tenants only.                   *)
ActiveOwner(owner) == owner \in Tenant \ suspended

(* Mutant: any unmapped gateway may be taken.                              *)
MayTakeUnmapped(r) == mapping[gw[r]] \in {by[r], None}

(* canReassignGateway: the mapping decides; without one, a gateway whose   *)
(* owner is no active tenant of the platform may be taken.                 *)
MayTake(r) ==
    \/ mapping[gw[r]] = by[r]
    \/ mapping[gw[r]] = None /\ (ActiveOwner(seen[r]) => seen[r] = by[r])

Leave(r) ==
    /\ pc[r] = "leave"
    /\ \/ /\ Go(r, IF MayTake(r) THEN "read" ELSE "refused")
          /\ free' = IF ActiveOwner(seen[r]) THEN free ELSE free \cup {r}
          /\ NoFault /\ UNCHANGED tangled
       \/ Fail(r) /\ UNCHANGED free
    /\ UNCHANGED <<lns, mapping, suspended, request, local, holders, crowded, suspends>>

-----------------------------------------------------------------------------
(* Client.UpdateGateway: GET, then PUT of the whole gateway. *)

Get(r, to, otherwise) ==
    /\ \/ /\ Go(r, IF lns[gw[r]] = None THEN otherwise ELSE to)
          /\ NoFault /\ UNCHANGED tangled
       \/ Fail(r)
    /\ held' = [held EXCEPT ![r] = lns[gw[r]]]

(* The tenantId that is written: the request's, or the one read before.    *)
Written(r) == IF pc[r] = "write" /\ move[r] THEN by[r] ELSE held[r]

(* A gateway that is gone cannot be written.  One that another request     *)
(* moved in between goes back where it was.                                *)
Put(r) ==
    LET g == gw[r] IN
    /\ lns' = IF lns[g] = None THEN lns ELSE [lns EXCEPT ![g] = Written(r)]
    /\ crowded' = IF lns[g] \notin {None, held[r]} THEN crowded \cup {Written(r)} ELSE crowded

Read(r) ==
    /\ pc[r] = "read"
    /\ Get(r, "write", "refused")
    /\ UNCHANGED <<lns, mapping, suspended, request, seen, move, holders, crowded, free, suspends>>

AfterWrite(r) == IF op[r] = "create" THEN Registering ELSE {"done"}

Write(r) ==
    /\ pc[r] = "write"
    /\ \/ /\ lns[gw[r]] # None /\ Put(r)
          /\ \E next \in AfterWrite(r) : Go(r, next)
          /\ NoFault /\ UNCHANGED tangled
       \/ /\ lns[gw[r]] = None /\ Put(r)
          /\ Go(r, "refused") /\ NoFault /\ UNCHANGED tangled
       \/ Fail(r) /\ (Put(r) \/ UNCHANGED <<lns, crowded>>)
    /\ UNCHANGED <<mapping, suspended, request, local, holders, free, suspends>>

(* createGateway writes the RF tags with an update of their own; whether   *)
(* it fails is not looked at.                                              *)
Tags(r) ==
    /\ pc[r] = "tags"
    /\ \/ /\ Go(r, IF lns[gw[r]] = None THEN "register" ELSE "tagwrite")
          /\ held' = [held EXCEPT ![r] = lns[gw[r]]]
       \/ Go(r, "register") /\ UNCHANGED held
    /\ UNCHANGED <<lns, mapping, suspended, request, seen, move, history, faults, suspends>>

TagWrite(r) ==
    /\ pc[r] = "tagwrite"
    /\ Go(r, "register")
    /\ Put(r) \/ UNCHANGED <<lns, crowded>>
    /\ UNCHANGED <<mapping, suspended, request, local, holders, tangled, free, faults, suspends>>

(* Mutant: a gateway that existed already is not registered.               *)
RegisterCreated(r) ==
    /\ pc[r] = "register"
    /\ Go(r, "done")
    /\ LET known == seen[r] # None IN
       /\ mapping' = IF known THEN mapping ELSE [mapping EXCEPT ![gw[r]] = by[r]]
       /\ holders' = IF known THEN holders ELSE [holders EXCEPT ![gw[r]] = @ \cup {by[r]}]
    /\ UNCHANGED <<lns, suspended, request, local, tangled, crowded, free, faults, suspends>>

(* registerGatewayForTenant: upsert; its failure is not looked at.         *)
Register(r) ==
    /\ pc[r] = "register"
    /\ \/ /\ Go(r, "done")
          /\ mapping' = [mapping EXCEPT ![gw[r]] = by[r]]
          /\ holders' = [holders EXCEPT ![gw[r]] = @ \cup {by[r]}]
          /\ NoFault /\ UNCHANGED tangled
       \/ Fail(r) /\ UNCHANGED <<mapping, holders>>
    /\ UNCHANGED <<lns, suspended, request, local, crowded, free, suspends>>

-----------------------------------------------------------------------------
(* updateGateway and deleteGateway *)

(* assertGatewayInTenant: first the owner ChirpStack tells, then the       *)
(* mapping, which may be missing.                                          *)
AssertOwner(r) ==
    /\ pc[r] = "assert"
    /\ \/ /\ Go(r, IF lns[gw[r]] = by[r] THEN "assertmap" ELSE "refused")
          /\ NoFault /\ UNCHANGED tangled
       \/ Fail(r)
    /\ UNCHANGED <<lns, mapping, suspended, request, local, holders, crowded, free, suspends>>

AfterAssert(r) == IF op[r] = "update" THEN "read" ELSE "remove"

(* A failed look-up of the mapping counts as a missing one.                *)
AssertMapping(r) ==
    /\ pc[r] = "assertmap"
    /\ \/ /\ Go(r, IF mapping[gw[r]] \in {None, by[r]} THEN AfterAssert(r) ELSE "refused")
          /\ NoFault /\ UNCHANGED tangled
       \/ /\ Go(r, AfterAssert(r))
          /\ faults < MaxFaults /\ faults' = faults + 1 /\ tangled' = tangled \cup {gw[r]}
    /\ UNCHANGED <<lns, mapping, suspended, request, local, holders, crowded, free, suspends>>

(* ChirpStack forgets the gateway; tenant_gateways keeps its row.          *)
Remove(r) ==
    /\ pc[r] = "remove"
    /\ \/ /\ Go(r, IF lns[gw[r]] = None THEN "refused" ELSE "done")
          /\ lns' = [lns EXCEPT ![gw[r]] = None]
          /\ NoFault /\ UNCHANGED tangled
       \/ Fail(r) /\ lns' \in {lns, [lns EXCEPT ![gw[r]] = None]}
    /\ UNCHANGED <<mapping, suspended, request, local, holders, crowded, free, suspends>>

(* updateTenantStatus                                                      *)
UpdateStatus(t) ==
    /\ suspends < MaxSuspends /\ suspends' = suspends + 1
    /\ suspended' = IF t \in suspended THEN suspended \ {t} ELSE suspended \cup {t}
    /\ UNCHANGED <<lns, mapping, pc, request, local, history, faults>>

Next ==
    \/ \E r \in Request :
         \/ Arrive(r) \/ Quota(r) \/ Create(r) \/ Existing(r) \/ Leave(r)
         \/ Read(r) \/ Write(r) \/ Tags(r) \/ TagWrite(r) \/ Register(r)
         \/ AssertOwner(r) \/ AssertMapping(r) \/ Remove(r)
    \/ \E t \in Tenant : UpdateStatus(t)

Spec == Init /\ [][Next]_vars

-----------------------------------------------------------------------------
(* Properties *)

TypeOK ==
    /\ lns \in [Gateway -> Owner] /\ mapping \in [Gateway -> Tenant \cup {None}]
    /\ suspended \subseteq Tenant
    /\ pc \in [Request -> Steps] /\ op \in [Request -> Ops]
    /\ gw \in [Request -> Gateway \cup {None}] /\ by \in [Request -> Tenant \cup {None}]
    /\ admin \in [Request -> BOOLEAN] /\ move \in [Request -> BOOLEAN]
    /\ seen \in [Request -> Owner] /\ held \in [Request -> Owner]
    /\ holders \in [Gateway -> SUBSET Tenant]
    /\ tangled \subseteq Gateway /\ crowded \subseteq Owner /\ free \subseteq Request
    /\ faults \in 0..MaxFaults /\ suspends \in 0..MaxSuspends

(* The two records of the owner agree once no request is at work on the    *)
(* gateway, if requests for it came one at a time and none failed:         *)
(* createGateway leaves no tenantId without its row, updateGateway moves   *)
(* nothing, deleteGateway may leave the row alone.                         *)
OwnersAgree ==
    \A g \in Gateway :
      \/ lns[g] \notin Tenant \/ mapping[g] = lns[g]
      \/ g \in tangled
      \/ \E r \in Request : Busy(r) /\ gw[r] = g

(* A gateway passes from one tenant to another only by a platform-admin's  *)
(* request, back to a tenant it was mapped to before, to a request that    *)
(* found it without an active owner, or back where an update read it       *)
(* before somebody moved it.                                               *)
TakenWithLeave ==
    [][\A g \in Gateway :
         lns[g] \in Tenant /\ lns'[g] \in Tenant \ {lns[g]} =>
           \E r \in Request :
             /\ gw[r] = g /\ pc'[r] # pc[r]
             /\ \/ admin[r] \/ r \in free \/ by[r] \in holders[g]
                \/ held[r] = lns'[g]]_vars

(* A tenant has more gateways than its plan allows only when it had        *)
(* requests side by side, each of which counted before the other created,  *)
(* or when a gateway moved away came back with a stale update.             *)
QuotaHeld ==
    \A t \in Tenant : Cardinality(Gateways(t)) <= MaxGateways \/ t \in crowded

-----------------------------------------------------------------------------
\* For TLC: nothing tells one gateway, tenant or request from another.
Symmetry == Permutations(Gateway) \cup Permutations(Tenant) \cup Permutations(Request)
=============================================================================
