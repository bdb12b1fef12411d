----------------------------- MODULE FleetProofs -----------------------------
(***************************************************************************)
(* What the records of the gateways keep, for every set of gateways,       *)
(* tenants, requests and calls and any number of faults and restarts: who  *)
(* owns a gateway (GatewayRegistry), its VPN profile and its scan requests *)
(* (FleetMC).                                                              *)
(***************************************************************************)
EXTENDS GatewayRegistry, FleetMC, FiniteSetTheorems, SequenceTheorems, TLAPS

-----------------------------------------------------------------------------
(* Who owns a gateway *)

(* A request that arrived has its gateway and its tenant.                  *)
Assigned == \A r \in Request : pc[r] # "idle" => gw[r] \in Gateway /\ by[r] \in Tenant

LEMMA Shape == Spec => [](TypeOK /\ Assigned)
<1>1. Init => TypeOK /\ Assigned
  BY BoundsAreNaturals DEF Init, TypeOK, Assigned, Owner, Ops, Steps, Ended
<1>2. TypeOK /\ Assigned /\ [Next]_vars => TypeOK' /\ Assigned'
  <2> SUFFICES ASSUME TypeOK, Assigned, [Next]_vars PROVE TypeOK' /\ Assigned'
    OBVIOUS
  <2> USE BoundsAreNaturals DEF TypeOK, Assigned, Owner, Ops, Steps, Ended, Go, NoFault, Fail,
          request, local, history
  <2>1. ASSUME NEW r \in Request, Arrive(r) PROVE TypeOK' /\ Assigned'
    BY <2>1 DEF Arrive
  <2>2. ASSUME NEW r \in Request, Quota(r) PROVE TypeOK' /\ Assigned'
    BY <2>2 DEF Quota
  <2>3. ASSUME NEW r \in Request, Create(r) PROVE TypeOK' /\ Assigned'
    BY <2>3 DEF Create, Registering
  <2>4. ASSUME NEW r \in Request, Existing(r) PROVE TypeOK' /\ Assigned'
    <3>1. move' \in [Request -> BOOLEAN]
      BY <2>4, Zenon DEF Existing
    <3>2. pc' \in [Request -> Steps] /\ Assigned'
      BY <2>4 DEF Existing
    <3>3. seen' \in [Request -> Owner] /\ faults' \in 0..MaxFaults /\ tangled' \subseteq Gateway
      BY <2>4 DEF Existing
    <3> QED BY <2>4, <3>1, <3>2, <3>3 DEF Existing
  <2>5. ASSUME NEW r \in Request, Leave(r) PROVE TypeOK' /\ Assigned'
    BY <2>5 DEF Leave
  <2>6. ASSUME NEW r \in Request, Read(r) PROVE TypeOK' /\ Assigned'
    BY <2>6 DEF Read, Get
  <2>7. ASSUME NEW r \in Request, Write(r) PROVE TypeOK' /\ Assigned'
    BY <2>7 DEF Write, Put, Written, AfterWrite, Registering
  <2>8. ASSUME NEW r \in Request, Tags(r) PROVE TypeOK' /\ Assigned'
    BY <2>8 DEF Tags
  <2>9. ASSUME NEW r \in Request, TagWrite(r) PROVE TypeOK' /\ Assigned'
    BY <2>9 DEF TagWrite, Put, Written
  <2>10. ASSUME NEW r \in Request, Register(r) PROVE TypeOK' /\ Assigned'
    BY <2>10 DEF Register
  <2>11. ASSUME NEW r \in Request, AssertOwner(r) PROVE TypeOK' /\ Assigned'
    BY <2>11 DEF AssertOwner
  <2>12. ASSUME NEW r \in Request, AssertMapping(r) PROVE TypeOK' /\ Assigned'
    BY <2>12 DEF AssertMapping, AfterAssert
  <2>13. ASSUME NEW r \in Request, Remove(r) PROVE TypeOK' /\ Assigned'
    BY <2>13 DEF Remove
  <2>14. ASSUME NEW t \in Tenant, UpdateStatus(t) PROVE TypeOK' /\ Assigned'
    BY <2>14 DEF UpdateStatus
  <2>15. CASE UNCHANGED vars
    BY <2>15 DEF vars
  <2> QED BY <2>1, <2>2, <2>3, <2>4, <2>5, <2>6, <2>7, <2>8, <2>9, <2>10, <2>11, <2>12,
             <2>13, <2>14, <2>15 DEF Next
<1> QED BY <1>1, <1>2, PTL DEF Spec

(* The state keeps its shape through every request (TypeOK).               *)
THEOREM TypeCorrect == Spec => []TypeOK
BY Shape, PTL

-----------------------------------------------------------------------------
(* Requests at work on a gateway that is not tangled are alone.            *)
Lone ==
    \A r, q \in Request :
      Busy(r) /\ Busy(q) /\ gw[r] = gw[q] /\ gw[r] \notin tangled => r = q

(* Only createGateway moves a gateway, and only it registers one.  It      *)
(* needs leave only to move.                                               *)
CreateMoves ==
    \A r \in Request :
      /\ pc[r] = "idle" => ~move[r]
      /\ pc[r] = "leave" => move[r]
      /\ op[r] # "create" => ~move[r]
      /\ pc[r] \in {"quota", "create", "existing", "leave", "tags", "tagwrite", "register"}
           => op[r] = "create"

Agreed(g) == lns[g] \in Tenant => mapping[g] = lns[g]

Registers(r) == pc[r] \in {"tags", "tagwrite", "register"}

(* What a lone request knows of its gateway: the two records agree until   *)
(* it has written its tenant in ChirpStack and is about to register it,    *)
(* and what it read is still what is there.                                *)
Knows ==
    \A r \in Request : Busy(r) /\ gw[r] \notin tangled =>
      /\ Registers(r) => lns[gw[r]] = by[r]
      /\ ~Registers(r) => Agreed(gw[r])
      /\ pc[r] \in {"write", "tagwrite"} => held[r] = lns[gw[r]]
      /\ pc[r] \in {"read", "write"} /\ op[r] = "create" /\ ~move[r] => lns[gw[r]] = by[r]

IInv == TypeOK /\ Assigned /\ Lone /\ CreateMoves /\ Knows /\ OwnersAgree

LEMMA ArriveKeeps ==
  ASSUME IInv, TypeOK', Assigned', NEW r \in Request, Arrive(r) PROVE IInv'
<1> USE NamesAreDistinct DEF IInv, TypeOK, Assigned, Arrive, Go, Fail, NoFault, Busy, Ended,
        request, local, history
<1>1. Lone'
  BY DEF Lone
<1>2. CreateMoves'
  BY DEF CreateMoves, Ops
<1>3. Knows'
  BY DEF Knows, Registers, Agreed, Lone, CreateMoves, OwnersAgree, Owner
<1>4. OwnersAgree'
  BY DEF OwnersAgree, Knows, Registers, Agreed, Lone, CreateMoves
<1> QED BY <1>1, <1>2, <1>3, <1>4

LEMMA QuotaKeeps ==
  ASSUME IInv, TypeOK', Assigned', NEW r \in Request, Quota(r) PROVE IInv'
<1> USE NamesAreDistinct DEF IInv, TypeOK, Assigned, Quota, Go, Fail, NoFault, Busy, Ended,
        request, local, history
<1>1. Lone'
  BY DEF Lone
<1>2. CreateMoves'
  BY DEF CreateMoves, Ops
<1>3. Knows'
  BY DEF Knows, Registers, Agreed, Lone, CreateMoves, OwnersAgree, Owner
<1>4. OwnersAgree'
  BY DEF OwnersAgree, Knows, Registers, Agreed, Lone, CreateMoves
<1> QED BY <1>1, <1>2, <1>3, <1>4

LEMMA CreateKeeps ==
  ASSUME IInv, TypeOK', Assigned', NEW r \in Request, Create(r) PROVE IInv'
<1> USE NamesAreDistinct DEF IInv, TypeOK, Assigned, Create, Registering, Go, Fail, NoFault, Busy, Ended,
        request, local, history
<1>1. Lone'
  BY DEF Lone
<1>2. CreateMoves'
  BY DEF CreateMoves, Ops
<1>3. Knows'
  BY DEF Knows, Registers, Agreed, Lone, CreateMoves, OwnersAgree, Owner
<1>4. OwnersAgree'
  BY DEF OwnersAgree, Knows, Registers, Agreed, Lone, CreateMoves
<1> QED BY <1>1, <1>2, <1>3, <1>4

LEMMA ExistingKeeps ==
  ASSUME IInv, TypeOK', Assigned', NEW r \in Request, Existing(r) PROVE IInv'
<1> USE NamesAreDistinct DEF IInv, TypeOK, Assigned, Existing, Go, Fail, NoFault, Busy, Ended,
        request, local, history
<1>1. Lone'
  BY DEF Lone
<1>2. CreateMoves'
  BY DEF CreateMoves, Ops
<1>3. Knows'
  BY DEF Knows, Registers, Agreed, Lone, CreateMoves, OwnersAgree, Owner
<1>4. OwnersAgree'
  BY DEF OwnersAgree, Knows, Registers, Agreed, Lone, CreateMoves
<1> QED BY <1>1, <1>2, <1>3, <1>4

LEMMA LeaveKeeps ==
  ASSUME IInv, TypeOK', Assigned', NEW r \in Request, Leave(r) PROVE IInv'
<1> USE NamesAreDistinct DEF IInv, TypeOK, Assigned, Leave, Go, Fail, NoFault, Busy, Ended,
        request, local, history
<1>1. Lone'
  BY DEF Lone
<1>2. CreateMoves'
  BY DEF CreateMoves, Ops
<1>3. Knows'
  BY DEF Knows, Registers, Agreed, Lone, CreateMoves, OwnersAgree, Owner
<1>4. OwnersAgree'
  BY DEF OwnersAgree, Knows, Registers, Agreed, Lone, CreateMoves
<1> QED BY <1>1, <1>2, <1>3, <1>4

LEMMA ReadKeeps ==
  ASSUME IInv, TypeOK', Assigned', NEW r \in Request, Read(r) PROVE IInv'
<1> USE NamesAreDistinct DEF IInv, TypeOK, Assigned, Read, Get, Go, Fail, NoFault, Busy, Ended,
        request, local, history
<1>1. Lone'
  BY DEF Lone
<1>2. CreateMoves'
  BY DEF CreateMoves, Ops
<1>3. Knows'
  BY DEF Knows, Registers, Agreed, Lone, CreateMoves, OwnersAgree, Owner
<1>4. OwnersAgree'
  BY DEF OwnersAgree, Knows, Registers, Agreed, Lone, CreateMoves
<1> QED BY <1>1, <1>2, <1>3, <1>4

LEMMA WriteKeeps ==
  ASSUME IInv, TypeOK', Assigned', NEW r \in Request, Write(r) PROVE IInv'
<1> USE NamesAreDistinct DEF IInv, TypeOK, Assigned, Write, Put, Written, AfterWrite, Registering, Go, Fail, NoFault, Busy, Ended,
        request, local, history
<1>1. Lone'
  BY DEF Lone
<1>2. CreateMoves'
  BY DEF CreateMoves, Ops
<1>3. Knows'
  BY DEF Knows, Registers, Agreed, Lone, CreateMoves, OwnersAgree, Owner
<1>4. OwnersAgree'
  BY DEF OwnersAgree, Knows, Registers, Agreed, Lone, CreateMoves
<1> QED BY <1>1, <1>2, <1>3, <1>4

LEMMA TagsKeeps ==
  ASSUME IInv, TypeOK', Assigned', NEW r \in Request, Tags(r) PROVE IInv'
<1> USE NamesAreDistinct DEF IInv, TypeOK, Assigned, Tags, Go, Fail, NoFault, Busy, Ended,
        request, local, history
<1>1. Lone'
  BY DEF Lone
<1>2. CreateMoves'
  BY DEF CreateMoves, Ops
<1>3. Knows'
  BY DEF Knows, Registers, Agreed, Lone, CreateMoves, OwnersAgree, Owner
<1>4. OwnersAgree'
  BY DEF OwnersAgree, Knows, Registers, Agreed, Lone, CreateMoves
<1> QED BY <1>1, <1>2, <1>3, <1>4

LEMMA TagWriteKeeps ==
  ASSUME IInv, TypeOK', Assigned', NEW r \in Request, TagWrite(r) PROVE IInv'
<1> USE NamesAreDistinct DEF IInv, TypeOK, Assigned, TagWrite, Put, Written, Go, Fail, NoFault, Busy, Ended,
        request, local, history
<1>1. Lone'
  BY DEF Lone
<1>2. CreateMoves'
  BY DEF CreateMoves, Ops
<1>3. Knows'
  BY DEF Knows, Registers, Agreed, Lone, CreateMoves, OwnersAgree, Owner
<1>4. OwnersAgree'
  BY DEF OwnersAgree, Knows, Registers, Agreed, Lone, CreateMoves
<1> QED BY <1>1, <1>2, <1>3, <1>4

LEMMA RegisterKeeps ==
  ASSUME IInv, TypeOK', Assigned', NEW r \in Request, Register(r) PROVE IInv'
<1> USE NamesAreDistinct DEF IInv, TypeOK, Assigned, Register, Go, Fail, NoFault, Busy, Ended,
        request, local, history
<1>1. Lone'
  BY DEF Lone
<1>2. CreateMoves'
  BY DEF CreateMoves, Ops
<1>3. Knows'
  BY DEF Knows, Registers, Agreed, Lone, CreateMoves, OwnersAgree, Owner
<1>4. OwnersAgree'
  BY DEF OwnersAgree, Knows, Registers, Agreed, Lone, CreateMoves
<1> QED BY <1>1, <1>2, <1>3, <1>4

LEMMA AssertOwnerKeeps ==
  ASSUME IInv, TypeOK', Assigned', NEW r \in Request, AssertOwner(r) PROVE IInv'
<1> USE NamesAreDistinct DEF IInv, TypeOK, Assigned, AssertOwner, Go, Fail, NoFault, Busy, Ended,
        request, local, history
<1>1. Lone'
  BY DEF Lone
<1>2. CreateMoves'
  BY DEF CreateMoves, Ops
<1>3. Knows'
  BY DEF Knows, Registers, Agreed, Lone, CreateMoves, OwnersAgree, Owner
<1>4. OwnersAgree'
  BY DEF OwnersAgree, Knows, Registers, Agreed, Lone, CreateMoves
<1> QED BY <1>1, <1>2, <1>3, <1>4

LEMMA AssertMappingKeeps ==
  ASSUME IInv, TypeOK', Assigned', NEW r \in Request, AssertMapping(r) PROVE IInv'
<1> USE NamesAreDistinct DEF IInv, TypeOK, Assigned, AssertMapping, AfterAssert, Go, Fail, NoFault, Busy, Ended,
        request, local, history
<1>1. Lone'
  BY DEF Lone
<1>2. CreateMoves'
  BY DEF CreateMoves, Ops
<1>3. Knows'
  BY DEF Knows, Registers, Agreed, Lone, CreateMoves, OwnersAgree, Owner
<1>4. OwnersAgree'
  BY DEF OwnersAgree, Knows, Registers, Agreed, Lone, CreateMoves
<1> QED BY <1>1, <1>2, <1>3, <1>4

LEMMA RemoveKeeps ==
  ASSUME IInv, TypeOK', Assigned', NEW r \in Request, Remove(r) PROVE IInv'
<1> USE NamesAreDistinct DEF IInv, TypeOK, Assigned, Remove, Go, Fail, NoFault, Busy, Ended,
        request, local, history
<1>1. Lone'
  BY DEF Lone
<1>2. CreateMoves'
  BY DEF CreateMoves, Ops
<1>3. Knows'
  BY DEF Knows, Registers, Agreed, Lone, CreateMoves, OwnersAgree, Owner
<1>4. OwnersAgree'
  BY DEF OwnersAgree, Knows, Registers, Agreed, Lone, CreateMoves
<1> QED BY <1>1, <1>2, <1>3, <1>4

LEMMA UpdateStatusKeeps ==
  ASSUME IInv, TypeOK', Assigned', NEW t \in Tenant, UpdateStatus(t) PROVE IInv'
BY DEF IInv, UpdateStatus, Lone, CreateMoves, Knows, Registers, Agreed, OwnersAgree, Busy,
       request, local, history

LEMMA IInvHolds == Spec => []IInv
<1>1. Init => IInv
  <2> SUFFICES ASSUME Init PROVE IInv
    OBVIOUS
  <2>1. TypeOK /\ Assigned
    BY BoundsAreNaturals DEF Init, TypeOK, Assigned, Owner, Ops, Steps, Ended
  <2> QED BY <2>1, NamesAreDistinct
    DEF Init, IInv, Lone, CreateMoves, Knows, OwnersAgree, Busy, Ended
<1>2. IInv /\ (TypeOK /\ Assigned)' /\ [Next]_vars => IInv'
  <2> SUFFICES ASSUME IInv, TypeOK', Assigned', [Next]_vars PROVE IInv'
    OBVIOUS
  <2>1. CASE UNCHANGED vars
    BY <2>1 DEF vars, IInv, Lone, CreateMoves, Knows, Registers, Agreed, OwnersAgree, Busy,
                request, local, history
  <2>2. CASE Next
    BY <2>2, ArriveKeeps, QuotaKeeps, CreateKeeps, ExistingKeeps, LeaveKeeps, ReadKeeps,
       WriteKeeps, TagsKeeps, TagWriteKeeps, RegisterKeeps, AssertOwnerKeeps,
       AssertMappingKeeps, RemoveKeeps, UpdateStatusKeeps DEF Next
  <2> QED BY <2>1, <2>2
<1> QED BY <1>1, <1>2, Shape, PTL DEF Spec

(* The tenantId of ChirpStack and the row of tenant_gateways agree on a    *)
(* gateway whose requests came one at a time and did not fail              *)
(* (OwnersAgree).                                                          *)
THEOREM RecordsAgree == Spec => []OwnersAgree
BY IInvHolds, PTL DEF IInv

-----------------------------------------------------------------------------
(* On what grounds a request moves a gateway of another tenant.            *)
MovedOn(r) == admin[r] \/ r \in free \/ by[r] \in holders[gw[r]]

Grounds ==
    /\ \A g \in Gateway : mapping[g] \in holders[g] \cup {None}
    /\ \A r \in Request : pc[r] = "leave" => seen[r] # by[r]
    /\ \A r \in Request : move[r] /\ pc[r] \in {"read", "write"} => MovedOn(r)

LEMMA GroundsKept ==
  ASSUME IInv, IInv', Grounds, [Next]_vars PROVE Grounds'
<1> USE NamesAreDistinct DEF IInv, TypeOK, Assigned, Grounds, MovedOn, Go, Fail, NoFault,
        request, local, history
<1>1. ASSUME NEW r \in Request, Arrive(r) PROVE Grounds'
  BY <1>1 DEF Arrive
<1>2. ASSUME NEW r \in Request, Quota(r) PROVE Grounds'
  BY <1>2 DEF Quota
<1>3. ASSUME NEW r \in Request, Create(r) PROVE Grounds'
  BY <1>3 DEF Create, Registering
<1>4. ASSUME NEW r \in Request, Existing(r) PROVE Grounds'
  BY <1>4 DEF Existing
<1>5. ASSUME NEW r \in Request, Leave(r) PROVE Grounds'
  BY <1>5 DEF Leave, MayTake
<1>6. ASSUME NEW r \in Request, Read(r) PROVE Grounds'
  BY <1>6 DEF Read, Get
<1>7. ASSUME NEW r \in Request, Write(r) PROVE Grounds'
  BY <1>7 DEF Write, AfterWrite, Registering
<1>8. ASSUME NEW r \in Request, Tags(r) PROVE Grounds'
  BY <1>8 DEF Tags
<1>9. ASSUME NEW r \in Request, TagWrite(r) PROVE Grounds'
  BY <1>9 DEF TagWrite
<1>10. ASSUME NEW r \in Request, Register(r) PROVE Grounds'
  BY <1>10 DEF Register
<1>11. ASSUME NEW r \in Request, AssertOwner(r) PROVE Grounds'
  BY <1>11 DEF AssertOwner
<1>12. ASSUME NEW r \in Request, AssertMapping(r) PROVE Grounds'
  BY <1>12 DEF AssertMapping, AfterAssert, CreateMoves
<1>13. ASSUME NEW r \in Request, Remove(r) PROVE Grounds'
  BY <1>13 DEF Remove
<1>14. ASSUME NEW t \in Tenant, UpdateStatus(t) PROVE Grounds'
  BY <1>14 DEF UpdateStatus
<1>15. CASE UNCHANGED vars
  BY <1>15 DEF vars
<1> QED BY <1>1, <1>2, <1>3, <1>4, <1>5, <1>6, <1>7, <1>8, <1>9, <1>10, <1>11, <1>12,
           <1>13, <1>14, <1>15 DEF Next

(* A gateway changes its tenant only on the grounds createGateway has for  *)
(* it, or by an update that writes back the owner it read                  *)
(* (TakenWithLeave).                                                       *)
THEOREM GatewaysAreTakenWithLeave == Spec => TakenWithLeave
<1> DEFINE Step == \A g \in Gateway :
             lns[g] \in Tenant /\ lns'[g] \in Tenant \ {lns[g]} =>
               \E r \in Request :
                 /\ gw[r] = g /\ pc'[r] # pc[r]
                 /\ \/ admin[r] \/ r \in free \/ by[r] \in holders[g]
                    \/ held[r] = lns'[g]
<1>1. Init => Grounds
  BY DEF Init, Grounds
<1>2. IInv /\ IInv' /\ Grounds /\ [Next]_vars => Grounds'
  BY GroundsKept
<1>3. IInv /\ Grounds /\ [Next]_vars => [Step]_vars
  <2> SUFFICES ASSUME IInv, Grounds, Next, NEW g \in Gateway,
                      lns[g] \in Tenant, lns'[g] \in Tenant \ {lns[g]}
               PROVE \E r \in Request :
                       /\ gw[r] = g /\ pc'[r] # pc[r]
                       /\ MovedOn(r) \/ held[r] = lns'[g]
    BY DEF MovedOn
  <2>1. PICK r \in Request : Write(r) \/ TagWrite(r)
    BY NamesAreDistinct DEF Next, Arrive, Quota, Create, Existing, Leave, Read, Get, Tags,
       Register, AssertOwner, AssertMapping, Remove, UpdateStatus, Fail, history, local,
       IInv, TypeOK, Assigned
  <2>2. gw[r] = g /\ lns'[g] = Written(r)
    BY <2>1 DEF Write, TagWrite, Put, Fail, IInv, TypeOK
  <2>3. pc'[r] # pc[r]
    BY <2>1 DEF Write, TagWrite, Go, Fail, AfterWrite, Registering, IInv, TypeOK
  <2>4. MovedOn(r) \/ held[r] = lns'[g]
    BY <2>2 DEF Written, Grounds
  <2> QED BY <2>2, <2>3, <2>4
<1> QED BY <1>1, <1>2, <1>3, IInvHolds, PTL DEF Spec, TakenWithLeave

-----------------------------------------------------------------------------
(* The quota *)

(* A request that may still give its tenant a gateway it did not have.     *)
Growing(r) ==
    \/ pc[r] \in {"create", "existing", "leave"}
    \/ pc[r] \in {"read", "write"} /\ move[r]

(* A tenant has at most one request at work, and room for it.              *)
Single(t) ==
    \A r, q \in Request : Busy(r) /\ Busy(q) /\ by[r] = t /\ by[q] = t => r = q

Room(t) ==
    /\ Cardinality(Gateways(t)) <= MaxGateways
    /\ \A r \in Request :
         by[r] = t /\ Growing(r) => Cardinality(Gateways(t)) < MaxGateways

Counted == \A t \in Tenant : t \in crowded \/ (Single(t) /\ Room(t))

LEMMA Smaller ==
  ASSUME IsFiniteSet(Gateway), NEW S \in SUBSET Gateway, NEW T \in SUBSET S
  PROVE  Cardinality(S) \in Nat /\ Cardinality(T) \in Nat /\ Cardinality(T) <= Cardinality(S)
BY FS_Subset, FS_CardinalityType

LEMMA OneMore ==
  ASSUME IsFiniteSet(Gateway), NEW S \in SUBSET Gateway, NEW g, NEW T \in SUBSET (S \cup {g})
  PROVE  /\ Cardinality(S) \in Nat /\ Cardinality(T) \in Nat
         /\ Cardinality(T) <= Cardinality(S) + 1
<1>1. IsFiniteSet(S)
  BY FS_Subset
<1>2. /\ IsFiniteSet(S \cup {g})
      /\ Cardinality(S \cup {g}) = IF g \in S THEN Cardinality(S) ELSE Cardinality(S) + 1
  BY <1>1, FS_AddElement
<1>3. Cardinality(T) <= Cardinality(S \cup {g}) /\ IsFiniteSet(T)
  BY <1>2, FS_Subset
<1>4. Cardinality(S) \in Nat /\ Cardinality(T) \in Nat
  BY <1>1, <1>3, FS_CardinalityType
<1> QED BY <1>2, <1>3, <1>4

(* A write gives a tenant that is not crowded no gateway but the one that  *)
(* its own request moves.                                                  *)
LEMMA PutGives ==
  ASSUME TypeOK, NEW r \in Request, gw[r] \in Gateway, Put(r), NEW t \in Tenant, t \notin crowded'
  PROVE  \/ {g \in Gateway : lns'[g] = t} \subseteq Gateways(t)
         \/ /\ pc[r] = "write" /\ move[r] /\ by[r] = t
            /\ {g \in Gateway : lns'[g] = t} \subseteq Gateways(t) \cup {gw[r]}
<1>1. CASE lns[gw[r]] = None
  BY <1>1 DEF Put, Gateways
<1>2. CASE lns[gw[r]] # None
  <2>1. lns' = [lns EXCEPT ![gw[r]] = Written(r)]
    BY <1>2 DEF Put
  <2>2. {g \in Gateway : lns'[g] = t} \subseteq Gateways(t) \cup {gw[r]}
    BY <2>1 DEF TypeOK, Gateways
  <2>3. CASE Written(r) # t
    BY <2>1, <2>3 DEF TypeOK, Gateways
  <2>4. CASE Written(r) = t /\ lns[gw[r]] = t
    BY <2>2, <2>4 DEF Gateways
  <2>5. CASE Written(r) = t /\ lns[gw[r]] # t
    <3>1. lns[gw[r]] = held[r]
      BY <1>2, <2>5 DEF Put
    <3> QED BY <2>2, <2>5, <3>1 DEF Written
  <2> QED BY <2>3, <2>4, <2>5
<1> QED BY <1>1, <1>2

(* What is left to show of a step: the requests stay single, whoever grows *)
(* was growing or has just counted, and the tenant has no more gateways    *)
(* than its request was to give it.                                        *)
Steady(t) ==
    \/ /\ Gateways(t)' \subseteq Gateways(t)
       /\ \A q \in Request : by'[q] = t /\ Growing(q)' =>
            \/ by[q] = t /\ Growing(q)
            \/ Cardinality(Gateways(t)) < MaxGateways
    \/ \E r \in Request :
         /\ Busy(r) /\ Growing(r) /\ by[r] = t /\ ~Growing(r)'
         /\ Gateways(t)' \subseteq Gateways(t) \cup {gw[r]}
         /\ \A q \in Request \ {r} : by'[q] = t /\ Growing(q)' => Growing(q) /\ by[q] = t

LEMMA SteadyKeeps ==
  ASSUME IsFiniteSet(Gateway), BoundsAreNaturals, NEW t \in Tenant, Single(t), Room(t), Steady(t)
  PROVE  Room(t)'
<1>1. CASE /\ Gateways(t)' \subseteq Gateways(t)
           /\ \A q \in Request : by'[q] = t /\ Growing(q)' =>
                \/ by[q] = t /\ Growing(q)
                \/ Cardinality(Gateways(t)) < MaxGateways
  <2>1. /\ Cardinality(Gateways(t)) \in Nat /\ Cardinality(Gateways(t)') \in Nat
        /\ Cardinality(Gateways(t)') <= Cardinality(Gateways(t))
    <3>1. Gateways(t) \in SUBSET Gateway /\ Gateways(t)' \in SUBSET Gateways(t)
      BY <1>1 DEF Gateways
    <3> QED BY <3>1, Smaller
  <2> QED BY <1>1, <2>1, BoundsAreNaturals DEF Room
<1>2. ASSUME NEW r \in Request,
             Busy(r), Growing(r), by[r] = t, ~Growing(r)',
             Gateways(t)' \subseteq Gateways(t) \cup {gw[r]},
             \A q \in Request \ {r} : by'[q] = t /\ Growing(q)' => Growing(q) /\ by[q] = t
      PROVE  Room(t)'
  <2>1. /\ Cardinality(Gateways(t)) \in Nat /\ Cardinality(Gateways(t)') \in Nat
        /\ Cardinality(Gateways(t)') <= Cardinality(Gateways(t)) + 1
    <3>1. Gateways(t) \in SUBSET Gateway
      BY DEF Gateways
    <3> QED BY <1>2, <3>1, OneMore
  <2>2. Cardinality(Gateways(t)) < MaxGateways
    BY <1>2 DEF Room
  <2>3. \A q \in Request : ~(by'[q] = t /\ Growing(q)')
    <3>1. \A q \in Request : Growing(q) => Busy(q)
      BY DEF Growing, Busy, Ended
    <3> QED BY <1>2, <3>1 DEF Single
  <2> QED BY <2>1, <2>2, <2>3, BoundsAreNaturals DEF Room
<1> QED BY <1>1, <1>2 DEF Steady

LEMMA CountedKept ==
  ASSUME IsFiniteSet(Gateway), IInv, Counted, [Next]_vars PROVE Counted'
<1> SUFFICES ASSUME NEW t \in Tenant, t \notin crowded' PROVE (Single(t) /\ Room(t))'
  BY DEF Counted
<1>0. crowded \subseteq crowded' /\ t \notin crowded
  BY DEF Next, vars, history, Arrive, Quota, Create, Existing, Leave, Read, Write, Put, Tags,
         TagWrite, Register, AssertOwner, AssertMapping, Remove, UpdateStatus
<1>1. Single(t) /\ Room(t)
  BY <1>0 DEF Counted
<1> SUFFICES Single(t)' /\ Steady(t)
  BY <1>1, BoundsAreNaturals, SteadyKeeps
<1>2. TypeOK /\ Assigned /\ CreateMoves
  BY DEF IInv
<1>w. WithinQuota(t) <=> Cardinality(Gateways(t)) < MaxGateways
  BY DEF WithinQuota
<1> DEFINE Goal == Single(t)' /\ Steady(t)
<1> HIDE DEF WithinQuota
<1>3. ASSUME NEW r \in Request, Arrive(r) PROVE Goal
  <2>1. Single(t)'
    BY <1>1, <1>2, <1>3 DEF Arrive, Single, Busy, Ended, Go, TypeOK
  <2>2. Steady(t)
    BY <1>2, <1>3 DEF Arrive, Steady, Growing, Gateways, Go, TypeOK, local
  <2> QED BY <2>1, <2>2
<1>4. ASSUME NEW r \in Request, Quota(r) PROVE Goal
  <2>1. Single(t)'
    BY <1>1, <1>2, <1>4 DEF Quota, Single, Busy, Ended, Go, Fail, TypeOK, request
  <2>2. Steady(t)
    <3>1. UNCHANGED <<lns, by, move>>
      BY <1>4 DEF Quota, request, local
    <3>2. \/ pc' = [pc EXCEPT ![r] = "refused"]
          \/ pc' = [pc EXCEPT ![r] = "create"] /\ WithinQuota(by[r])
      BY <1>4 DEF Quota, Go, Fail
    <3>3. by[r] = t /\ WithinQuota(by[r]) => Cardinality(Gateways(t)) < MaxGateways
      BY <1>w
    <3>4. \A q \in Request : by[q] = t /\ Growing(q)' =>
              Growing(q) \/ Cardinality(Gateways(t)) < MaxGateways
      BY <1>2, <3>1, <3>2, <3>3 DEF Growing, TypeOK
    <3> QED BY <3>1, <3>4 DEF Steady, Gateways
  <2> QED BY <2>1, <2>2
<1>5. ASSUME NEW r \in Request, Create(r) PROVE Goal
  <2>1. Single(t)'
    BY <1>1, <1>2, <1>5
       DEF Create, Registering, Single, Busy, Ended, Go, Fail, TypeOK, request
  <2>2. Steady(t)
    <3>1. CASE lns' = lns
      BY <1>2, <1>5, <3>1
         DEF Create, Registering, Steady, Growing, Gateways, Go, Fail, TypeOK, local, request
    <3>2. CASE /\ lns' = [lns EXCEPT ![gw[r]] = by[r]]
               /\ pc' \in {[pc EXCEPT ![r] = s] : s \in {"tags", "register", "refused"}}
      <4>1. pc[r] = "create" /\ Busy(r) /\ Growing(r) /\ UNCHANGED <<by, move>>
        BY <1>5 DEF Create, Busy, Ended, Growing, request, local
      <4>2. ~Growing(r)' /\ \A q \in Request \ {r} : Growing(q)' => Growing(q)
        BY <1>2, <3>2, <4>1 DEF Growing, TypeOK
      <4>3. CASE by[r] = t
        <5>1. Gateways(t)' \subseteq Gateways(t) \cup {gw[r]}
          BY <1>2, <3>2 DEF Gateways, TypeOK
        <5> QED BY <4>1, <4>2, <4>3, <5>1 DEF Steady
      <4>4. CASE by[r] # t
        <5>1. Gateways(t)' \subseteq Gateways(t)
          BY <1>2, <3>2, <4>4 DEF Gateways, TypeOK
        <5> QED BY <4>1, <4>2, <4>4, <5>1 DEF Steady
      <4> QED BY <4>3, <4>4
    <3> QED BY <1>5, <3>1, <3>2 DEF Create, Registering, Go, Fail
  <2> QED BY <2>1, <2>2
<1>6. ASSUME NEW r \in Request, Existing(r) \/ Leave(r) \/ Read(r) PROVE Goal
  <2>1. Single(t)'
    BY <1>1, <1>2, <1>6
       DEF Existing, Leave, Read, Get, Single, Busy, Ended, Go, Fail, TypeOK, request
  <2>2. Steady(t)
    <3>1. UNCHANGED <<lns, by>>
      BY <1>6 DEF Existing, Leave, Read, request
    <3>2. \A q \in Request : Growing(q)' => Growing(q)
      <4>1. CASE Existing(r)
        BY <1>2, <4>1 DEF Existing, Growing, Go, Fail, TypeOK
      <4>2. CASE Leave(r)
        BY <1>2, <4>2 DEF Leave, Growing, Go, Fail, TypeOK, local
      <4>3. CASE Read(r)
        BY <1>2, <4>3 DEF Read, Get, Growing, Go, Fail, TypeOK
      <4> QED BY <1>6, <4>1, <4>2, <4>3
    <3> QED BY <3>1, <3>2 DEF Steady, Gateways
  <2> QED BY <2>1, <2>2
<1>7. ASSUME NEW r \in Request, Write(r) PROVE Goal
  <2>1. Single(t)'
    BY <1>1, <1>2, <1>7
       DEF Write, AfterWrite, Registering, Single, Busy, Ended, Go, Fail, TypeOK, request
  <2>2. Steady(t)
    <3>1. pc[r] = "write" /\ Busy(r) /\ UNCHANGED <<by, move>> /\ gw[r] \in Gateway
      BY <1>2, <1>7 DEF Write, Busy, Ended, request, local, Assigned
    <3>2. ~Growing(r)' /\ \A q \in Request \ {r} : Growing(q)' => Growing(q)
      BY <1>2, <1>7, <3>1 DEF Write, AfterWrite, Registering, Go, Fail, Growing, TypeOK
    <3>3. CASE lns' = lns
      BY <3>1, <3>2, <3>3 DEF Steady, Gateways
    <3>4. CASE Put(r)
      <4>1. \/ Gateways(t)' \subseteq Gateways(t)
            \/ /\ move[r] /\ by[r] = t
               /\ Gateways(t)' \subseteq Gateways(t) \cup {gw[r]}
        BY <1>2, <3>1, <3>4, PutGives DEF Gateways
      <4> QED BY <3>1, <3>2, <4>1 DEF Steady, Growing
    <3> QED BY <1>7, <3>3, <3>4 DEF Write
  <2> QED BY <2>1, <2>2
<1>8. ASSUME NEW r \in Request, TagWrite(r) PROVE Goal
  <2>1. Single(t)'
    BY <1>1, <1>2, <1>8 DEF TagWrite, Single, Busy, Ended, Go, TypeOK, request
  <2>2. Steady(t)
    <3>1. pc[r] = "tagwrite" /\ UNCHANGED <<by, move>> /\ gw[r] \in Gateway
      BY <1>2, <1>8 DEF TagWrite, request, local, Assigned
    <3>2. \A q \in Request : Growing(q)' => Growing(q)
      BY <1>2, <1>8, <3>1 DEF TagWrite, Go, Growing, TypeOK
    <3>3. Gateways(t)' \subseteq Gateways(t)
      BY <1>2, <1>8, <3>1, PutGives DEF TagWrite, Gateways
    <3> QED BY <3>1, <3>2, <3>3 DEF Steady
  <2> QED BY <2>1, <2>2
<1>9. ASSUME NEW r \in Request, Tags(r) \/ Register(r) \/ AssertOwner(r) PROVE Goal
  <2>1. Single(t)'
    BY <1>1, <1>2, <1>9
       DEF Tags, Register, AssertOwner, Single, Busy, Ended, Go, Fail, TypeOK, request
  <2>2. \A q \in Request : Growing(q)' => Growing(q)
    BY <1>2, <1>9 DEF Tags, Register, AssertOwner, Go, Fail, Growing, TypeOK, local
  <2>3. UNCHANGED <<lns, by>>
    BY <1>9 DEF Tags, Register, AssertOwner, request
  <2> QED BY <2>1, <2>2, <2>3 DEF Steady, Gateways
<1>10. ASSUME NEW r \in Request, AssertMapping(r) PROVE Goal
  <2>0. ~move[r] \/ op[r] # "update"
    BY <1>2 DEF CreateMoves
  <2>1. Single(t)'
    BY <1>1, <1>2, <1>10
       DEF AssertMapping, AfterAssert, Single, Busy, Ended, Go, TypeOK, request
  <2>2. \A q \in Request : Growing(q)' => Growing(q)
    BY <1>2, <1>10, <2>0 DEF AssertMapping, AfterAssert, Go, Growing, TypeOK, local
  <2>3. UNCHANGED <<lns, by>>
    BY <1>10 DEF AssertMapping, request
  <2> QED BY <2>1, <2>2, <2>3 DEF Steady, Gateways
<1>11. ASSUME NEW r \in Request, Remove(r) PROVE Goal
  <2>1. Single(t)'
    BY <1>1, <1>2, <1>11 DEF Remove, Single, Busy, Ended, Go, Fail, TypeOK, request
  <2>2. \A q \in Request : Growing(q)' => Growing(q)
    BY <1>2, <1>11 DEF Remove, Go, Fail, Growing, TypeOK, local
  <2>3. lns' = lns \/ lns' = [lns EXCEPT ![gw[r]] = None]
    BY <1>11 DEF Remove
  <2>4. Gateways(t)' \subseteq Gateways(t) /\ by' = by
    BY <1>2, <1>11, <2>3, NamesAreDistinct DEF Remove, Gateways, TypeOK, request
  <2> QED BY <2>1, <2>2, <2>4 DEF Steady
<1>12. CASE UNCHANGED vars \/ \E s \in Tenant : UpdateStatus(s)
  BY <1>1, <1>12 DEF vars, UpdateStatus, Single, Busy, Steady, Growing, Gateways, request, local
<1> QED BY <1>3, <1>4, <1>5, <1>6, <1>7, <1>8, <1>9, <1>10, <1>11, <1>12 DEF Next

(* A tenant has more gateways than its plan allows only when its requests  *)
(* were side by side or a stale update gave it one back, for any number of *)
(* gateways (QuotaHeld).                                                   *)
THEOREM QuotaIsHeld == ASSUME IsFiniteSet(Gateway) PROVE Spec => []QuotaHeld
<1>1. Init => Counted
  <2> SUFFICES ASSUME Init, NEW t \in Tenant PROVE Single(t) /\ Room(t)
    BY DEF Counted
  <2>1. Gateways(t) = {}
    BY NamesAreDistinct DEF Init, Gateways
  <2>2. Cardinality(Gateways(t)) = 0
    BY <2>1, FS_EmptySet
  <2> QED BY <2>2, BoundsAreNaturals DEF Init, Single, Busy, Ended, Room, Growing
<1>2. IInv /\ Counted /\ [Next]_vars => Counted'
  BY CountedKept
<1>3. Counted => QuotaHeld
  BY DEF Counted, Room, QuotaHeld
<1> QED BY <1>1, <1>2, <1>3, IInvHolds, PTL DEF Spec

-----------------------------------------------------------------------------
(* VPN profiles and scan requests *)

LEMMA FleetSafety == FleetSpec => FleetInit /\ [][FleetNext]_fleetVars
BY PTL DEF FleetSpec

-----------------------------------------------------------------------------
(* The authority and the requests at work *)

\* The types that the argument needs.
Shapes ==
    /\ ca \in 0..Whole /\ server \in {"down", "init", "up"}
    /\ issued \in [CommonName -> Nat] /\ profile \in [CommonName -> Nat] /\ last \in Nat
    /\ column \in [CommonName -> Columns]
    /\ at \in [Call -> Working \cup {"idle", "done", "refused"}]
    /\ kind \in [Call -> {"issue", "revoke"}]
    /\ cn \in [Call -> CommonName \cup {NoName}] /\ got \in [Call -> Nat]
    /\ \A c \in Call : IF at[c] = "idle" THEN cn[c] = NoName ELSE cn[c] \in CommonName

\* Unless it was cut short, EnsureCA leaves nothing or a whole authority.
AuthorityWhole ==
    /\ server = "init" => ca < Whole
    /\ ~cutShort => /\ server = "up" => ca = Whole
                    /\ server = "down" => ca \in {0, Whole}

\* A request is where its kind leads.
StepsOfKind ==
    \A c \in Call :
        /\ at[c] \in {"lookup", "build", "sign", "render", "write"} => kind[c] = "issue"
        /\ at[c] \in {"revoke", "gencrl", "remove"} => kind[c] = "revoke"
        /\ at[c] \in AtPki => server = "up"

\* What a revocation has taken back is called revoked, and is listed once
\* gen-crl has run.
RevokedIsListed ==
    /\ crl \subseteq revoked
    /\ \A c \in Call : kind[c] = "revoke" =>
          /\ at[c] = "gencrl" => got[c] \in revoked
          /\ at[c] \in {"remove", "mark", "done"} => got[c] \in crl

\* The steps at which the records of a gateway do not agree, and one request is
\* about to make them.
Making == {"sign", "render", "write"}
Undoing == {"gencrl", "remove"}

Of(g, steps) == {c \in Call : cn[c] = g /\ at[c] \in steps}

\* On a gateway that is not mixed, the requests at work are of one kind, and at
\* most one of them is past its first look.
Alone(g) ==
    /\ \A c, d \in Of(g, Working) : kind[c] = kind[d]
    /\ \A c, d \in Of(g, Making \cup Undoing) : c = d

Records(g) ==
    /\ Of(g, Making) = {} => (g \in keyed <=> issued[g] # 0)
    /\ Of(g, Making \cup Undoing) = {} => profile[g] = issued[g]
    /\ Of(g, {"mark"}) = {} => (column[g] = "issued" <=> profile[g] # 0)
    /\ \A c \in Of(g, Making) :
          /\ g \in keyed /\ profile[g] = 0
          /\ at[c] = "sign" <=> issued[g] = 0
          /\ at[c] = "write" => got[c] = issued[g]
    /\ \A c \in Of(g, Undoing) : issued[g] = 0
    /\ \A c \in Of(g, {"mark"}) : kind[c] = "issue" <=> profile[g] # 0

VpnInv ==
    /\ Shapes /\ AuthorityWhole /\ StepsOfKind /\ RevokedIsListed
    /\ ~cutShort => \A g \in CommonName \ mixed : Alone(g) /\ Records(g)

LEMMA VpnInitInv == VpnInit => VpnInv
<1> SUFFICES ASSUME VpnInit PROVE VpnInv
  OBVIOUS
<1> USE DEF VpnInit
<1>1. Shapes
  BY DEF Shapes, Whole, Working, AtPlatform, AtPki, Columns
<1>2. AuthorityWhole /\ StepsOfKind /\ RevokedIsListed
  BY DEF AuthorityWhole, StepsOfKind, RevokedIsListed, AtPki
<1>3. ASSUME NEW g \in CommonName PROVE Alone(g) /\ Records(g)
  <2>1. Of(g, Working) = {} /\ Of(g, Making) = {} /\ Of(g, Undoing) = {} /\ Of(g, {"mark"}) = {}
        /\ Of(g, Making \cup Undoing) = {}
    BY DEF Of, Working, AtPlatform, AtPki, Making, Undoing
  <2> QED
    BY <2>1 DEF Alone, Records
<1> QED
  BY <1>1, <1>2, <1>3 DEF VpnInv

LEMMA InForce == VpnInv => ProfileInForce
<1> SUFFICES ASSUME VpnInv, NEW g \in CommonName, Quiet(g), ~cutShort
    PROVE  /\ profile[g] = issued[g]
           /\ g \in keyed <=> issued[g] # 0
           /\ column[g] = "issued" <=> profile[g] # 0
           /\ \A c \in Call : cn[c] = g /\ kind[c] = "revoke" /\ at[c] = "done" => got[c] \in crl
  BY DEF ProfileInForce
<1>1. Of(g, Making) = {} /\ Of(g, Making \cup Undoing) = {} /\ Of(g, {"mark"}) = {}
  BY DEF Quiet, Of, Making, Undoing, Working, AtPlatform, AtPki
<1>2. Records(g)
  BY DEF VpnInv, Quiet
<1> QED
  BY <1>1, <1>2 DEF Records, VpnInv, RevokedIsListed

-----------------------------------------------------------------------------
(* Steps of the service itself *)

\* Of the files and the requests of a gateway nothing changes.
Untouched(g) ==
    /\ profile'[g] = profile[g] /\ issued'[g] = issued[g] /\ column'[g] = column[g]
    /\ g \in keyed' <=> g \in keyed
    /\ \A c \in Call : cn[c] = g \/ cn'[c] = g =>
          cn'[c] = cn[c] /\ at'[c] = at[c] /\ kind'[c] = kind[c] /\ got'[c] = got[c]

LEMMA UntouchedAgrees ==
    ASSUME NEW g \in CommonName, Alone(g), Records(g), Untouched(g)
    PROVE  (Alone(g) /\ Records(g))'
<1>1. \A steps : Of(g, steps)' = {c \in Call : cn'[c] = g /\ at'[c] \in steps}
  BY DEF Of
<1>2. /\ Of(g, Working)' = Of(g, Working) /\ Of(g, Making)' = Of(g, Making)
      /\ Of(g, Undoing)' = Of(g, Undoing) /\ Of(g, {"mark"})' = Of(g, {"mark"})
      /\ Of(g, Making \cup Undoing)' = Of(g, Making \cup Undoing)
  BY DEF Of, Untouched, Working, AtPlatform, AtPki, Making, Undoing
<1>3. \A c \in Of(g, Working) \cup Of(g, Making) \cup Of(g, Undoing) \cup Of(g, {"mark"}) :
         at'[c] = at[c] /\ kind'[c] = kind[c] /\ got'[c] = got[c]
  BY DEF Of, Untouched
<1>4. Alone(g)'
  BY <1>2, <1>3 DEF Alone
<1>5. Records(g)'
  BY <1>2, <1>3 DEF Records, Untouched
<1> QED
  BY <1>4, <1>5

LEMMA ServiceSteps ==
    ASSUME VpnInv, Boot \/ Make \/ Restart PROVE VpnInv'
<1> USE DEF VpnInv
<1>1. CASE Boot
  <2>1. Shapes' /\ AuthorityWhole' /\ StepsOfKind' /\ RevokedIsListed'
    <3>1. Shapes'
      BY <1>1 DEF Boot, Shapes, files, vpnCall
    <3>2. AuthorityWhole'
      BY <1>1 DEF Boot, Shapes, AuthorityWhole, Whole
    <3>3. StepsOfKind' /\ RevokedIsListed'
      BY <1>1 DEF Boot, StepsOfKind, RevokedIsListed, files, vpnCall
    <3> QED
      BY <3>1, <3>2, <3>3
  <2>2. \A g \in CommonName : Untouched(g)
    BY <1>1 DEF Boot, Untouched, files, vpnCall
  <2> QED
    BY <1>1, <2>1, <2>2, UntouchedAgrees DEF Boot
<1>2. CASE Make
  <2>1. Shapes' /\ AuthorityWhole' /\ StepsOfKind' /\ RevokedIsListed'
    <3>1. Shapes'
      BY <1>2 DEF Make, Shapes, AuthorityWhole, files, vpnCall, Whole
    <3>2. AuthorityWhole'
      BY <1>2 DEF Make, Shapes, AuthorityWhole, Whole
    <3>3. StepsOfKind' /\ RevokedIsListed'
      BY <1>2 DEF Make, StepsOfKind, RevokedIsListed, files, vpnCall
    <3> QED
      BY <3>1, <3>2, <3>3
  <2>2. \A g \in CommonName : Untouched(g)
    BY <1>2 DEF Make, Untouched, files, vpnCall
  <2>3. cutShort => cutShort'
    BY <1>2 DEF Make
  <2> QED
    BY <1>2, <2>1, <2>2, <2>3, UntouchedAgrees DEF Make
<1>3. CASE Restart
  <2>1. Shapes'
    BY <1>3 DEF Restart, Shapes, files, Working, AtPki, AtPlatform
  <2>2. AuthorityWhole' /\ StepsOfKind' /\ RevokedIsListed'
    BY <1>3 DEF Restart, Shapes, AuthorityWhole, StepsOfKind, RevokedIsListed, files, AtPki
  <2>3. ASSUME NEW g \in CommonName \ mixed' PROVE g \notin mixed /\ Untouched(g)
    <3>1. \A c \in Call : cn[c] = g => at[c] \notin AtPki
      BY <1>3, <2>3 DEF Restart
    <3> QED
      BY <1>3, <2>3, <3>1 DEF Restart, Untouched, files
  <2>4. cutShort => cutShort'
    BY <1>3 DEF Restart
  <2> QED
    BY <2>1, <2>2, <2>3, <2>4, UntouchedAgrees
<1> QED
  BY <1>1, <1>2, <1>3

-----------------------------------------------------------------------------
(* Steps of the requests *)

\* Types, and what holds of gateways that are mixed too.
Framework == Shapes /\ AuthorityWhole /\ StepsOfKind /\ RevokedIsListed

CallStep(c) ==
    \/ Ask(c) \/ LookUp(c) \/ Build(c) \/ Sign(c) \/ Render(c) \/ WriteProfile(c)
    \/ Revoke(c) \/ GenCrl(c) \/ RemoveProfile(c) \/ Mark(c)

LEMMA FrameworkKept == ASSUME Framework, NEW c \in Call, CallStep(c) PROVE Framework'
<1> USE DEF Framework, Shapes, AuthorityWhole, StepsOfKind, RevokedIsListed, Reach, Hold,
        OtherThanFiles, Smoothly, Breaks, Working, AtPlatform, AtPki, Columns
<1>1. CASE Ask(c)
  BY <1>1 DEF Ask, files
<1>2. CASE LookUp(c)
  BY <1>2 DEF LookUp, files
<1>3. CASE Build(c)
  BY <1>3 DEF Build
<1>4. CASE Sign(c)
  BY <1>4 DEF Sign
<1>5. CASE Render(c)
  BY <1>5 DEF Render, files
<1>6. CASE WriteProfile(c)
  BY <1>6 DEF WriteProfile
<1>7. CASE Revoke(c)
  BY <1>7 DEF Revoke
<1>8. CASE GenCrl(c)
  BY <1>8 DEF GenCrl
<1>9. CASE RemoveProfile(c)
  BY <1>9 DEF RemoveProfile
<1>10. CASE Mark(c)
  BY <1>10 DEF Mark, files
<1> QED
  BY <1>1, <1>2, <1>3, <1>4, <1>5, <1>6, <1>7, <1>8, <1>9, <1>10 DEF CallStep

\* The step of a request leaves the records of the other gateways alone.
LEMMA OthersUntouched ==
    ASSUME Shapes, NEW c \in Call, CallStep(c), NEW g \in CommonName \ mixed', g # cn'[c]
    PROVE  g \notin mixed /\ Untouched(g)
<1> USE DEF Shapes, Untouched, Reach, Hold, OtherThanFiles, Smoothly, Breaks
<1>1. CASE Ask(c)
  BY <1>1, VpnAssumption DEF Ask, files
<1>2. CASE LookUp(c)
  BY <1>2 DEF LookUp, files
<1>3. CASE Build(c)
  BY <1>3 DEF Build
<1>4. CASE Sign(c)
  BY <1>4 DEF Sign
<1>5. CASE Render(c)
  BY <1>5 DEF Render, files
<1>6. CASE WriteProfile(c)
  BY <1>6 DEF WriteProfile
<1>7. CASE Revoke(c)
  BY <1>7 DEF Revoke
<1>8. CASE GenCrl(c)
  BY <1>8 DEF GenCrl
<1>9. CASE RemoveProfile(c)
  BY <1>9 DEF RemoveProfile
<1>10. CASE Mark(c)
  BY <1>10 DEF Mark, files
<1> QED
  BY <1>1, <1>2, <1>3, <1>4, <1>5, <1>6, <1>7, <1>8, <1>9, <1>10 DEF CallStep

\* Its own gateway, unless it becomes mixed.
LEMMA OwnGateway ==
    ASSUME Framework, Framework', NEW c \in Call, CallStep(c), NEW g \in CommonName \ mixed',
           g = cn'[c], g \notin mixed => Alone(g) /\ Records(g), ~cutShort
    PROVE  (Alone(g) /\ Records(g))'
<1> USE DEF Shapes, StepsOfKind, Reach, Hold, OtherThanFiles, Smoothly, Breaks, Of,
        Alone, Records, Making, Undoing, Working, AtPlatform, AtPki
<1>0. Shapes /\ StepsOfKind
  BY DEF Framework
<1>1. CASE Ask(c)
  BY <1>0, <1>1 DEF Ask, files
<1>2. CASE LookUp(c)
  BY <1>0, <1>2 DEF LookUp, files
<1>3. CASE Build(c)
  BY <1>0, <1>3 DEF Build
<1>4. CASE Sign(c)
  BY <1>0, <1>4 DEF Sign
<1>5. CASE Render(c)
  <2>1. ca = Whole
    BY <1>0, <1>5 DEF Render, Framework, AuthorityWhole
  <2> QED
    BY <1>0, <1>5, <2>1 DEF Render, files
<1>6. CASE WriteProfile(c)
  BY <1>0, <1>6 DEF WriteProfile
<1>7. CASE Revoke(c)
  BY <1>0, <1>7 DEF Revoke
<1>8. CASE GenCrl(c)
  BY <1>0, <1>8 DEF GenCrl
<1>9. CASE RemoveProfile(c)
  BY <1>0, <1>9 DEF RemoveProfile
<1>10. CASE Mark(c)
  BY <1>0, <1>10 DEF Mark, files
<1> QED
  BY <1>1, <1>2, <1>3, <1>4, <1>5, <1>6, <1>7, <1>8, <1>9, <1>10 DEF CallStep

LEMMA VpnNextInv == ASSUME VpnInv, [VpnNext]_vpnVars PROVE VpnInv'
<1>1. CASE Boot \/ Make \/ Restart
  BY <1>1, ServiceSteps
<1>2. ASSUME NEW c \in Call, CallStep(c) PROVE VpnInv'
  <2>1. Framework /\ Framework'
    BY <1>2, FrameworkKept DEF VpnInv, Framework
  <2>2. cutShort' = cutShort
    BY <1>2 DEF CallStep, Ask, LookUp, Build, Sign, Render, WriteProfile, Revoke, GenCrl,
       RemoveProfile, Mark, OtherThanFiles
  <2>3. ASSUME ~cutShort, NEW g \in CommonName \ mixed' PROVE (Alone(g) /\ Records(g))'
    <3>1. g \notin mixed => Alone(g) /\ Records(g)
      BY <2>3 DEF VpnInv
    <3>2. CASE g = cn'[c]
      BY <1>2, <2>1, <2>3, <3>1, <3>2, OwnGateway
    <3>3. CASE g # cn'[c]
      BY <1>2, <2>1, <2>3, <3>1, <3>3, OthersUntouched, UntouchedAgrees DEF Framework
    <3> QED
      BY <3>2, <3>3
  <2> QED
    BY <2>1, <2>2, <2>3 DEF VpnInv, Framework
<1>3. CASE UNCHANGED vpnVars
  <2>1. Framework'
    BY <1>3 DEF VpnInv, Framework, Shapes, AuthorityWhole, StepsOfKind, RevokedIsListed,
       vpnVars, files, vpnCall
  <2>2. \A g \in CommonName : Untouched(g)
    BY <1>3 DEF Untouched, vpnVars, files, vpnCall
  <2> QED
    BY <1>3, <2>1, <2>2, UntouchedAgrees DEF VpnInv, Framework, vpnVars
<1> QED
  BY <1>1, <1>2, <1>3 DEF VpnNext, CallStep

-----------------------------------------------------------------------------
(* The scan requests *)

ScanRow == [gw : CommonName, status : {"pending", "running", "completed"}]

ScanShapes ==
    /\ table \in Seq(ScanRow)
    /\ asking \in [Asker -> {"idle", "insert", "done"}]
    /\ askGw \in [Asker -> CommonName \cup {NoName}]
    /\ \A a \in Asker : asking[a] # "idle" => askGw[a] \in CommonName

\* Of a gateway that nobody raced for, one request is open or about to be.
OneAsked(g) ==
    /\ \A i, j \in Rf!OpenOf(g) : i = j
    /\ \A a, b \in Asker :
          /\ asking[a] = "insert" /\ askGw[a] = g
          /\ asking[b] = "insert" /\ askGw[b] = g
          => a = b
    /\ \A a \in Asker : asking[a] = "insert" /\ askGw[a] = g => Rf!OpenOf(g) = {}

ScanInv == ScanShapes /\ \A g \in CommonName \ raced : OneAsked(g)

LEMMA ScanInitInv == Rf!ScanInit => ScanInv
BY DEF Rf!ScanInit, ScanInv, ScanShapes, OneAsked, Rf!OpenOf

LEMMA OneOpen == ScanInv => Rf!OneOpenRequest
BY DEF ScanInv, OneAsked, Rf!OneOpenRequest

\* An agent's step takes or closes what is open, and opens nothing.
LEMMA AgentSteps ==
    ASSUME ScanInv, NEW h \in CommonName, Rf!AgentStep(h) \/ Rf!StartAgain(h)
    PROVE  ScanInv'
<1> DEFINE k == job[h]
           Set(s) == [table[k] EXCEPT !.status = s]
<1>0. table \in Seq(ScanRow)
  BY DEF ScanInv, ScanShapes
<1>1. /\ UNCHANGED <<asking, askGw, raced>>
      /\ \/ UNCHANGED table
         \/ table[k].status = "pending" /\ table' = [table EXCEPT ![k] = Set("running")]
         \/ table' = [table EXCEPT ![k] = Set("completed")]
  BY DEF Rf!AgentStep, Rf!Poll, Rf!MarkRunning, Rf!Scan, Rf!SaveResult,
     Rf!Complete, Rf!StartAgain, Rf!SetStatus, Rf!Turns
<1>2. ASSUME k \in DOMAIN table, NEW s \in {"running", "completed"}
      PROVE  Set(s) \in ScanRow /\ Set(s).gw = table[k].gw /\ Set(s).status = s
  <2>1. table[k] \in ScanRow
    BY <1>0, <1>2
  <2> QED
    BY <2>1 DEF ScanRow
<1> HIDE DEF Set
<1>3. DOMAIN table' = DOMAIN table /\ table' \in Seq(ScanRow)
  BY <1>0, <1>1, <1>2
<1>4. ASSUME NEW i \in DOMAIN table
      PROVE  table'[i].gw = table[i].gw /\ (Rf!IsOpen(i)' => Rf!IsOpen(i))
  BY <1>0, <1>1, <1>2 DEF Rf!IsOpen
<1>5. \A g \in CommonName : Rf!OpenOf(g)' \subseteq Rf!OpenOf(g)
  BY <1>3, <1>4 DEF Rf!OpenOf
<1>6. ScanShapes'
  BY <1>1, <1>3 DEF ScanInv, ScanShapes
<1>7. \A g \in CommonName \ raced' : OneAsked(g)'
  BY <1>1, <1>5 DEF ScanInv, OneAsked
<1> QED
  BY <1>6, <1>7 DEF ScanInv

\* A look-up that finds nothing open lets one asker insert.
LEMMA AskerSteps ==
    ASSUME ScanInv, NEW a \in Asker, Rf!AskScan(a) \/ Rf!InsertRequest(a)
    PROVE  ScanInv'
<1>1. CASE Rf!AskScan(a)
  <2>1. ScanShapes'
    BY <1>1 DEF ScanInv, ScanShapes, Rf!AskScan
  <2>2. ASSUME NEW g \in CommonName \ raced' PROVE OneAsked(g)'
    <3>1. g \notin raced /\ OneAsked(g)
      BY <1>1, <2>2 DEF ScanInv, Rf!AskScan
    <3>2. Rf!OpenOf(g)' = Rf!OpenOf(g)
      BY <1>1 DEF Rf!AskScan, Rf!OpenOf, Rf!IsOpen
    <3>3. \/ /\ asking'[a] = "insert" /\ askGw'[a] = g /\ Rf!OpenOf(g) = {}
             /\ \A b \in Asker : ~(asking[b] = "insert" /\ askGw[b] = g)
          \/ ~(asking'[a] = "insert" /\ askGw'[a] = g)
      BY <1>1, <2>2 DEF ScanInv, ScanShapes, Rf!AskScan
    <3>4. \A b \in Asker \ {a} : asking'[b] = asking[b] /\ askGw'[b] = askGw[b]
      BY <1>1 DEF ScanInv, ScanShapes, Rf!AskScan
    <3> QED
      BY <3>1, <3>2, <3>3, <3>4 DEF OneAsked
  <2> QED
    BY <2>1, <2>2 DEF ScanInv
<1>2. CASE Rf!InsertRequest(a)
  <2> DEFINE row == [gw |-> askGw[a], status |-> "pending"]
  <2>0. table \in Seq(ScanRow) /\ row \in ScanRow
    BY <1>2 DEF ScanInv, ScanShapes, ScanRow, Rf!InsertRequest
  <2>1. /\ asking[a] = "insert" /\ asking' = [asking EXCEPT ![a] = "done"]
        /\ UNCHANGED <<askGw, raced>>
        /\ table' = Append(table, row) \/ table' = table
    BY <1>2 DEF Rf!InsertRequest
  <2>2. ScanShapes'
    BY <2>0, <2>1 DEF ScanInv, ScanShapes
  <2>3. ASSUME NEW g \in CommonName \ raced' PROVE OneAsked(g)'
    <3>1. OneAsked(g)
      BY <2>1, <2>3 DEF ScanInv
    <3>2. \A b \in Asker : asking'[b] = "insert" <=> asking[b] = "insert" /\ b # a
      BY <2>1 DEF ScanInv, ScanShapes
    <3>3. CASE askGw[a] # g \/ table' = table
      <4>1. Rf!OpenOf(g)' = Rf!OpenOf(g)
        BY <2>0, <2>1, <3>3 DEF Rf!OpenOf, Rf!IsOpen
      <4> QED
        BY <2>1, <3>1, <3>2, <4>1 DEF OneAsked
    <3>4. CASE askGw[a] = g /\ table' = Append(table, row)
      <4>1. Rf!OpenOf(g) = {} /\ \A b \in Asker : asking[b] = "insert" /\ askGw[b] = g => b = a
        BY <2>1, <3>1, <3>4 DEF OneAsked
      <4>2. Rf!OpenOf(g)' \subseteq {Len(table) + 1}
        BY <2>0, <3>4, <4>1 DEF Rf!OpenOf, Rf!IsOpen
      <4> QED
        BY <2>1, <3>2, <4>1, <4>2 DEF OneAsked
    <3> QED
      BY <2>1, <3>3, <3>4
  <2> QED
    BY <2>2, <2>3 DEF ScanInv
<1> QED
  BY <1>1, <1>2

LEMMA ScanNextInv == ASSUME ScanInv, [Rf!ScanNext]_scanPart PROVE ScanInv'
<1>1. CASE UNCHANGED scanPart
  BY <1>1 DEF scanPart, ScanInv, ScanShapes, OneAsked, Rf!OpenOf, Rf!IsOpen
<1> QED
  BY <1>1, AgentSteps, AskerSteps DEF Rf!ScanNext, Rf!AgentStep

-----------------------------------------------------------------------------
(* The results *)

LEMMA FleetInvariant == FleetSpec => [](VpnInv /\ ScanInv)
<1>1. FleetInit => VpnInv /\ ScanInv
  BY VpnInitInv, ScanInitInv DEF FleetInit
<1>2. ASSUME VpnInv, ScanInv, [FleetNext]_fleetVars PROVE (VpnInv /\ ScanInv)'
  <2>1. [VpnNext]_vpnVars /\ [Rf!ScanNext]_scanPart
    BY <1>2 DEF FleetNext, fleetVars, vpnPart, scanPart, vpnVars, files, vpnCall
  <2> QED
    BY <1>2, <2>1, VpnNextInv, ScanNextInv
<1> QED
  BY <1>1, <1>2, FleetSafety, PTL

\* Between requests a gateway's VPN profile, certificate, key and row say the
\* same, whatever vpn-pki and its callers go through, and one scan request of a
\* gateway is open at a time, but for the meetings and failures that the
\* properties excuse.
THEOREM FleetRecordsAgree == FleetSpec => []GatewayRecordsAgree
<1>1. VpnInv /\ ScanInv => GatewayRecordsAgree
  BY InForce, OneOpen DEF GatewayRecordsAgree
<1> QED
  BY <1>1, FleetInvariant, PTL
=============================================================================
