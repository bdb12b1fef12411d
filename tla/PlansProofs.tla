------------------------------ MODULE PlansProofs ------------------------------
(***************************************************************************)
(* What a tenant can rely on about its plan, for any number of             *)
(* subscriptions, webhook calls, devices, requests, faults and crashes.    *)
(*                                                                         *)
(* Billing.  The properties speak of a row when all events are answered;   *)
(* the invariant says on the way there that, unless the history is         *)
(* muddled, the newest event that waits tells the truth or the row shows   *)
(* it already (SubscriptionTold, CustomerTold, LimitsTold), and that a     *)
(* webhook call which is past its write has shown its event (WorkShows).   *)
(* It needs the order of the events: one call works on the oldest          *)
(* (InTurn), and no two events of a kind are of one occasion               *)
(* (EventsDiffer).                                                         *)
(*                                                                         *)
(* Devices.  A registration that nothing came in between knows the plan,   *)
(* and room in it; an update knows whether its device is disabled.         *)
(*                                                                         *)
(* Tenants.  What TenantProvisioning keeps for any set of requests, slugs  *)
(* and faults and any number of crashes.                                   *)
(***************************************************************************)
EXTENDS PlansMC, TenantProvisioning, FiniteSetTheorems, TLAPS

-----------------------------------------------------------------------------
(* The billing: what holds of the events Stripe has not seen answered, of  *)
(* the webhook calls at work and, while no event was overtaken or lost and *)
(* no second subscription taken beside a living one, of the row.           *)

Event ==
         [no : Nat, kind : {"change"}, sub : Sub, status : Living, plan : Plan]
    \cup [no : Nat, kind : {"completed"}, sub : Sub, customer : Sub]
    \cup [no : Nat, kind : {"deleted"}, sub : Sub]

Row == [plan : Plan, status : Living \cup {"canceled"}, sub : Sub \cup {None},
        customer : Sub \cup {None}]
Subscription == [status : Living \cup {"none", "open", "canceled"}, plan : Plan,
                 customer : Sub \cup {None}]
Work == [at : {"idle", "write", "limit", "answer"}, event : Event \cup {None}]

BillingTypes ==
    /\ row \in Row /\ limits \in Plan
    /\ stripe \in [Sub -> Subscription]
    /\ \A s \in Sub : stripe[s].status # "none" => stripe[s].customer \in Sub
    /\ outbox \in SUBSET Event
    /\ count \in Nat
    /\ hook \in [Hook -> Work]
    /\ \A h \in Hook : AtWork(h) => hook[h].event \in Event
    /\ \A h \in Hook : hook[h].at = "limit" => hook[h].event.kind = "change"
    /\ muddled \in BOOLEAN

(* The events that write the subscription, and those that write the        *)
(* customer.                                                               *)
Telling(e) == e.kind \in {"change", "deleted"}
Naming(e) == e.kind = "completed"

(* An event speaks of a subscription that was paid for, as it was sold.    *)
EventsTrue ==
    /\ \A e \in Pending : e.no < count /\ e.sub \in Started
    /\ \A e \in Pending : e.kind = "change" => e.plan = stripe[e.sub].plan
    /\ \A e \in Pending : Naming(e) => e.customer = stripe[e.sub].customer

(* One event of a kind on each occasion, one that names the customer for   *)
(* each subscription.                                                      *)
EventsDiffer ==
    /\ \A e, f \in Pending : e.no = f.no /\ Telling(e) /\ Telling(f) => e = f
    /\ \A e, f \in Pending : Naming(e) /\ Naming(f) /\ (e.no = f.no \/ e.sub = f.sub) => e = f

OneLives == \A s, t \in Sub : Alive(s) /\ Alive(t) => s = t

(* What is at work is no newer than anything that waits.                   *)
InTurn == \A h \in Hook : AtWork(h) => \A e \in Pending : hook[h].event.no <= e.no

Shown(e) ==
    /\ e.kind = "change" => row.plan = e.plan /\ row.status = e.status /\ row.sub = e.sub
    /\ e.kind = "deleted" => row.plan = Starter /\ row.status = "canceled" /\ row.sub = None
    /\ Naming(e) => row.customer = e.customer

Done(e) == Shown(e) /\ (e.kind = "change" => limits = e.plan)

(* A call that is past its write has shown its event; one that is over, or *)
(* whose event another call has answered, has done all of it.              *)
WorkShows ==
    \A h \in Hook : AtWork(h) =>
        /\ hook[h].at = "limit" => Shown(hook[h].event)
        /\ hook[h].at = "answer" \/ hook[h].event \notin outbox => Done(hook[h].event)

(* The event tells what Stripe would say today.                            *)
Current(e) ==
    /\ e.kind = "change" => /\ Alive(e.sub) /\ stripe[e.sub].status = e.status
    /\ e.kind = "deleted" => \A s \in Sub : ~Alive(s)

RowCurrent ==
    /\ \A s \in Sub : Alive(s) =>
         row.sub = s /\ row.plan = stripe[s].plan /\ row.status = stripe[s].status
    /\ Started # {} /\ (\A s \in Sub : ~Alive(s)) =>
         row.plan = Starter /\ row.status = "canceled" /\ row.sub = None

(* The newest event that waits tells how things are, or the row does.      *)
SubscriptionTold ==
    \/ \E e \in Pending : /\ Telling(e) /\ Current(e)
                          /\ \A f \in Pending : Telling(f) => f.no <= e.no
    \/ (\A f \in Pending : ~Telling(f)) /\ RowCurrent

CustomerTold ==
    \A s \in Sub : Alive(s) =>
        \/ \E e \in Pending : /\ Naming(e) /\ e.sub = s
                              /\ \A f \in Pending : Naming(f) => f.no <= e.no
        \/ (\A f \in Pending : ~Naming(f)) /\ row.customer = stripe[s].customer

LimitsSold == \E s \in Started : limits = stripe[s].plan

(* The limits are those of the row or, once the row has lost its           *)
(* subscription, of one that was sold; before a deletion is told they are  *)
(* of one that was sold, or a change that sets them is still to come.      *)
LimitsTold ==
    /\ (\A f \in Pending : ~Telling(f)) => limits = row.plan \/ (row.sub = None /\ LimitsSold)
    /\ \A e \in Pending : e.kind = "deleted" =>
         LimitsSold \/ \E f \in Pending : f.kind = "change" /\ f.no < e.no

InOrder == OneLives /\ InTurn /\ WorkShows /\ SubscriptionTold /\ CustomerTold /\ LimitsTold

BillingInv == BillingTypes /\ EventsTrue /\ EventsDiffer /\ (muddled \/ InOrder)

-----------------------------------------------------------------------------
(* The registry: what a registration and an update know at each step,      *)
(* unless something came in between.                                       *)

Registration == [at : {"idle", "plan", "count", "create", "keys"},
                 device : Device \cup {None}, plan : Nat]
Update == [at : {"idle", "write"}, device : Device \cup {None}, set : {None} \cup BOOLEAN,
           value : BOOLEAN]

RegistryTypes ==
    /\ plan \in Size /\ cap \in Size
    /\ present \in SUBSET Device /\ IsFiniteSet(present) /\ off \in SUBSET Device
    /\ reg \in [Reg -> Registration]
    /\ \A r \in Reg : reg[r].at # "idle" => reg[r].device \in Device
    /\ edit \in [Edit -> Update]
    /\ loose \in SUBSET Reg /\ crossed \in SUBSET Edit

RegistrationsInformed ==
    \A r \in Reg : r \notin loose =>
        /\ reg[r].at \in {"count", "create"} => reg[r].plan = plan
        /\ reg[r].at = "create" => Cardinality(Devs!Counted) < plan

UpdatesInformed ==
    \A u \in Edit : edit[u].at = "write" /\ u \notin crossed =>
        \/ edit[u].set = edit[u].value
        \/ edit[u].value = (edit[u].device \in off)

RegistryInv == RegistryTypes /\ RegistrationsInformed /\ UpdatesInformed

Inv == BillingInv /\ RegistryInv

(* DeviceRegistry counts as TenantBilling does.                            *)
LEMMA SameCardinality == ASSUME NEW S PROVE Devs!Cardinality(S) = Cardinality(S)
  BY DEF Devs!Cardinality, Cardinality

LEMMA InitRegistry == ASSUME Devs!RegistryInit PROVE RegistryInv
<1>1. IsFiniteSet({})
  BY FS_EmptySet
<1>2. Devs!Free \in Registration /\ Devs!Still \in Update
  BY DEF Devs!Free, Devs!Still, Registration, Update
<1>3. reg = [r \in Reg |-> Devs!Free] /\ edit = [u \in Edit |-> Devs!Still]
  BY DEF Devs!RegistryInit
<1>4. reg \in [Reg -> Registration] /\ edit \in [Edit -> Update]
  BY <1>2, <1>3
<1>5. /\ plan \in Size /\ cap \in Size /\ present = {} /\ off = {}
      /\ loose = {} /\ crossed = {}
  BY DEF Devs!RegistryInit
<1>6. Devs!Free.at = "idle" /\ Devs!Still.at = "idle"
  BY DEF Devs!Free, Devs!Still
<1>7. RegistryTypes
  BY <1>1, <1>3, <1>4, <1>5, <1>6 DEF RegistryTypes
<1> QED
  BY <1>3, <1>6, <1>7 DEF RegistryInv, RegistrationsInformed, UpdatesInformed

(* A device more or less changes the number of devices by one.             *)
LEMMA OneDevice ==
  ASSUME RegistryTypes, NEW d
  PROVE /\ Cardinality(Devs!Counted) \in Nat
        /\ IsFiniteSet(present \cup {d}) /\ IsFiniteSet(present \ {d})
        /\ Cardinality((present \cup {d}) \ Far) \in Nat
        /\ Cardinality((present \cup {d}) \ Far) <= Cardinality(Devs!Counted) + 1
        /\ Cardinality((present \ {d}) \ Far) <= Cardinality(Devs!Counted)
        /\ Cardinality((present \ {d}) \ Far) \in Nat
<1> DEFINE C == present \ Far
<1>1. IsFiniteSet(present) /\ IsFiniteSet(C)
  BY FS_Difference DEF RegistryTypes
<1>2. \/ (present \cup {d}) \ Far = C
      \/ (present \cup {d}) \ Far = C \cup {d}
  OBVIOUS
<1>3. (present \ {d}) \ Far = C \ {d}
  OBVIOUS
<1>4. IsFiniteSet(present \cup {d}) /\ IsFiniteSet(present \ {d})
  BY <1>1, FS_AddElement, FS_RemoveElement
<1> HIDE DEF C
<1>5. /\ Cardinality(C) \in Nat
      /\ Cardinality(C \cup {d}) \in Nat /\ Cardinality(C \cup {d}) <= Cardinality(C) + 1
      /\ Cardinality(C \ {d}) \in Nat /\ Cardinality(C \ {d}) <= Cardinality(C)
  <2>1. IsFiniteSet(C \cup {d}) /\ IsFiniteSet(C \ {d})
    BY <1>1, FS_AddElement, FS_RemoveElement
  <2>2. /\ Cardinality(C) \in Nat /\ Cardinality(C \cup {d}) \in Nat
        /\ Cardinality(C \ {d}) \in Nat
    BY <1>1, <2>1, FS_CardinalityType
  <2>3. /\ \/ Cardinality(C \cup {d}) = Cardinality(C)
           \/ Cardinality(C \cup {d}) = Cardinality(C) + 1
        /\ \/ Cardinality(C \ {d}) = Cardinality(C)
           \/ Cardinality(C \ {d}) = Cardinality(C) - 1
    BY <1>1, FS_AddElement, FS_RemoveElement
  <2> QED
    BY <2>2, <2>3
<1>6. Devs!Counted = C
  BY DEF C, Devs!Counted
<1>7. /\ Cardinality((present \cup {d}) \ Far) \in Nat
      /\ Cardinality((present \cup {d}) \ Far) <= Cardinality(C) + 1
  BY <1>2, <1>5
<1>8. /\ Cardinality((present \ {d}) \ Far) <= Cardinality(C)
      /\ Cardinality((present \ {d}) \ Far) \in Nat
  BY <1>3, <1>5
<1> QED
  BY <1>4, <1>5, <1>6, <1>7, <1>8

(* A registration moves on and the devices stay as they are: it has to     *)
(* know the plan, and room in it, unless it is loose.                      *)
LEMMA RegistrationMoves ==
  ASSUME RegistryInv, NEW r \in Reg, NEW new \in Registration,
         reg' = [reg EXCEPT ![r] = new], new.at # "idle" => new.device \in Device,
         UNCHANGED <<plan, cap, present, off, edit, crossed>>,
         loose' \in SUBSET Reg, loose \ {r} \subseteq loose',
         r \notin loose' => /\ new.at \in {"count", "create"} => new.plan = plan
                            /\ new.at = "create" => Cardinality(Devs!Counted) < plan
  PROVE RegistryInv'
<1>1. RegistryTypes'
  BY DEF RegistryInv, RegistryTypes
<1>2. RegistrationsInformed'
  BY DEF RegistryInv, RegistryTypes, RegistrationsInformed, Devs!Counted
<1>3. UpdatesInformed'
  BY DEF RegistryInv, UpdatesInformed
<1> QED
  BY <1>1, <1>2, <1>3 DEF RegistryInv

(* The ways in which a registration moves.                                 *)
LEMMA Moves ==
  ASSUME RegistryTypes, NEW r \in Reg
  PROVE /\ \A from, to : Devs!Step(r, from, to) =>
             reg[r].at = from /\ reg' = [reg EXCEPT ![r] = [reg[r] EXCEPT !.at = to]]
        /\ Devs!Ends(r) => /\ reg' = [reg EXCEPT ![r] = Devs!Free]
                           /\ loose' = loose \ {r}
        /\ Devs!Free \in Registration /\ Devs!Free.at = "idle"
        /\ reg[r] \in Registration
        /\ reg[r].at # "idle" => reg[r].device \in Device
        /\ plan \in Nat /\ loose \in SUBSET Reg
<1>1. Devs!Free \in Registration /\ Devs!Free.at = "idle"
  BY DEF Devs!Free, Registration
<1> QED
  BY <1>1, SizeAssumption DEF RegistryTypes, Devs!Step, Devs!Ends

LEMMA RegistrationStep ==
  ASSUME RegistryInv, NEW r \in Reg,
         \/ Devs!AskDevice(r) \/ Devs!ReadPlan(r) \/ Devs!CountDevices(r) \/ Devs!CreateKeys(r)
  PROVE RegistryInv'
<1>0. RegistryTypes /\ reg \in [Reg -> Registration]
  BY DEF RegistryInv, RegistryTypes
<1>1. /\ reg[r] \in Registration /\ plan \in Nat /\ loose \in SUBSET Reg
      /\ Devs!Free \in Registration /\ Devs!Free.at = "idle"
      /\ reg[r].at # "idle" => reg[r].device \in Device
  BY <1>0, Moves
<1>2. ASSUME Devs!Ends(r), UNCHANGED <<plan, cap, present, off, edit, crossed>>
      PROVE RegistryInv'
  BY <1>0, <1>1, <1>2, Moves, RegistrationMoves
<1>3. CASE Devs!AskDevice(r)
  <2>1. PICK d \in Device : reg' = [reg EXCEPT ![r].at = "plan", ![r].device = d]
    BY <1>3 DEF Devs!AskDevice
  <2> DEFINE new == [reg[r] EXCEPT !.at = "plan", !.device = d]
  <2>2. reg' = [reg EXCEPT ![r] = new]
    BY <1>0, <2>1
  <2>3. new \in Registration /\ new.at = "plan" /\ new.device = d
    BY <1>1 DEF Registration
  <2>4. UNCHANGED <<plan, cap, present, off, edit, crossed, loose>>
    BY <1>3 DEF Devs!AskDevice, Devs!devices, Devs!crossings
  <2> HIDE DEF new
  <2> QED
    BY <1>1, <2>2, <2>3, <2>4, RegistrationMoves
<1>4. CASE Devs!ReadPlan(r)
  <2>1. UNCHANGED <<plan, cap, present, off, edit, crossed>>
    BY <1>4 DEF Devs!ReadPlan, Devs!devices
  <2>2. CASE /\ reg' = [reg EXCEPT ![r].at = "count", ![r].plan = plan]
             /\ loose' = loose \ {r}
    <3> DEFINE new == [reg[r] EXCEPT !.at = "count", !.plan = plan]
    <3>1. reg' = [reg EXCEPT ![r] = new]
      BY <1>0, <2>2
    <3>2. /\ new \in Registration /\ new.at = "count" /\ new.plan = plan
          /\ new.device = reg[r].device
      BY <1>1 DEF Registration
    <3>3. reg[r].at = "plan"
      BY <1>4 DEF Devs!ReadPlan
    <3> HIDE DEF new
    <3> QED
      BY <1>1, <3>3, <2>1, <2>2, <3>1, <3>2, RegistrationMoves
  <2> QED
    BY <1>2, <1>4, <2>1, <2>2 DEF Devs!ReadPlan
<1>5. CASE Devs!CountDevices(r)
  <2>1. UNCHANGED <<plan, cap, present, off, edit, crossed>> /\ reg[r].at = "count"
    BY <1>5 DEF Devs!CountDevices, Devs!devices
  <2>2. CASE Devs!Step(r, "count", "create")
    <3> DEFINE new == [reg[r] EXCEPT !.at = "create"]
    <3>1. reg' = [reg EXCEPT ![r] = new]
      BY <1>0, <2>2, Moves
    <3>2. /\ new \in Registration /\ new.at = "create" /\ new.plan = reg[r].plan
          /\ new.device = reg[r].device
      BY <1>1 DEF Registration
    <3>3. r \notin loose => reg[r].plan = plan
      BY <2>1 DEF RegistryInv, RegistrationsInformed
    <3>4. \/ Cardinality(Devs!Counted) < reg[r].plan /\ loose' = loose
          \/ loose' = loose \cup {r}
          \/ Devs!Ends(r)
      BY <1>5, SameCardinality DEF Devs!CountDevices, Devs!Allows
    <3> HIDE DEF new
    <3>5. ASSUME loose' = loose \/ loose' = loose \cup {r},
                 r \notin loose' => Cardinality(Devs!Counted) < reg[r].plan
          PROVE RegistryInv'
      BY <1>1, <2>1, <3>1, <3>2, <3>3, <3>5, RegistrationMoves
    <3> QED
      BY <1>2, <2>1, <3>4, <3>5
  <2>3. CASE Devs!Ends(r)
    BY <1>2, <2>1, <2>3
  <2> QED
    BY <1>5, <2>2, <2>3 DEF Devs!CountDevices
<1>6. CASE Devs!CreateKeys(r)
  <2>1. UNCHANGED <<plan, cap, present, off, edit, crossed>>
    BY <1>6 DEF Devs!CreateKeys, Devs!devices
  <2> QED
    BY <1>2, <1>6, <2>1 DEF Devs!CreateKeys
<1> QED
  BY <1>3, <1>4, <1>5, <1>6

(* The plan or the limits change: nobody at work knows the plan any more.  *)
LEMMA BillStep == ASSUME RegistryInv, Devs!Bill PROVE RegistryInv'
<1>1. /\ plan' \in Size /\ cap' \in Size /\ loose' \in SUBSET Reg
      /\ UNCHANGED <<present, off, reg, edit, crossed>>
  BY DEF RegistryInv, RegistryTypes, Devs!Bill, Devs!devices, Devs!calls, Devs!Registering
<1>2. RegistryTypes'
  BY <1>1 DEF RegistryInv, RegistryTypes
<1>3. RegistrationsInformed'
  BY <1>1 DEF RegistryInv, RegistrationsInformed, Devs!Bill, Devs!Registering, Devs!Counted
<1> QED
  BY <1>1, <1>2, <1>3 DEF RegistryInv, UpdatesInformed

(* Another device: the registrations and updates at work that it concerns  *)
(* are loose and crossed.                                                  *)
LEMMA CreateStep ==
  ASSUME RegistryInv, NEW r \in Reg, Devs!CreateDevice(r)
  PROVE RegistryInv'
<1> DEFINE d == reg[r].device
<1>0. RegistryTypes /\ reg \in [Reg -> Registration]
  BY DEF RegistryInv, RegistryTypes
<1>1. /\ reg[r] \in Registration /\ plan \in Nat /\ loose \in SUBSET Reg
      /\ Devs!Free \in Registration /\ Devs!Free.at = "idle"
      /\ reg[r].at # "idle" => reg[r].device \in Device
  BY <1>0, Moves
<1>2. UNCHANGED <<plan, cap, off, edit>>
  BY DEF Devs!CreateDevice
<1>3. CASE ~Devs!Makes(r)
  <2>1. Devs!Ends(r) /\ UNCHANGED <<present, crossed>>
    BY <1>3 DEF Devs!CreateDevice
  <2> QED
    BY <1>0, <1>1, <1>2, <2>1, Moves, RegistrationMoves
<1>4. CASE Devs!Makes(r)
  <2>1. /\ present' = present \cup {d} /\ crossed' = crossed \cup Devs!Editing(d)
        /\ loose \ {r} \subseteq loose' /\ Devs!Registering \ {r} \subseteq loose'
        /\ loose' \in SUBSET Reg
    BY <1>1, <1>4 DEF Devs!CreateDevice, Devs!Registering
  <2> DEFINE new == [reg[r] EXCEPT !.at = "keys"]
  <2>2. /\ new \in Registration /\ new.at = "keys" /\ new.device = d
        /\ reg' = [reg EXCEPT ![r] = new] \/ reg' = [reg EXCEPT ![r] = Devs!Free]
    <3>1. new \in Registration /\ new.at = "keys" /\ new.device = d
      BY <1>1 DEF Registration
    <3>2. Devs!Step(r, "create", "keys") => reg' = [reg EXCEPT ![r] = new]
      BY <1>0, Moves
    <3>3. Devs!Step(r, "create", "keys") \/ reg' = [reg EXCEPT ![r] = Devs!Free]
      BY <1>4 DEF Devs!CreateDevice
    <3> HIDE DEF new
    <3> QED
      BY <3>1, <3>2, <3>3
  <2> HIDE DEF new
  <2>3. reg' \in [Reg -> Registration] /\ reg'[r].at \in {"keys", "idle"}
        /\ \A q \in Reg \ {r} : reg'[q] = reg[q]
    BY <1>0, <1>1, <2>2
  <2>4. d \in Device
    BY <1>1 DEF Devs!CreateDevice
  <2>5. reg'[r].at # "idle" => reg'[r].device = d
    BY <1>0, <1>1, <2>2 DEF Registration
  <2>6. RegistryTypes'
    BY <1>0, <1>2, <2>1, <2>3, <2>4, <2>5, OneDevice DEF RegistryTypes, Devs!Editing
  <2>7. RegistrationsInformed'
    BY <2>1, <2>3 DEF RegistrationsInformed, Devs!Registering
  <2>8. UpdatesInformed'
    BY <1>2, <2>1 DEF RegistryInv, UpdatesInformed, Devs!Editing
  <2> QED
    BY <2>6, <2>7, <2>8 DEF RegistryInv
<1> QED
  BY <1>3, <1>4

LEMMA DeleteStep ==
  ASSUME RegistryInv, NEW d \in Device, Devs!DeleteDevice(d)
  PROVE RegistryInv'
<1>1. /\ present' = present \ {d} /\ off' = off \ {d}
      /\ crossed' = crossed \cup Devs!Editing(d)
      /\ UNCHANGED <<plan, cap, reg, edit, loose>>
  BY DEF Devs!DeleteDevice, Devs!calls
<1>2. RegistryTypes'
  BY <1>1, OneDevice DEF RegistryInv, RegistryTypes, Devs!Editing
<1>3. RegistrationsInformed'
  <2> DEFINE n == Cardinality(Devs!Counted)
             m == Cardinality((present \ {d}) \ Far)
  <2>1. m <= n /\ n \in Nat /\ m \in Nat /\ plan \in Nat
    BY OneDevice, SizeAssumption DEF RegistryInv, RegistryTypes
  <2>2. n' = m
    BY <1>1 DEF Devs!Counted
  <2> HIDE DEF m
  <2> QED
    BY <1>1, <2>1, <2>2 DEF RegistryInv, RegistrationsInformed
<1>4. UpdatesInformed'
  BY <1>1 DEF RegistryInv, UpdatesInformed, Devs!Editing
<1> QED
  BY <1>2, <1>3, <1>4 DEF RegistryInv

LEMMA ReadStep ==
  ASSUME RegistryInv, NEW u \in Edit, Devs!ReadDevice(u)
  PROVE RegistryInv'
<1>1. PICK d \in present, want \in {None, TRUE, FALSE} :
         edit' = [edit EXCEPT ![u] = [at |-> "write", device |-> d, set |-> want,
                                      value |-> Devs!Merged(d, want)]]
  BY DEF Devs!ReadDevice
<1> DEFINE new == [at |-> "write", device |-> d, set |-> want, value |-> Devs!Merged(d, want)]
<1>2. UNCHANGED <<plan, cap, present, off, reg, loose, crossed>>
  BY DEF Devs!ReadDevice, Devs!devices, Devs!crossings
<1>3. RegistryTypes
  BY DEF RegistryInv
<1>4. d \in Device /\ want \in {None} \cup BOOLEAN
  BY <1>3 DEF RegistryTypes
<1>5. Devs!Merged(d, want) \in BOOLEAN
  <2>1. CASE want = None
    <3>1. Devs!Merged(d, want) = (d \in off)
      BY <2>1, Zenon DEF Devs!Merged
    <3>2. (d \in off) \in BOOLEAN
      OBVIOUS
    <3> QED
      BY <3>1, <3>2, Zenon
  <2>2. CASE want # None
    <3>1. Devs!Merged(d, want) = want
      BY <2>2, Zenon DEF Devs!Merged
    <3>2. want = TRUE \/ want = FALSE
      BY <2>2
    <3> QED
      BY <3>1, <3>2, Zenon
  <2> QED
    BY <2>1, <2>2
<1>6. Devs!Merged(d, want) = (d \in off) \/ Devs!Merged(d, want) = want
  BY Zenon DEF Devs!Merged
<1>7. new \in Update /\ new.device = d
  BY <1>4, <1>5 DEF Update
<1>8. new.value = (new.device \in off) \/ new.set = new.value
  BY <1>6
<1> HIDE DEF new
<1>9. RegistryTypes'
  BY <1>1, <1>2, <1>3, <1>7 DEF RegistryTypes, new
<1>10. UpdatesInformed'
  <2>1. edit'[u] = new /\ \A v \in Edit \ {u} : edit'[v] = edit[v]
    BY <1>1, <1>3 DEF RegistryTypes, new
  <2>2. ASSUME NEW v \in Edit, (edit[v].at = "write" /\ v \notin crossed)'
        PROVE  (\/ edit[v].set = edit[v].value
                \/ edit[v].value = (edit[v].device \in off))'
    <3>1. CASE v = u
      BY <1>2, <1>8, <2>1, <3>1
    <3>2. CASE v # u
      <4>1. edit'[v] = edit[v] /\ off' = off /\ crossed' = crossed
        BY <1>2, <2>1, <3>2
      <4>2. edit[v].set = edit[v].value \/ edit[v].value = (edit[v].device \in off)
        BY <2>2, <4>1 DEF RegistryInv, UpdatesInformed
      <4> QED
        BY <4>1, <4>2
    <3> QED
      BY <3>1, <3>2
  <2> QED
    BY <2>2 DEF UpdatesInformed
<1> QED
  BY <1>2, <1>9, <1>10 DEF RegistryInv, RegistrationsInformed, Devs!Counted

LEMMA WriteStep ==
  ASSUME RegistryInv, NEW u \in Edit, Devs!WriteDevice(u)
  PROVE RegistryInv'
<1> DEFINE d == edit[u].device
<1>0. RegistryTypes
  BY DEF RegistryInv
<1>1. /\ UNCHANGED <<plan, cap, present, reg, loose>>
      /\ edit' = [edit EXCEPT ![u] = Devs!Still]
  BY DEF Devs!WriteDevice
<1>2. Devs!Still \in Update /\ Devs!Still.at = "idle"
  BY DEF Devs!Still, Update
<1>3. \/ d \in present /\ crossed' = (crossed \cup Devs!Editing(d)) \ {u}
      \/ off' = off /\ crossed' = crossed \ {u}
  BY DEF Devs!WriteDevice
<1>4. off' = off \cup {d} \/ off' = off \ {d} \/ off' = off
  BY DEF Devs!WriteDevice
<1>5. \A e \in Device : e = d \/ (e \in off' <=> e \in off)
  BY <1>4
<1>6. edit' \in [Edit -> Update] /\ \A v \in Edit \ {u} : edit'[v] = edit[v]
  BY <1>0, <1>1, <1>2 DEF RegistryTypes
<1>7. RegistryTypes'
  <2>1. off' \in SUBSET Device
    BY <1>0, <1>3, <1>4 DEF RegistryTypes
  <2>2. crossed' \in SUBSET Edit
    BY <1>0, <1>3 DEF RegistryTypes, Devs!Editing
  <2> QED
    BY <1>0, <1>1, <1>6, <2>1, <2>2 DEF RegistryTypes
<1>8. UpdatesInformed'
  <2>1. ASSUME NEW v \in Edit, (edit[v].at = "write" /\ v \notin crossed)'
        PROVE  (\/ edit[v].set = edit[v].value
                \/ edit[v].value = (edit[v].device \in off))'
    <3>1. v # u
      BY <1>0, <1>1, <1>2, <2>1 DEF RegistryTypes
    <3>2. edit'[v] = edit[v] /\ edit[v].at = "write" /\ v \notin crossed
      BY <1>3, <1>6, <2>1, <3>1
    <3>3. edit[v].set = edit[v].value \/ edit[v].value = (edit[v].device \in off)
      BY <3>2 DEF RegistryInv, UpdatesInformed
    <3>4. (edit[v].device \in off') = (edit[v].device \in off)
      <4>1. CASE off' = off
        BY <4>1
      <4>2. CASE crossed' = (crossed \cup Devs!Editing(d)) \ {u}
        <5>1. edit[v].device # d
          BY <2>1, <3>1, <3>2, <4>2 DEF Devs!Editing
        <5> QED
          BY <1>4, <5>1
      <4> QED
        BY <1>3, <4>1, <4>2
    <3> QED
      BY <3>2, <3>3, <3>4, Zenon
  <2> QED
    BY <2>1 DEF UpdatesInformed
<1> QED
  BY <1>1, <1>7, <1>8 DEF RegistryInv, RegistrationsInformed, Devs!Counted

LEMMA RegistryStep == ASSUME RegistryInv, Devs!RegistryNext PROVE RegistryInv'
  BY BillStep, RegistrationStep, CreateStep, DeleteStep, ReadStep, WriteStep
     DEF Devs!RegistryNext

(* Where a device is added, the registration that adds it knows of room    *)
(* for it.                                                                 *)
LEMMA AddsWithinPlan ==
  ASSUME RegistryInv, Devs!RegistryNext, NEW d \in present' \ present
  PROVE \E r \in Reg : /\ reg[r].device = d
                       /\ r \in loose \/ Cardinality(Devs!Counted') <= plan
<1>1. ASSUME NEW r \in Reg, Devs!CreateDevice(r)
      PROVE /\ reg[r].device = d
            /\ r \in loose \/ Cardinality(Devs!Counted') <= plan
  <2>1. present' = present \cup {reg[r].device}
    BY <1>1 DEF Devs!CreateDevice
  <2>2. d = reg[r].device /\ reg[r].at = "create"
    BY <1>1, <2>1 DEF Devs!CreateDevice
  <2>3. r \in loose \/ Cardinality(Devs!Counted) < plan
    BY <2>2 DEF RegistryInv, RegistrationsInformed
  <2>4. plan \in Nat /\ Cardinality(Devs!Counted) \in Nat
        /\ Cardinality(Devs!Counted') \in Nat
        /\ Cardinality(Devs!Counted') <= Cardinality(Devs!Counted) + 1
    <3>1. Devs!Counted' = (present \cup {d}) \ Far
      BY <2>1, <2>2 DEF Devs!Counted
    <3> QED
      BY <3>1, OneDevice, SizeAssumption DEF RegistryInv, RegistryTypes
  <2> QED
    BY <2>2, <2>3, <2>4
<1>2. \/ present' \subseteq present
      \/ \E r \in Reg : Devs!CreateDevice(r)
  BY DEF Devs!RegistryNext, Devs!Bill, Devs!AskDevice, Devs!ReadPlan, Devs!CountDevices,
         Devs!CreateKeys, Devs!DeleteDevice, Devs!ReadDevice, Devs!WriteDevice, Devs!devices
<1> QED
  BY <1>1, <1>2

(* Where a device is disabled or enabled, the update that does it was      *)
(* crossed or says so.                                                     *)
LEMMA WritesAsRequested ==
  ASSUME RegistryInv, Devs!RegistryNext, NEW d \in present \cap present',
         (d \in off) # (d \in off')
  PROVE \E u \in Edit : /\ edit[u].device = d
                        /\ u \in crossed \/ edit[u].set = (d \in off')
<1>1. ASSUME NEW u \in Edit, Devs!WriteDevice(u)
      PROVE /\ edit[u].device = d
            /\ u \in crossed \/ edit[u].set = (d \in off')
  <2>1. off' = IF edit[u].value THEN off \cup {edit[u].device} ELSE off \ {edit[u].device}
    BY <1>1 DEF Devs!WriteDevice
  <2>2. edit[u].device = d
    BY <2>1
  <2>3. edit[u].value \in BOOLEAN
    BY DEF RegistryInv, RegistryTypes, Update
  <2>4. edit[u].value = (d \in off')
    BY <2>1, <2>2, <2>3
  <2>5. edit[u].at = "write"
    BY <1>1 DEF Devs!WriteDevice
  <2>6. \/ u \in crossed
        \/ edit[u].set = edit[u].value \/ edit[u].value = (edit[u].device \in off)
    BY <2>5 DEF RegistryInv, UpdatesInformed
  <2> QED
    BY <2>2, <2>4, <2>6, Zenon
<1>2. \/ off' = off
      \/ \E e \in Device : present' = present \ {e} /\ off' = off \ {e}
      \/ \E u \in Edit : Devs!WriteDevice(u)
  BY DEF Devs!RegistryNext, Devs!Bill, Devs!AskDevice, Devs!ReadPlan, Devs!CountDevices,
         Devs!CreateDevice, Devs!CreateKeys, Devs!DeleteDevice, Devs!ReadDevice, Devs!devices
<1> QED
  BY <1>1, <1>2

-----------------------------------------------------------------------------
(* The billing, step by step. *)

LEMMA InitBilling == ASSUME BillingInit PROVE BillingInv
<1>1. PICK p \in Plan :
        /\ row = [plan |-> p, status |-> "active", sub |-> None, customer |-> None]
        /\ limits = p
  BY DEF BillingInit
<1>2. /\ stripe = [s \in Sub |-> [status |-> "none", plan |-> Starter, customer |-> None]]
      /\ outbox = {} /\ count = 0 /\ hook = [h \in Hook |-> Idle] /\ muddled = FALSE
  BY DEF BillingInit
<1>3. Idle \in Work /\ Idle.at = "idle"
  BY DEF Idle, Work
<1>4. /\ row \in Row /\ row.sub = None /\ limits = row.plan
      /\ [status |-> "none", plan |-> Starter, customer |-> None] \in Subscription
  BY <1>1, BillingAssumption DEF Row, Living, Subscription
<1>5. \A h \in Hook : ~AtWork(h)
  BY <1>2, <1>3 DEF AtWork
<1>6. Pending = {} /\ Started = {} /\ \A s \in Sub : ~Alive(s)
  BY <1>2, <1>5 DEF Pending, Started, Alive, Living
<1>7. BillingTypes
  BY <1>1, <1>2, <1>3, <1>4, <1>5 DEF BillingTypes
<1>8. EventsTrue /\ EventsDiffer /\ OneLives /\ InTurn /\ WorkShows /\ CustomerTold
  BY <1>5, <1>6 DEF EventsTrue, EventsDiffer, OneLives, InTurn, WorkShows, CustomerTold
<1>9. SubscriptionTold /\ LimitsTold
  BY <1>4, <1>6 DEF SubscriptionTold, RowCurrent, LimitsTold
<1> QED
  BY <1>7, <1>8, <1>9 DEF BillingInv, InOrder

(* What a pending event is.                                                *)
LEMMA PendingTypes ==
  ASSUME BillingTypes, NEW e \in Pending
  PROVE /\ e \in Event /\ e.no \in Nat /\ e.sub \in Sub
        /\ e.kind \in {"change", "completed", "deleted"}
        /\ Telling(e) <=> ~Naming(e)
        /\ e \in outbox \/ \E h \in Hook : AtWork(h) /\ hook[h].event = e
<1>1. e \in outbox \/ \E h \in Hook : AtWork(h) /\ hook[h].event = e
  BY DEF Pending
<1>2. e \in Event
  BY <1>1 DEF BillingTypes
<1> QED
  BY <1>1, <1>2 DEF Event, Telling, Naming

LEMMA AtWorkIsPending ==
  ASSUME BillingTypes, NEW h \in Hook, AtWork(h)
  PROVE hook[h].event \in Pending
  BY DEF Pending

(* A call goes on with its event and leaves what it has to show.           *)
LEMMA CallGoesOn ==
  ASSUME BillingInv, NEW h \in Hook, AtWork(h), NEW e, e = hook[h].event,
         NEW to \in {"limit", "answer"},
         hook' = [hook EXCEPT ![h].at = to], UNCHANGED <<outbox, stripe, count>>,
         row' \in Row, limits' \in Plan, muddled' \in BOOLEAN, muddled => muddled',
         to = "limit" => e.kind = "change",
         muddled' \/ /\ Shown(e)'
                     /\ to = "answer" \/ Done(e) => Done(e)'
                     /\ e.kind = "change" \/ UNCHANGED limits
                     /\ e.kind = "change" =>
                          limits' \in {limits, e.plan}
                     /\ Naming(e) =>
                          /\ row'.plan = row.plan /\ row'.status = row.status
                          /\ row'.sub = row.sub
                     /\ Telling(e) => row'.customer = row.customer
  PROVE BillingInv'
<1> DEFINE new == [hook[h] EXCEPT !.at = to]
<1>0. BillingTypes /\ EventsTrue /\ EventsDiffer
  BY DEF BillingInv
<1>1. hook \in [Hook -> Work] /\ hook[h] \in Work
  BY <1>0 DEF BillingTypes
<1>2. new \in Work /\ new.at = to /\ new.event = e
  BY <1>1 DEF Work
<1>3. hook' = [hook EXCEPT ![h] = new]
  BY <1>1
<1> HIDE DEF new
<1>4. /\ hook' \in [Hook -> Work] /\ hook'[h] = new
      /\ \A k \in Hook \ {h} : hook'[k] = hook[k]
  BY <1>1, <1>2, <1>3
<1>5. \A k \in Hook : (AtWork(k)' <=> AtWork(k)) /\ hook'[k].event = hook[k].event
  BY <1>2, <1>4 DEF AtWork
<1>6. Pending' = Pending
  BY <1>5 DEF Pending
<1>7. BillingTypes'
  BY <1>0, <1>2, <1>4, <1>5 DEF BillingTypes
<1>8. EventsTrue' /\ EventsDiffer' /\ Started' = Started /\ \A s \in Sub : Alive(s)' = Alive(s)
  BY <1>0, <1>6 DEF EventsTrue, EventsDiffer, Started, Alive
<1>9. ASSUME ~muddled'
      PROVE InOrder'
  <2>1. InOrder /\ Shown(e)' /\ (to = "answer" \/ Done(e) => Done(e)')
    BY <1>9 DEF BillingInv, BillingTypes
  <2>2. /\ e.kind = "change" \/ UNCHANGED limits
        /\ e.kind = "change" => limits' \in {limits, e.plan}
        /\ Naming(e) => row'.plan = row.plan /\ row'.status = row.status /\ row'.sub = row.sub
        /\ Telling(e) => row'.customer = row.customer
    BY <1>9
  <2>3. e \in Pending
    BY <1>0, AtWorkIsPending
  <2>4. ASSUME NEW f \in Pending, f.no = e.no
        PROVE (Shown(f) => Shown(f)') /\ (Done(f) => Done(f)')
    <3>1. f = e \/ (Telling(f) /\ Naming(e)) \/ (Naming(f) /\ Telling(e))
      BY <1>0, <2>3, <2>4, PendingTypes DEF EventsDiffer
    <3>2. CASE f = e
      BY <2>1, <3>2 DEF Done
    <3>3. CASE Telling(f) /\ Naming(e)
      BY <2>2, <3>3 DEF Telling, Naming, Shown, Done
    <3>4. CASE Naming(f) /\ Telling(e)
      BY <2>2, <3>4 DEF Telling, Naming, Shown, Done
    <3> QED
      BY <3>1, <3>2, <3>3, <3>4
  <2>5. WorkShows'
    <3>1. ASSUME NEW k \in Hook, AtWork(k), NEW f, f = hook[k].event
          PROVE /\ hook'[k].at = "limit" => Shown(f)'
                /\ hook'[k].at = "answer" \/ f \notin outbox => Done(f)'
      <4>1. f \in Pending
        BY <1>0, <3>1, AtWorkIsPending
      <4>2. f.no = e.no
        BY <1>0, <2>1, <2>3, <3>1, <4>1, PendingTypes DEF InOrder, InTurn
      <4>3. /\ hook[k].at = "limit" => Shown(f)
            /\ hook[k].at = "answer" \/ f \notin outbox => Done(f)
        BY <2>1, <3>1 DEF InOrder, WorkShows
      <4>4. CASE k # h
        BY <1>4, <2>4, <4>1, <4>2, <4>3, <4>4
      <4>5. CASE k = h
        BY <1>2, <1>4, <2>1, <3>1, <4>3, <4>5
      <4> QED
        BY <4>4, <4>5
    <3>2. ASSUME NEW k \in Hook, AtWork(k)'
          PROVE (/\ hook[k].at = "limit" => Shown(hook[k].event)
                 /\ hook[k].at = "answer" \/ hook[k].event \notin outbox => Done(hook[k].event))'
      <4>1. PICK f : f = hook[k].event
        OBVIOUS
      <4>2. AtWork(k) /\ hook'[k].event = f /\ outbox' = outbox
        BY <1>5, <3>2, <4>1
      <4>3. /\ hook'[k].at = "limit" => Shown(f)'
            /\ hook'[k].at = "answer" \/ f \notin outbox => Done(f)'
        BY <3>1, <4>1, <4>2
      <4> QED
        BY <4>2, <4>3 DEF Shown, Done
    <3> QED
      BY <3>2 DEF WorkShows
  <2>6. OneLives' /\ InTurn'
    BY <1>5, <1>6, <1>8, <2>1 DEF InOrder, OneLives, InTurn
  <2>7. SubscriptionTold'
    <3>1. CASE Telling(e)
      <4>1. PICK f \in Pending : /\ Telling(f) /\ Current(f)
                                 /\ \A g \in Pending : Telling(g) => g.no <= f.no
        BY <2>1, <2>3, <3>1 DEF InOrder, SubscriptionTold
      <4>2. Current(f)'
        BY <4>1 DEF Current, Alive
      <4> QED
        BY <1>6, <4>1, <4>2 DEF SubscriptionTold, Telling
    <3>2. CASE ~Telling(e)
      <4>1. row'.plan = row.plan /\ row'.status = row.status /\ row'.sub = row.sub
        BY <1>0, <2>2, <2>3, <3>2, PendingTypes
      <4>2. RowCurrent' = RowCurrent
        BY <1>8, <4>1 DEF RowCurrent
      <4>3. \A f \in Pending : Current(f)' = Current(f)
        BY DEF Current, Alive
      <4> QED
        BY <1>6, <2>1, <4>2, <4>3 DEF InOrder, SubscriptionTold, Telling
    <3> QED
      BY <3>1, <3>2
  <2>8. CustomerTold'
    <3>1. Naming(e) \/ row'.customer = row.customer
      BY <1>0, <2>2, <2>3, PendingTypes
    <3> QED
      BY <1>6, <1>8, <2>1, <2>3, <3>1 DEF InOrder, CustomerTold, Naming
  <2>9. LimitsTold'
    <3>1. LimitsSold => LimitsSold'
      BY <1>0, <1>8, <2>2, <2>3 DEF LimitsSold, EventsTrue
    <3>2. Telling(e) \/ (row'.plan = row.plan /\ row'.sub = row.sub /\ limits' = limits)
      BY <1>0, <2>2, <2>3, PendingTypes DEF Telling
    <3> QED
      BY <1>6, <2>1, <2>3, <3>1, <3>2 DEF InOrder, LimitsTold, Telling
  <2> QED
    BY <2>5, <2>6, <2>7, <2>8, <2>9 DEF InOrder
<1> QED
  BY <1>7, <1>8, <1>9 DEF BillingInv

(* What the handlers do to the row and the limits.                         *)
LEMMA WebhookStep ==
  ASSUME BillingInv, NEW h \in Hook,
         ApplyChange(h) \/ ApplyDeletion(h) \/ ApplyCompleted(h) \/ UpdateLimits(h)
  PROVE BillingInv'
<1>0. PICK e : e = hook[h].event
  OBVIOUS
<1>1. AtWork(h)
  BY DEF ApplyChange, ApplyDeletion, ApplyCompleted, UpdateLimits, AtWork
<1>2. /\ BillingTypes /\ e \in Pending /\ e \in Event
      /\ row \in Row /\ limits \in Plan /\ muddled \in BOOLEAN
  BY <1>0, <1>1, AtWorkIsPending, PendingTypes DEF BillingInv, BillingTypes
<1>3. UNCHANGED <<outbox, stripe, count>>
  BY DEF ApplyChange, ApplyDeletion, ApplyCompleted, UpdateLimits, market
<1>4. CASE ApplyChange(h)
  <2> DEFINE new == [row EXCEPT !.plan = e.plan, !.status = e.status, !.sub = e.sub]
  <2>1. /\ e.kind = "change" /\ limits' = limits /\ hook' = [hook EXCEPT ![h].at = "limit"]
        /\ SetSubscription(e.plan, e.status, e.sub)
    BY <1>0, <1>4 DEF ApplyChange, Turn
  <2>2. e.plan \in Plan /\ e.status \in Living /\ e.sub \in Sub
    BY <1>2, <2>1 DEF Event
  <2>3. /\ new \in Row /\ new.plan = e.plan /\ new.status = e.status /\ new.sub = e.sub
        /\ new.customer = row.customer
    BY <1>2, <2>2 DEF Row
  <2>4. (row' = new /\ muddled' = muddled) \/ (row' = row /\ muddled' = TRUE)
    BY <2>1 DEF SetSubscription
  <2> HIDE DEF new
  <2>5. CASE row' = new /\ muddled' = muddled
    <3>1. Shown(e)' /\ ~Naming(e) /\ (Done(e) => Done(e)')
      BY <2>1, <2>3, <2>5 DEF Shown, Done, Naming
    <3> QED
      BY <1>0, <1>1, <1>2, <1>3, <2>1, <2>3, <2>5, <3>1, CallGoesOn
  <2>6. CASE row' = row /\ muddled' = TRUE
    BY <1>0, <1>1, <1>2, <1>3, <2>1, <2>6, CallGoesOn
  <2> QED
    BY <2>4, <2>5, <2>6
<1>5. CASE ApplyDeletion(h)
  <2> DEFINE new == [row EXCEPT !.plan = Starter, !.status = "canceled", !.sub = None]
  <2>1. /\ e.kind = "deleted" /\ limits' = limits /\ hook' = [hook EXCEPT ![h].at = "answer"]
        /\ SetSubscription(Starter, "canceled", None)
    BY <1>0, <1>5 DEF ApplyDeletion, Turn
  <2>3. /\ new \in Row /\ new.plan = Starter /\ new.status = "canceled" /\ new.sub = None
        /\ new.customer = row.customer
    BY <1>2, BillingAssumption DEF Row
  <2>4. (row' = new /\ muddled' = muddled) \/ (row' = row /\ muddled' = TRUE)
    BY <2>1 DEF SetSubscription
  <2> HIDE DEF new
  <2>5. CASE row' = new /\ muddled' = muddled
    <3>1. Shown(e)' /\ ~Naming(e) /\ Done(e)'
      BY <2>1, <2>3, <2>5 DEF Shown, Done, Naming
    <3> QED
      BY <1>0, <1>1, <1>2, <1>3, <2>1, <2>3, <2>5, <3>1, CallGoesOn
  <2>6. CASE row' = row /\ muddled' = TRUE
    BY <1>0, <1>1, <1>2, <1>3, <2>1, <2>6, CallGoesOn
  <2> QED
    BY <2>4, <2>5, <2>6
<1>6. CASE ApplyCompleted(h)
  <2> DEFINE new == [row EXCEPT !.customer = e.customer]
  <2>1. /\ e.kind = "completed" /\ limits' = limits /\ hook' = [hook EXCEPT ![h].at = "answer"]
    BY <1>0, <1>6 DEF ApplyCompleted, Turn
  <2>2. e.customer \in Sub
    BY <1>2, <2>1 DEF Event
  <2>3. /\ new \in Row /\ new.plan = row.plan /\ new.status = row.status /\ new.sub = row.sub
        /\ new.customer = e.customer
    BY <1>2, <2>2 DEF Row
  <2>4. (row' = new /\ muddled' = muddled) \/ (row' = row /\ muddled' = TRUE)
    BY <1>0, <1>6 DEF ApplyCompleted
  <2> HIDE DEF new
  <2>5. CASE row' = new /\ muddled' = muddled
    <3>1. Shown(e)' /\ Naming(e) /\ ~Telling(e) /\ Done(e)'
      BY <2>1, <2>3, <2>5 DEF Shown, Done, Naming, Telling
    <3> QED
      BY <1>0, <1>1, <1>2, <1>3, <2>1, <2>3, <2>5, <3>1, CallGoesOn
  <2>6. CASE row' = row /\ muddled' = TRUE
    BY <1>0, <1>1, <1>2, <1>3, <2>1, <2>6, CallGoesOn
  <2> QED
    BY <2>4, <2>5, <2>6
<1>7. CASE UpdateLimits(h)
  <2>1. /\ hook[h].at = "limit" /\ row' = row /\ hook' = [hook EXCEPT ![h].at = "answer"]
        /\ (limits' = e.plan /\ muddled' = muddled) \/ (limits' = limits /\ muddled' = TRUE)
    BY <1>0, <1>7 DEF UpdateLimits, Turn
  <2>2. e.kind = "change"
    BY <1>0, <1>2, <2>1 DEF BillingTypes
  <2>3. e.plan \in Plan
    BY <1>2, <2>2 DEF Event
  <2>4. CASE muddled'
    BY <1>0, <1>1, <1>2, <1>3, <2>1, <2>3, <2>4, CallGoesOn
  <2>5. CASE ~muddled'
    <3>1. limits' = e.plan /\ muddled' = muddled
      BY <2>1, <2>5
    <3>2. Shown(e)
      BY <1>0, <1>1, <2>1, <2>5, <3>1 DEF BillingInv, InOrder, WorkShows
    <3>3. Shown(e)' /\ Done(e)' /\ ~Naming(e)
      BY <2>1, <2>2, <3>1, <3>2 DEF Shown, Done, Naming
    <3> QED
      BY <1>0, <1>1, <1>2, <1>3, <2>1, <2>2, <2>3, <3>1, <3>3, CallGoesOn
  <2> QED
    BY <2>4, <2>5
<1> QED
  BY <1>4, <1>5, <1>6, <1>7

LEMMA ReceiveStep == ASSUME BillingInv, NEW h \in Hook, Receive(h) PROVE BillingInv'
<1>0. BillingTypes /\ EventsTrue /\ EventsDiffer
  BY DEF BillingInv
<1>1. PICK e \in outbox :
         /\ hook' = [hook EXCEPT ![h] = [at |-> "write", event |-> e]]
         /\ muddled' = (muddled \/ \E older \in Pending : older.no < e.no)
  BY DEF Receive
<1>2. UNCHANGED <<row, limits, stripe, outbox, count>> /\ ~AtWork(h)
  BY DEF Receive, account, market
<1> DEFINE new == [at |-> "write", event |-> e]
<1>3. new \in Work /\ new.at = "write" /\ new.event = e /\ e \in Event
  BY <1>0 DEF BillingTypes, Work
<1>4. /\ hook' \in [Hook -> Work] /\ hook'[h].at = "write" /\ hook'[h].event = e
      /\ \A k \in Hook \ {h} : hook'[k] = hook[k]
  BY <1>0, <1>1, <1>3 DEF BillingTypes
<1> HIDE DEF new
<1>5. AtWork(h)' /\ \A k \in Hook \ {h} : AtWork(k)' = AtWork(k)
  BY <1>4 DEF AtWork
<1>6. Pending' = Pending
  BY <1>1, <1>2, <1>4, <1>5 DEF Pending
<1>7. BillingTypes'
  <2>1. muddled' \in BOOLEAN
    BY <1>1
  <2> QED
    BY <1>0, <1>2, <1>3, <1>4, <1>5, <2>1 DEF BillingTypes
<1>8. EventsTrue' /\ EventsDiffer' /\ Started' = Started /\ \A s \in Sub : Alive(s)' = Alive(s)
  BY <1>0, <1>2, <1>6 DEF EventsTrue, EventsDiffer, Started, Alive
<1>9. ASSUME ~muddled'
      PROVE InOrder'
  <2>1. InOrder /\ \A older \in Pending : ~(older.no < e.no)
    BY <1>1, <1>9 DEF BillingInv
  <2>2. e \in Pending
    BY DEF Pending
  <2>3. \A f \in Pending : e.no <= f.no
    BY <1>0, <2>1, <2>2, PendingTypes
  <2>4. InTurn'
    BY <1>4, <1>5, <1>6, <2>1, <2>3 DEF InOrder, InTurn
  <2>5. WorkShows'
    <3>1. ASSUME NEW k \in Hook, AtWork(k)'
          PROVE (/\ hook[k].at = "limit" => Shown(hook[k].event)
                 /\ hook[k].at = "answer" \/ hook[k].event \notin outbox => Done(hook[k].event))'
      <4>1. CASE k = h
        BY <1>1, <1>2, <1>4, <4>1
      <4>2. CASE k # h
        BY <1>2, <1>4, <1>5, <2>1, <3>1, <4>2 DEF InOrder, WorkShows, Shown, Done
      <4> QED
        BY <4>1, <4>2
    <3> QED
      BY <3>1 DEF WorkShows
  <2>6. OneLives' /\ SubscriptionTold' /\ CustomerTold' /\ LimitsTold'
    BY <1>2, <1>6, <1>8, <2>1 DEF InOrder, OneLives, SubscriptionTold, CustomerTold,
       LimitsTold, Current, RowCurrent, LimitsSold, Alive
  <2> QED
    BY <2>4, <2>5, <2>6 DEF InOrder
<1> QED
  BY <1>7, <1>8, <1>9 DEF BillingInv

(* What is told is told: events leave that a call at work has done.        *)
LEMMA EventsLeave ==
  ASSUME BillingInv, UNCHANGED <<row, limits, stripe, count, muddled>>,
         hook' \in [Hook -> Work], outbox' \subseteq outbox,
         \A k \in Hook : AtWork(k)' => hook'[k] = hook[k],
         ~muddled => \A e \in Pending \ Pending' :
                        Done(e) /\ \E h \in Hook : AtWork(h) /\ hook[h].event = e,
         ~muddled => \A k \in Hook : AtWork(k)' /\ hook[k].event \in outbox \ outbox' =>
                        Done(hook[k].event)
  PROVE BillingInv'
<1>0. BillingTypes /\ EventsTrue /\ EventsDiffer
  BY DEF BillingInv
<1>1. \A k \in Hook : AtWork(k)' => AtWork(k) /\ hook'[k] = hook[k]
  BY DEF AtWork
<1>2. Pending' \subseteq Pending
  BY <1>1 DEF Pending
<1>3. BillingTypes'
  BY <1>0, <1>1 DEF BillingTypes, AtWork
<1>4. /\ Started' = Started
      /\ \A s \in Sub : Alive(s)' = Alive(s)
      /\ LimitsSold' = LimitsSold
  BY DEF Started, Alive, LimitsSold
<1>5. EventsTrue' /\ EventsDiffer'
  BY <1>0, <1>2, <1>4 DEF EventsTrue, EventsDiffer
<1>6. ASSUME ~muddled
      PROVE InOrder'
  <2>1. InOrder
    BY <1>6 DEF BillingInv
  <2>2. \A e \in Pending \ Pending' : Done(e) /\ \A f \in Pending : e.no <= f.no
    BY <1>6, <2>1 DEF InOrder, InTurn
  <2>3. \A e, f \in Pending : e.no <= f.no /\ f.no <= e.no => e.no = f.no
    BY <1>0, PendingTypes
  <2>4. OneLives' /\ InTurn'
    BY <1>1, <1>2, <1>4, <2>1 DEF InOrder, OneLives, InTurn
  <2>5. WorkShows'
    BY <1>1, <1>6, <2>1 DEF InOrder, WorkShows, Shown, Done
  <2>6. SubscriptionTold'
    <3>1. CASE (\A f \in Pending : ~Telling(f)) /\ RowCurrent
      BY <1>2, <1>4, <3>1 DEF SubscriptionTold, RowCurrent
    <3>2. ASSUME NEW e \in Pending, Telling(e), Current(e),
                 \A f \in Pending : Telling(f) => f.no <= e.no
          PROVE SubscriptionTold'
      <4>1. CASE e \in Pending'
        <5>1. Current(e)'
          BY <3>2 DEF Current, Alive
        <5> QED
          BY <1>2, <3>2, <4>1, <5>1 DEF SubscriptionTold
      <4>2. CASE e \notin Pending'
        <5>1. Done(e) /\ \A f \in Pending : Telling(f) => f.no = e.no
          BY <2>2, <2>3, <3>2, <4>2
        <5>2. \A f \in Pending' : ~Telling(f)
          BY <1>0, <1>2, <3>2, <4>2, <5>1 DEF EventsDiffer
        <5>3. RowCurrent
          <6>1. CASE e.kind = "change"
            BY <1>0, <2>1, <3>2, <5>1, <6>1, PendingTypes
               DEF Done, Shown, Current, RowCurrent, InOrder, OneLives, EventsTrue
          <6>2. CASE e.kind = "deleted"
            BY <3>2, <5>1, <6>2 DEF Done, Shown, Current, RowCurrent
          <6> QED
            BY <3>2, <6>1, <6>2 DEF Telling
        <5> QED
          BY <1>4, <5>2, <5>3 DEF SubscriptionTold, RowCurrent
      <4> QED
        BY <4>1, <4>2
    <3> QED
      BY <2>1, <3>1, <3>2 DEF InOrder, SubscriptionTold
  <2>7. CustomerTold'
    <3>1. ASSUME NEW s \in Sub, Alive(s)
          PROVE \/ \E e \in Pending' : /\ Naming(e) /\ e.sub = s
                                       /\ \A f \in Pending' : Naming(f) => f.no <= e.no
                \/ (\A f \in Pending' : ~Naming(f)) /\ row.customer = stripe[s].customer
      <4>1. CASE (\A f \in Pending : ~Naming(f)) /\ row.customer = stripe[s].customer
        BY <1>2, <4>1
      <4>2. ASSUME NEW e \in Pending, Naming(e), e.sub = s,
                   \A f \in Pending : Naming(f) => f.no <= e.no,
                   e \notin Pending'
            PROVE (\A f \in Pending' : ~Naming(f)) /\ row.customer = stripe[s].customer
        <5>1. Done(e) /\ \A f \in Pending : Naming(f) => f.no = e.no
          BY <2>2, <2>3, <4>2
        <5>2. row.customer = stripe[s].customer
          BY <1>0, <4>2, <5>1 DEF Done, Shown, EventsTrue
        <5> QED
          BY <1>0, <1>2, <4>2, <5>1, <5>2 DEF EventsDiffer
      <4> QED
        BY <1>2, <2>1, <3>1, <4>1, <4>2 DEF InOrder, CustomerTold
    <3> QED
      BY <1>4, <3>1 DEF CustomerTold
  <2>8. LimitsTold'
    <3>1. ASSUME \A f \in Pending' : ~Telling(f)
          PROVE limits = row.plan \/ (row.sub = None /\ LimitsSold)
      <4>1. CASE \A f \in Pending : ~Telling(f)
        BY <2>1, <4>1 DEF InOrder, LimitsTold
      <4>2. CASE ~\A f \in Pending : ~Telling(f)
        <5>1. PICK e \in Pending : Telling(e)
          BY <4>2
        <5>2. Done(e) /\ \A f \in Pending : ~(f.no < e.no)
          <6>1. e \notin Pending'
            BY <3>1, <5>1
          <6> QED
            BY <1>0, <2>2, <6>1, PendingTypes
        <5>3. CASE e.kind = "change"
          BY <5>2, <5>3 DEF Done, Shown
        <5>4. CASE e.kind = "deleted"
          BY <2>1, <5>2, <5>4 DEF Done, Shown, InOrder, LimitsTold
        <5> QED
          BY <5>1, <5>3, <5>4 DEF Telling
      <4> QED
        BY <4>1, <4>2
    <3>2. ASSUME NEW e \in Pending', e.kind = "deleted", ~LimitsSold
          PROVE \E f \in Pending' : f.kind = "change" /\ f.no < e.no
      <4>1. PICK f \in Pending : f.kind = "change" /\ f.no < e.no
        BY <1>2, <2>1, <3>2 DEF InOrder, LimitsTold
      <4>2. f \in Pending'
        BY <1>0, <2>2, <3>2, <4>1 DEF Done, EventsTrue, LimitsSold
      <4> QED
        BY <4>1, <4>2
    <3> QED
      BY <1>4, <3>1, <3>2 DEF LimitsTold
  <2> QED
    BY <2>4, <2>5, <2>6, <2>7, <2>8 DEF InOrder
<1> QED
  BY <1>3, <1>5, <1>6 DEF BillingInv

LEMMA AnswerStep == ASSUME BillingInv, NEW h \in Hook, Answer(h) PROVE BillingInv'
<1>0. BillingTypes /\ Idle \in Work /\ Idle.at = "idle"
  BY DEF BillingInv, Idle, Work
<1>1. PICK e : e = hook[h].event
  OBVIOUS
<1>2. /\ hook[h].at = "answer" /\ AtWork(h) /\ hook' = [hook EXCEPT ![h] = Idle]
      /\ UNCHANGED <<row, limits, stripe, count, muddled>>
      /\ outbox' = outbox \/ outbox' = outbox \ {e}
  BY <1>1 DEF Answer, account, AtWork
<1>3. /\ hook' \in [Hook -> Work] /\ ~AtWork(h)' /\ outbox' \subseteq outbox
      /\ \A k \in Hook \ {h} : hook'[k] = hook[k]
  BY <1>0, <1>2 DEF BillingTypes, AtWork
<1>4. ~muddled => Done(e)
  BY <1>1, <1>2 DEF BillingInv, InOrder, WorkShows
<1>5. \A f \in Pending \ Pending' : f = e
  BY <1>1, <1>2, <1>3 DEF Pending, AtWork
<1>6. \A k \in Hook : AtWork(k)' => hook'[k] = hook[k]
  BY <1>3
<1>7. ~muddled => \A f \in Pending \ Pending' :
                    Done(f) /\ \E k \in Hook : AtWork(k) /\ hook[k].event = f
  BY <1>1, <1>2, <1>4, <1>5
<1>8. ~muddled => \A k \in Hook : AtWork(k)' /\ hook[k].event \in outbox \ outbox' =>
                    Done(hook[k].event)
  <2>1. ASSUME ~muddled, NEW k \in Hook, hook[k].event \in outbox \ outbox'
        PROVE Done(hook[k].event)
    <3>1. hook[k].event = e
      BY <1>2, <2>1
    <3> QED
      BY <1>4, <2>1, <3>1 DEF Done, Shown
  <2> QED
    BY <2>1
<1> QED
  BY <1>2, <1>3, <1>6, <1>7, <1>8, EventsLeave

LEMMA RestartStep == ASSUME BillingInv, Restart PROVE BillingInv'
<1>0. Idle \in Work /\ Idle.at = "idle"
  BY DEF Idle, Work
<1>1. /\ hook' = [k \in Hook |-> Idle]
      /\ UNCHANGED <<row, limits, stripe, outbox, count, muddled>>
  BY DEF Restart, account, market
<1>2. hook' \in [Hook -> Work] /\ \A k \in Hook : ~AtWork(k)'
  BY <1>0, <1>1 DEF AtWork
<1>3. ~muddled => \A e \in Pending \ Pending' :
                    Done(e) /\ \E h \in Hook : AtWork(h) /\ hook[h].event = e
  <2>1. ASSUME ~muddled, NEW e \in Pending \ Pending'
        PROVE Done(e) /\ \E h \in Hook : AtWork(h) /\ hook[h].event = e
    <3>1. e \notin outbox
      BY <1>1, <2>1 DEF Pending
    <3>2. PICK h \in Hook : AtWork(h) /\ hook[h].event = e
      BY <2>1, <3>1 DEF Pending
    <3>3. Done(hook[h].event)
      BY <2>1, <3>1, <3>2 DEF BillingInv, InOrder, WorkShows
    <3> QED
      BY <3>2, <3>3 DEF Done, Shown
  <2> QED
    BY <2>1
<1> QED
  BY <1>1, <1>2, <1>3, EventsLeave

(* Stripe has something to tell, and nothing else moves but Stripe: the    *)
(* events that wait keep, the new ones are the newest.                     *)
LEMMA EmitKeeps ==
  ASSUME BillingInv, NEW es, es \subseteq Event, \A e \in es : e.no = count, Emit(es),
         UNCHANGED <<row, limits, hook>>
  PROVE /\ Pending' = Pending \cup es /\ outbox' \in SUBSET Event
        /\ count \in Nat /\ count' = count + 1 /\ count' \in Nat
        /\ \A f \in Pending : f.no < count /\ f.no < count' /\ f.no \in Nat
        /\ InOrder => InTurn' /\ WorkShows'
<1>0. BillingTypes /\ EventsTrue
  BY DEF BillingInv
<1>1. count \in Nat /\ count' = count + 1 /\ outbox' = outbox \cup es
  BY <1>0 DEF Emit, BillingTypes
<1>2. \A h \in Hook : AtWork(h)' = AtWork(h) /\ hook'[h] = hook[h]
  BY DEF AtWork
<1>3. Pending' = Pending \cup es
  BY <1>1, <1>2 DEF Pending
<1>4. outbox' \in SUBSET Event
  BY <1>0, <1>1 DEF BillingTypes
<1>5. \A f \in Pending : f.no < count /\ f.no \in Nat
  BY <1>0, PendingTypes DEF EventsTrue
<1>6. ASSUME InOrder PROVE InTurn'
  <2>1. ASSUME NEW h \in Hook, AtWork(h), NEW f \in Pending'
        PROVE hook[h].event.no <= f.no
    <3>1. hook[h].event \in Pending
      BY <1>0, <2>1, AtWorkIsPending
    <3>2. CASE f \in Pending
      BY <1>6, <2>1, <3>2 DEF InOrder, InTurn
    <3>3. CASE f \in es
      BY <1>1, <1>5, <3>1, <3>3
    <3> QED
      BY <1>3, <3>2, <3>3
  <2> QED
    BY <1>2, <2>1 DEF InTurn
<1>7. ASSUME InOrder PROVE WorkShows'
  BY <1>1, <1>2, <1>7 DEF InOrder, WorkShows, Shown, Done
<1> QED
  BY <1>1, <1>3, <1>4, <1>5, <1>6, <1>7

LEMMA CheckoutStep == ASSUME BillingInv, NEW s \in Sub, Checkout(s) PROVE BillingInv'
<1>0. BillingTypes /\ EventsTrue /\ EventsDiffer
  BY DEF BillingInv
<1>1. PICK p \in Plan : stripe' = [stripe EXCEPT ![s] =
         [status |-> "open", plan |-> p,
          customer |-> IF row.customer = None THEN s ELSE row.customer]]
  BY DEF Checkout
<1>2. /\ stripe[s].status = "none" /\ row \in Row
      /\ UNCHANGED <<row, limits, outbox, count, hook, muddled>>
  BY <1>0 DEF Checkout, account, BillingTypes
<1> DEFINE new == [status |-> "open", plan |-> p,
                   customer |-> IF row.customer = None THEN s ELSE row.customer]
<1>3. new \in Subscription /\ new.status = "open" /\ new.customer \in Sub
  BY <1>2 DEF Subscription, Row
<1> HIDE DEF new
<1>4. /\ stripe' \in [Sub -> Subscription] /\ stripe'[s] = new
      /\ \A t \in Sub \ {s} : stripe'[t] = stripe[t]
  BY <1>0, <1>1, <1>3 DEF BillingTypes, new
<1>5. /\ \A t \in Sub : Alive(t)' = Alive(t)
      /\ Started' = Started /\ s \notin Started /\ ~Alive(s) /\ Started \subseteq Sub
  BY <1>2, <1>3, <1>4 DEF Alive, Started, Living
<1>6. Pending' = Pending
  BY <1>2 DEF Pending, AtWork
<1>7. BillingTypes'
  BY <1>0, <1>2, <1>3, <1>4 DEF BillingTypes, AtWork
<1>8. \A t \in Started : stripe'[t] = stripe[t]
  BY <1>4, <1>5
<1>9. EventsTrue' /\ EventsDiffer'
  BY <1>0, <1>2, <1>5, <1>6, <1>8 DEF EventsTrue, EventsDiffer
<1>10. ASSUME InOrder PROVE InOrder'
  <2>1. OneLives' /\ InTurn' /\ WorkShows'
    BY <1>2, <1>5, <1>6, <1>10 DEF InOrder, OneLives, InTurn, WorkShows, Shown, Done, AtWork
  <2>2. \A e \in Pending : Current(e) => Current(e)'
    BY <1>0, <1>5, <1>8 DEF Current, EventsTrue
  <2>3. RowCurrent => RowCurrent'
    BY <1>2, <1>4, <1>5 DEF RowCurrent
  <2>4. SubscriptionTold'
    BY <1>6, <1>10, <2>2, <2>3 DEF InOrder, SubscriptionTold
  <2>5. CustomerTold'
    BY <1>2, <1>4, <1>5, <1>6, <1>10 DEF InOrder, CustomerTold
  <2>6. LimitsSold' = LimitsSold
    BY <1>2, <1>5, <1>8 DEF LimitsSold
  <2>7. LimitsTold'
    BY <1>2, <1>6, <1>10, <2>6 DEF InOrder, LimitsTold
  <2> QED
    BY <2>1, <2>4, <2>5, <2>7 DEF InOrder
<1> QED
  BY <1>2, <1>7, <1>9, <1>10 DEF BillingInv

(* A living subscription changes its status.                               *)
LEMMA StatusChanges ==
  ASSUME BillingInv, NEW s \in Sub, Alive(s), NEW status \in Living \cup {"canceled"},
         stripe' = [stripe EXCEPT ![s].status = status]
  PROVE /\ stripe' \in [Sub -> Subscription] /\ Started' = Started /\ s \in Started
        /\ \A t \in Sub : /\ stripe'[t].plan = stripe[t].plan
                          /\ stripe'[t].customer = stripe[t].customer
                          /\ t # s => stripe'[t] = stripe[t] /\ Alive(t)' = Alive(t)
                          /\ stripe'[t].status # "none" => stripe'[t].customer \in Sub
        /\ stripe'[s].status = status
        /\ Alive(s)' <=> status \in Living
        /\ UNCHANGED limits => LimitsSold' = LimitsSold
<1>0. stripe \in [Sub -> Subscription] /\ stripe[s] \in Subscription
  BY DEF BillingInv, BillingTypes
<1> DEFINE new == [stripe[s] EXCEPT !.status = status]
<1>1. /\ new \in Subscription /\ new.status = status /\ new.plan = stripe[s].plan
      /\ new.customer = stripe[s].customer
  BY <1>0 DEF Subscription
<1>2. stripe' = [stripe EXCEPT ![s] = new]
  BY <1>0
<1> HIDE DEF new
<1>3. /\ stripe' \in [Sub -> Subscription] /\ stripe'[s] = new
      /\ \A t \in Sub \ {s} : stripe'[t] = stripe[t]
  BY <1>0, <1>1, <1>2
<1>4. Started' = Started /\ s \in Started
  BY <1>1, <1>3 DEF Started, Alive
<1>5. \A t \in Sub : stripe'[t].status # "none" => stripe'[t].customer \in Sub
  BY <1>1, <1>3 DEF BillingInv, BillingTypes, Alive, Living
<1>6. \A t \in Sub : stripe'[t].plan = stripe[t].plan
  BY <1>1, <1>3
<1>7. UNCHANGED limits => LimitsSold' = LimitsSold
  BY <1>4, <1>6 DEF LimitsSold, Started
<1> QED
  BY <1>1, <1>3, <1>4, <1>5, <1>7 DEF Alive

LEMMA RenewStep == ASSUME BillingInv, NEW s \in Sub, Renew(s) PROVE BillingInv'
<1>0. BillingTypes /\ EventsTrue /\ EventsDiffer /\ Alive(s)
  BY DEF BillingInv, Renew
<1>1. PICK status \in Living :
         /\ stripe' = [stripe EXCEPT ![s].status = status]
         /\ Emit({Change(s, count, status, stripe[s].plan)})
  BY DEF Renew
<1>2. UNCHANGED <<row, limits, hook, muddled>>
  BY DEF Renew, account
<1>3. PICK e : e = Change(s, count, status, stripe[s].plan)
  OBVIOUS
<1>4. /\ e \in Event /\ e.no = count /\ e.kind = "change" /\ e.sub = s
      /\ e.status = status /\ e.plan = stripe[s].plan
  BY <1>0, <1>3 DEF Change, BillingTypes, Subscription, Event
<1>5. /\ Pending' = Pending \cup {e} /\ outbox' \in SUBSET Event
      /\ count \in Nat /\ count' = count + 1 /\ count' \in Nat
      /\ \A f \in Pending : f.no < count /\ f.no < count' /\ f.no \in Nat
      /\ InOrder => InTurn' /\ WorkShows'
  BY <1>1, <1>2, <1>3, <1>4, EmitKeeps
<1>6. /\ stripe' \in [Sub -> Subscription] /\ Started' = Started /\ s \in Started
      /\ \A t \in Sub : /\ stripe'[t].plan = stripe[t].plan
                        /\ stripe'[t].customer = stripe[t].customer
                        /\ Alive(t)' = Alive(t)
                        /\ stripe'[t].status # "none" => stripe'[t].customer \in Sub
      /\ stripe'[s].status = status
      /\ LimitsSold' = LimitsSold
  <2>1. status \in Living \cup {"canceled"}
    OBVIOUS
  <2>2. /\ stripe' \in [Sub -> Subscription] /\ Started' = Started /\ s \in Started
        /\ \A t \in Sub : /\ stripe'[t].plan = stripe[t].plan
                          /\ stripe'[t].customer = stripe[t].customer
                          /\ t # s => Alive(t)' = Alive(t)
                          /\ stripe'[t].status # "none" => stripe'[t].customer \in Sub
        /\ stripe'[s].status = status
        /\ Alive(s)' <=> status \in Living
        /\ LimitsSold' = LimitsSold
    BY <1>0, <1>1, <1>2, <2>1, StatusChanges
  <2>3. \A t \in Sub : Alive(t)' = Alive(t)
    <3>1. Alive(s)' /\ Alive(s)
      BY <1>0, <2>2
    <3>2. ASSUME NEW t \in Sub PROVE Alive(t)' = Alive(t)
      <4>1. CASE t = s
        BY <3>1, <4>1 DEF Alive
      <4>2. CASE t # s
        BY <2>2, <4>2
      <4> QED
        BY <4>1, <4>2
    <3> QED
      BY <3>2
  <2> QED
    BY <2>2, <2>3
<1>7. BillingTypes'
  BY <1>0, <1>2, <1>5, <1>6 DEF BillingTypes, AtWork
<1>8. \A f \in Pending : f.sub \in Sub
  BY <1>0, PendingTypes
<1>9. EventsTrue' /\ EventsDiffer'
  BY <1>0, <1>4, <1>5, <1>6, <1>8 DEF EventsTrue, EventsDiffer, Telling, Naming
<1>10. ASSUME InOrder PROVE InOrder'
  <2>1. OneLives'
    BY <1>6, <1>10 DEF InOrder, OneLives
  <2>2. SubscriptionTold'
    <3>1. Telling(e) /\ Current(e)' /\ \A f \in Pending' : f.no <= e.no
      BY <1>4, <1>5, <1>6, <1>0 DEF Telling, Current
    <3> QED
      BY <1>5, <3>1 DEF SubscriptionTold
  <2>3. CustomerTold'
    BY <1>2, <1>4, <1>5, <1>6, <1>10 DEF InOrder, CustomerTold, Naming
  <2>4. LimitsTold'
    BY <1>4, <1>5, <1>6, <1>10 DEF InOrder, LimitsTold, Telling
  <2> QED
    BY <1>5, <1>10, <2>1, <2>2, <2>3, <2>4 DEF InOrder
<1> QED
  BY <1>2, <1>7, <1>9, <1>10 DEF BillingInv

LEMMA CancelStep == ASSUME BillingInv, NEW s \in Sub, Cancel(s) PROVE BillingInv'
<1>0. BillingTypes /\ EventsTrue /\ EventsDiffer /\ Alive(s)
  BY DEF BillingInv, Cancel
<1>1. PICK e : e = [no |-> count, kind |-> "deleted", sub |-> s]
  OBVIOUS
<1>2. /\ UNCHANGED <<row, limits, hook, muddled>> /\ Emit({e})
      /\ stripe' = [stripe EXCEPT ![s].status = "canceled"]
  BY <1>1 DEF Cancel, account
<1>3. count \in Nat
  BY <1>0 DEF BillingTypes
<1>4. e \in Event /\ e.no = count /\ e.kind = "deleted" /\ e.sub = s
  BY <1>1, <1>3 DEF Event
<1>5. /\ Pending' = Pending \cup {e} /\ outbox' \in SUBSET Event
      /\ count \in Nat /\ count' = count + 1 /\ count' \in Nat
      /\ \A f \in Pending : f.no < count /\ f.no < count' /\ f.no \in Nat
      /\ InOrder => InTurn' /\ WorkShows'
  BY <1>2, <1>4, EmitKeeps
<1>6. /\ stripe' \in [Sub -> Subscription] /\ Started' = Started /\ s \in Started
      /\ \A t \in Sub : /\ stripe'[t].plan = stripe[t].plan
                        /\ stripe'[t].customer = stripe[t].customer
                        /\ t # s => Alive(t)' = Alive(t)
                        /\ stripe'[t].status # "none" => stripe'[t].customer \in Sub
      /\ ~Alive(s)'
      /\ LimitsSold' = LimitsSold
  <2>1. "canceled" \notin Living
    BY DEF Living
  <2> QED
    BY <1>0, <1>2, <2>1, StatusChanges
<1>7. BillingTypes'
  BY <1>0, <1>2, <1>5, <1>6 DEF BillingTypes, AtWork
<1>8. \A f \in Pending : f.sub \in Sub
  BY <1>0, PendingTypes
<1>9. EventsTrue' /\ EventsDiffer'
  BY <1>0, <1>4, <1>5, <1>6, <1>8 DEF EventsTrue, EventsDiffer, Telling, Naming
<1>10. ASSUME InOrder PROVE InOrder'
  <2>1. \A t \in Sub : ~Alive(t)'
    BY <1>0, <1>6, <1>10 DEF InOrder, OneLives
  <2>2. SubscriptionTold'
    <3>1. Telling(e) /\ Current(e)' /\ \A f \in Pending' : f.no <= e.no
      BY <1>4, <1>5, <2>1 DEF Telling, Current
    <3> QED
      BY <1>5, <3>1 DEF SubscriptionTold
  <2>3. LimitsSold \/ \E f \in Pending : f.kind = "change"
    <3>1. CASE \E f \in Pending : Telling(f) /\ Current(f)
      BY <1>0, <3>1 DEF Telling, Current
    <3>2. CASE (\A f \in Pending : ~Telling(f)) /\ RowCurrent
      <4>1. row.sub = s /\ row.plan = stripe[s].plan
        BY <1>0, <3>2 DEF RowCurrent
      <4>2. limits = row.plan \/ row.sub = None
        BY <1>10, <3>2 DEF InOrder, LimitsTold
      <4> QED
        BY <1>6, <4>1, <4>2, BillingAssumption DEF LimitsSold
    <3> QED
      BY <1>10, <3>1, <3>2 DEF InOrder, SubscriptionTold
  <2>4. LimitsTold'
    BY <1>4, <1>5, <1>6, <1>10, <2>3 DEF InOrder, LimitsTold, Telling
  <2> QED
    BY <1>5, <1>10, <2>1, <2>2, <2>4 DEF InOrder, OneLives, CustomerTold
<1> QED
  BY <1>2, <1>7, <1>9, <1>10 DEF BillingInv

LEMMA SubscribeStep == ASSUME BillingInv, NEW s \in Sub, Subscribe(s) PROVE BillingInv'
<1>0. BillingTypes /\ EventsTrue /\ EventsDiffer /\ stripe[s].status = "open"
  BY DEF BillingInv, Subscribe
<1>1. PICK status \in {"incomplete", "active"} :
         /\ stripe' = [stripe EXCEPT ![s].status = status]
         /\ Emit({Change(s, count, status, stripe[s].plan),
                  [no |-> count, kind |-> "completed", sub |-> s, customer |-> stripe[s].customer]})
  BY DEF Subscribe
<1>2. /\ UNCHANGED <<row, limits, hook>> /\ muddled \in BOOLEAN
      /\ muddled' = (muddled \/ \E t \in Sub : Alive(t))
  BY <1>0 DEF Subscribe, account, BillingTypes
<1>3. PICK e, c : /\ e = Change(s, count, status, stripe[s].plan)
                  /\ c = [no |-> count, kind |-> "completed", sub |-> s,
                          customer |-> stripe[s].customer]
  OBVIOUS
<1>4. /\ e \in Event /\ e.no = count /\ e.kind = "change" /\ e.sub = s
      /\ e.status = status /\ e.plan = stripe[s].plan
  BY <1>0, <1>3 DEF Change, BillingTypes, Subscription, Event, Living
<1>5. /\ c \in Event /\ c.no = count /\ c.kind = "completed" /\ c.sub = s
      /\ c.customer = stripe[s].customer
  BY <1>0, <1>3 DEF BillingTypes, Subscription, Event
<1>6. /\ Pending' = Pending \cup {e, c} /\ outbox' \in SUBSET Event
      /\ count \in Nat /\ count' = count + 1 /\ count' \in Nat
      /\ \A f \in Pending : f.no < count /\ f.no < count' /\ f.no \in Nat
      /\ InOrder => InTurn' /\ WorkShows'
  BY <1>1, <1>2, <1>3, <1>4, <1>5, EmitKeeps
<1> DEFINE new == [stripe[s] EXCEPT !.status = status]
<1>7. /\ stripe[s] \in Subscription /\ new \in Subscription /\ new.status = status
      /\ new.plan = stripe[s].plan /\ new.customer = stripe[s].customer
  BY <1>0 DEF BillingTypes, Subscription, Living
<1>8. stripe' = [stripe EXCEPT ![s] = new]
  BY <1>0, <1>1 DEF BillingTypes
<1> HIDE DEF new
<1>9. /\ stripe' \in [Sub -> Subscription] /\ stripe'[s] = new
      /\ \A t \in Sub \ {s} : stripe'[t] = stripe[t]
  BY <1>0, <1>7, <1>8 DEF BillingTypes
<1>10. /\ Started' = Started \cup {s} /\ s \notin Started /\ Started \subseteq Sub /\ Alive(s)'
       /\ \A t \in Sub \ {s} : Alive(t)' = Alive(t)
  BY <1>0, <1>7, <1>9 DEF Started, Alive, Living
<1>11. \A t \in Sub : stripe'[t].plan = stripe[t].plan /\ stripe'[t].customer = stripe[t].customer
  BY <1>7, <1>9
<1>12. BillingTypes'
  <2>1. \A t \in Sub : stripe'[t].status # "none" => stripe'[t].customer \in Sub
    BY <1>0, <1>7, <1>9 DEF BillingTypes
  <2>2. muddled' \in BOOLEAN
    BY <1>2
  <2> QED
    BY <1>0, <1>2, <1>6, <1>9, <2>1, <2>2 DEF BillingTypes, AtWork
<1>13. EventsTrue' /\ EventsDiffer'
  <2>1. EventsTrue'
    BY <1>0, <1>4, <1>5, <1>6, <1>10, <1>11, PendingTypes DEF EventsTrue, Naming
  <2>2. \A f \in Pending : f.no # count /\ f.sub # s
    BY <1>0, <1>6, <1>10 DEF EventsTrue
  <2> QED
    BY <1>0, <1>4, <1>5, <1>6, <2>1, <2>2 DEF EventsDiffer, Telling, Naming
<1>14. ASSUME ~muddled' PROVE InOrder'
  <2>0. InOrder /\ \A t \in Sub : ~Alive(t)
    BY <1>2, <1>14 DEF BillingInv
  <2>1. OneLives' /\ \A t \in Sub : Alive(t)' <=> t = s
    BY <1>10, <2>0 DEF OneLives
  <2>2. SubscriptionTold'
    <3>1. Telling(e) /\ Current(e)' /\ \A f \in Pending' : f.no <= e.no
      BY <1>4, <1>5, <1>6, <1>7, <1>9, <1>10 DEF Telling, Current
    <3> QED
      BY <1>6, <3>1 DEF SubscriptionTold
  <2>3. CustomerTold'
    <3>1. Naming(c) /\ c.sub = s /\ \A f \in Pending' : f.no <= c.no
      BY <1>4, <1>5, <1>6 DEF Naming
    <3> QED
      BY <1>6, <2>1, <3>1 DEF CustomerTold
  <2>4. LimitsSold => LimitsSold'
    BY <1>2, <1>10, <1>11 DEF LimitsSold
  <2>5. LimitsTold'
    BY <1>4, <1>5, <1>6, <2>0, <2>4 DEF InOrder, LimitsTold, Telling
  <2> QED
    BY <1>6, <2>0, <2>1, <2>2, <2>3, <2>5 DEF InOrder
<1> QED
  BY <1>2, <1>12, <1>13, <1>14 DEF BillingInv

LEMMA BillingStep == ASSUME BillingInv, BillingNext PROVE BillingInv'
  BY CheckoutStep, SubscribeStep, RenewStep, CancelStep, ReceiveStep, WebhookStep, AnswerStep,
     RestartStep DEF BillingNext

LEMMA BillingStutters == ASSUME BillingInv, UNCHANGED billingPart PROVE BillingInv'
<1>1. UNCHANGED <<row, limits, stripe, outbox, count, hook, muddled>>
  BY DEF billingPart
<1>2. Pending' = Pending
  BY <1>1 DEF Pending, AtWork
<1>3. Started' = Started /\ \A s \in Sub : Alive(s)' = Alive(s)
  BY <1>1 DEF Started, Alive
<1>4. BillingTypes' /\ EventsTrue' /\ EventsDiffer'
  BY <1>1, <1>2, <1>3 DEF BillingInv, BillingTypes, EventsTrue, EventsDiffer, AtWork
<1>5. InOrder => InOrder'
  BY <1>1, <1>2, <1>3 DEF InOrder, OneLives, InTurn, WorkShows, SubscriptionTold, CustomerTold,
     LimitsTold, LimitsSold, Current, RowCurrent, Shown, Done, AtWork, Alive
<1> QED
  BY <1>1, <1>4, <1>5 DEF BillingInv

LEMMA RegistryStutters == ASSUME RegistryInv, UNCHANGED registryPart PROVE RegistryInv'
  BY DEF registryPart, RegistryInv, RegistryTypes, RegistrationsInformed, UpdatesInformed,
         Devs!Counted

-----------------------------------------------------------------------------
(* What the run checks, for all its constants. *)

LEMMA Invariant == PlansSpec => []Inv
<1>1. PlansInit => Inv
  BY InitBilling, InitRegistry DEF PlansInit, Inv
<1>2. Inv /\ [PlansNext]_plansVars => Inv'
  BY BillingStep, RegistryStep, BillingStutters, RegistryStutters
     DEF Inv, PlansNext, plansVars
<1> QED
  BY <1>1, <1>2, PTL DEF PlansSpec

(* Once Stripe's events are applied the tenant's row shows the             *)
(* subscription it has, and ChirpStack enforces the limits of its plan,    *)
(* for any number of subscriptions, webhook calls, faults and restarts.    *)
THEOREM RowsFollowSubscriptions == PlansSpec => []SubscriptionInForce
<1>1. Inv => SubscriptionInForce
  <2> SUFFICES ASSUME BillingInv, AllApplied, ~muddled PROVE SubscriptionInForce
    BY DEF Inv, SubscriptionInForce, RowShowsSubscription, LimitsFollowPlan
  <2>1. Pending = {} /\ InOrder
    BY DEF AllApplied, Pending, BillingInv
  <2>2. RowShowsSubscription
    BY <2>1 DEF InOrder, SubscriptionTold, CustomerTold, RowCurrent, RowShowsSubscription
  <2>3. LimitsFollowPlan
    BY <2>1 DEF InOrder, LimitsTold, LimitsSold, Started, LimitsFollowPlan
  <2> QED
    BY <2>2, <2>3 DEF SubscriptionInForce
<1> QED
  BY <1>1, Invariant, PTL

(* A registration adds a device only within the plan of the tenant's row,  *)
(* unless something came in between, for any number of registrations.      *)
THEOREM PlansBoundDevices == PlansSpec => QuotaKept
<1>1. Inv /\ [PlansNext]_plansVars =>
        [\A d \in present' \ present :
           \E r \in Reg : reg[r].device = d
                       /\ (r \in loose \/ Devs!Cardinality(Devs!Counted') <= plan)]_(Devs!registryVars)
  <2>1. Inv /\ Devs!RegistryNext =>
          \A d \in present' \ present :
            \E r \in Reg : reg[r].device = d
                        /\ (r \in loose \/ Devs!Cardinality(Devs!Counted') <= plan)
    BY AddsWithinPlan, SameCardinality DEF Inv
  <2> QED
    BY <2>1 DEF PlansNext, plansVars, registryPart, Devs!registryVars, Devs!devices, Devs!calls,
       Devs!crossings
<1> QED
  BY <1>1, Invariant, PTL DEF PlansSpec, QuotaKept, Devs!QuotaKept

(* Nothing but a request that says so, or one that was crossed, disables   *)
(* or enables a device.                                                    *)
THEOREM RequestsDisable == PlansSpec => DisabledByRequest
<1>1. Inv /\ [PlansNext]_plansVars =>
        [\A d \in present \cap present' : (d \in off) # (d \in off') =>
           \E u \in Edit : edit[u].device = d
                        /\ (u \in crossed \/ edit[u].set = (d \in off'))]_(Devs!registryVars)
  <2>1. Inv /\ Devs!RegistryNext =>
          \A d \in present \cap present' : (d \in off) # (d \in off') =>
            \E u \in Edit : edit[u].device = d
                         /\ (u \in crossed \/ edit[u].set = (d \in off'))
    BY WritesAsRequested DEF Inv
  <2> QED
    BY <2>1 DEF PlansNext, plansVars, registryPart, Devs!registryVars, Devs!devices, Devs!calls,
       Devs!crossings
<1> QED
  BY <1>1, Invariant, PTL DEF PlansSpec, DisabledByRequest, Devs!DisabledByRequest

-----------------------------------------------------------------------------
(* Tenants: TenantProvisioning. *)

(* The shape of the state is kept by every step of createTenant,           *)
(* deleteTenant and the restarts (TypeOK).                                 *)
THEOREM TypeCorrect == Spec => []TypeOK
<1>1. Init => TypeOK
  BY BoundsAreNaturals DEF Init, TypeOK, Tenants, Networks, Steps
<1>2. TypeOK /\ [Next]_vars => TypeOK'
  <2> SUFFICES ASSUME TypeOK, [Next]_vars PROVE TypeOK'
    OBVIOUS
  <2> USE DEF TypeOK, Tenants, Networks, Steps, Step, Fault, NoFault,
              creation, deletion, history
  <2>1. ASSUME NEW c \in Calls, Ask(c) PROVE TypeOK'
    BY <2>1 DEF Ask
  <2>2. ASSUME NEW c \in Calls, CheckSlug(c) PROVE TypeOK'
    BY <2>2, BoundsAreNaturals DEF CheckSlug
  <2>3. ASSUME NEW c \in Calls, MakeNetwork(c) PROVE TypeOK'
    BY <2>3, BoundsAreNaturals DEF MakeNetwork, KeepId
  <2>4. ASSUME NEW c \in Calls, SkipNetwork(c) PROVE TypeOK'
    BY <2>4 DEF SkipNetwork
  <2>5. ASSUME NEW c \in Calls, Insert(c) PROVE TypeOK'
    BY <2>5, BoundsAreNaturals DEF Insert, Inserted
  <2>6. ASSUME NEW c \in Calls, Rollback(c) PROVE TypeOK'
    BY <2>6, BoundsAreNaturals DEF Rollback, DeleteNetwork
  <2>7. ASSUME NEW t \in Tenants, AskDelete(t) PROVE TypeOK'
    BY <2>7 DEF AskDelete
  <2>8. ASSUME NEW t \in Tenants, DropNetwork(t) PROVE TypeOK'
    BY <2>8, BoundsAreNaturals DEF DropNetwork, DeleteNetwork
  <2>9. ASSUME NEW t \in Tenants, DropRow(t) PROVE TypeOK'
    BY <2>9, BoundsAreNaturals DEF DropRow
  <2>10. ASSUME NEW t \in Tenants, Traffic(t) PROVE TypeOK'
    BY <2>10 DEF Traffic
  <2>11. ASSUME Crash PROVE TypeOK'
    BY <2>11, BoundsAreNaturals DEF Crash, Held
  <2>12. CASE UNCHANGED vars
    BY <2>12 DEF vars
  <2> QED BY <2>1, <2>2, <2>3, <2>4, <2>5, <2>6, <2>7, <2>8, <2>9, <2>10, <2>11, <2>12
             DEF Next
<1> QED BY <1>1, <1>2, PTL DEF Spec

-----------------------------------------------------------------------------
(* A row comes from a request that was answered 201, or whose answer was   *)
(* lost.                                                                   *)
RowOrigin ==
    \A c \in Calls : c \in rows =>
      \/ make[c] = "created"
      \/ c \in unsure /\ make[c] \in {"rollback", "refused", "dead"}

CreatedStays ==
    \A c \in Calls : make[c] = "created" => c \in rows \cup asked

(* A deletion under way is of a row that is still there and works on the   *)
(* network that row names.                                                 *)
DropIsAsked ==
    \A t \in Tenants : drop[t] # "none" =>
      t \in asked /\ t \in rows /\ dropNet[t] = net[t]

IdleHoldsNothing == \A c \in Calls : make[c] = "idle" => net[c] = NoNet

(* Nothing names the network of a request that has not made it.            *)
NamedWasMade ==
    \A c \in Calls : make[c] \in {"idle", "check", "network"} =>
      c \notin networks /\ \A t \in Tenants : net[t] # c

(* Sharper than NoNetworkForgotten: the request that still has to insert   *)
(* or to undo holds the id and will undo it.                               *)
Accounted ==
    \A c \in networks \cap Calls :
      \/ \E t \in rows : net[t] = c
      \/ make[c] \in {"insert", "rollback"} /\ net[c] = c /\ provision[c]
      \/ c \in strays

DroppedIsGone ==
    \A t \in Tenants : drop[t] = "row" /\ dropNet[t] \in networks => dropNet[t] \in strays

(* Sharper than RowKeepsNetwork: of requests, too.                         *)
KeepsNetwork ==
    \A t \in Tenants :
      \/ net[t] \in networks \cup {NoNet}
      \/ t \in asked \cup unsure
      \/ Shared(t)
      \/ t \in Calls \ rows /\ make[t] = "refused"

IInv ==
    /\ TypeOK /\ OneRowPerSlug
    /\ RowOrigin /\ CreatedStays /\ DropIsAsked /\ IdleHoldsNothing
    /\ NamedWasMade /\ Accounted /\ DroppedIsGone /\ KeepsNetwork

LEMMA InitIInv == Init => IInv
  <1> SUFFICES ASSUME Init PROVE IInv
    OBVIOUS
  <1>1. TypeOK
    BY BoundsAreNaturals DEF Init, TypeOK, Tenants, Networks, Steps
  <1> QED BY <1>1, NamesAreDistinct
    DEF Init, IInv, OneRowPerSlug, RowOrigin, CreatedStays, DropIsAsked, IdleHoldsNothing,
        NamedWasMade, Accounted, DroppedIsGone, KeepsNetwork, Tenants, Networks

-----------------------------------------------------------------------------
(* The steps of createTenant. *)

LEMMA AskKeeps ==
  ASSUME IInv, TypeOK', NEW c \in Calls, Ask(c) PROVE IInv'
<1> USE DEF IInv, Ask, Step, deletion, history, TypeOK, Tenants
<1>1. c \notin rows
  BY DEF RowOrigin
<1>2. OneRowPerSlug'
  BY <1>1 DEF OneRowPerSlug
<1>3. RowOrigin' /\ CreatedStays' /\ IdleHoldsNothing'
  BY <1>1 DEF RowOrigin, CreatedStays, IdleHoldsNothing
<1>4. DropIsAsked' /\ DroppedIsGone'
  BY <1>1 DEF DropIsAsked, DroppedIsGone
<1>5. NamedWasMade'
  BY NamesAreDistinct DEF NamedWasMade
<1>6. Accounted'
  BY <1>1 DEF Accounted
<1>7. KeepsNetwork'
  BY DEF KeepsNetwork, Shared, IdleHoldsNothing
<1> QED BY <1>2, <1>3, <1>4, <1>5, <1>6, <1>7

LEMMA CheckSlugKeeps ==
  ASSUME IInv, TypeOK', NEW c \in Calls, CheckSlug(c) PROVE IInv'
<1> USE DEF IInv, CheckSlug, Step, deletion, history, TypeOK, Tenants
<1>1. c \notin rows
  BY DEF RowOrigin
<1>2. OneRowPerSlug' /\ DropIsAsked' /\ DroppedIsGone'
  BY DEF OneRowPerSlug, DropIsAsked, DroppedIsGone
<1>3. RowOrigin' /\ CreatedStays' /\ IdleHoldsNothing'
  BY <1>1 DEF RowOrigin, CreatedStays, IdleHoldsNothing
<1>4. NamedWasMade' /\ Accounted'
  BY DEF NamedWasMade, Accounted
<1>5. KeepsNetwork'
  BY <1>1 DEF KeepsNetwork, Shared
<1> QED BY <1>2, <1>3, <1>4, <1>5

LEMMA MakeNetworkKeeps ==
  ASSUME IInv, TypeOK', NEW c \in Calls, MakeNetwork(c) PROVE IInv'
<1> USE DEF IInv, MakeNetwork, NeedsNetwork, KeepId, Step, deletion, TypeOK, Tenants, Networks
<1>1. c \notin rows /\ c \notin networks /\ \A t \in Tenants : net[t] # c
  BY DEF RowOrigin, NamedWasMade
<1>2. OneRowPerSlug' /\ RowOrigin' /\ CreatedStays' /\ IdleHoldsNothing'
  BY <1>1 DEF OneRowPerSlug, RowOrigin, CreatedStays, IdleHoldsNothing
<1>3. DropIsAsked' /\ DroppedIsGone'
  BY <1>1 DEF DropIsAsked, DroppedIsGone
<1>4. NamedWasMade'
  BY <1>1 DEF NamedWasMade
<1>5. Accounted'
  BY <1>1 DEF Accounted
<1>6. KeepsNetwork'
  BY <1>1, NamesAreDistinct DEF KeepsNetwork, Shared
<1> QED BY <1>2, <1>3, <1>4, <1>5, <1>6

LEMMA SkipNetworkKeeps ==
  ASSUME IInv, TypeOK', NEW c \in Calls, SkipNetwork(c) PROVE IInv'
<1> USE DEF IInv, SkipNetwork, Step, deletion, history, TypeOK, Tenants
<1>1. c \notin rows
  BY DEF RowOrigin
<1>2. OneRowPerSlug' /\ DropIsAsked' /\ DroppedIsGone'
  BY DEF OneRowPerSlug, DropIsAsked, DroppedIsGone
<1>3. RowOrigin' /\ CreatedStays' /\ IdleHoldsNothing'
  BY <1>1 DEF RowOrigin, CreatedStays, IdleHoldsNothing
<1>4. NamedWasMade' /\ Accounted'
  BY DEF NamedWasMade, Accounted
<1>5. KeepsNetwork'
  BY <1>1 DEF KeepsNetwork, Shared
<1> QED BY <1>2, <1>3, <1>4, <1>5

LEMMA InsertKeeps ==
  ASSUME IInv, TypeOK', NEW c \in Calls, Insert(c) PROVE IInv'
<1> USE DEF IInv, Insert, Inserted, SlugTaken, Step, deletion, TypeOK, Tenants
<1>1. c \notin rows
  BY DEF RowOrigin
<1>2. OneRowPerSlug'
  BY DEF OneRowPerSlug
<1>3. RowOrigin' /\ CreatedStays' /\ IdleHoldsNothing'
  BY <1>1 DEF RowOrigin, CreatedStays, IdleHoldsNothing
<1>4. DropIsAsked' /\ DroppedIsGone'
  BY DEF DropIsAsked, DroppedIsGone
<1>5. NamedWasMade'
  BY DEF NamedWasMade
<1>6. Accounted'
  BY DEF Accounted
<1>7. KeepsNetwork'
  BY DEF KeepsNetwork, Shared
<1> QED BY <1>2, <1>3, <1>4, <1>5, <1>6, <1>7

LEMMA RollbackKeeps ==
  ASSUME IInv, TypeOK', NEW c \in Calls, Rollback(c) PROVE IInv'
<1> USE DEF IInv, Rollback, DeleteNetwork, Step, deletion, TypeOK, Tenants
<1>1. c \notin rows \/ c \in unsure
  BY DEF RowOrigin
<1>2. OneRowPerSlug' /\ RowOrigin' /\ CreatedStays' /\ IdleHoldsNothing'
  BY DEF OneRowPerSlug, RowOrigin, CreatedStays, IdleHoldsNothing
<1>3. DropIsAsked' /\ DroppedIsGone'
  BY DEF DropIsAsked, DroppedIsGone
<1>4. NamedWasMade'
  BY DEF NamedWasMade
<1>5. Accounted'
  BY NamesAreDistinct DEF Accounted
<1>6. KeepsNetwork'
  BY <1>1 DEF KeepsNetwork, Shared
<1> QED BY <1>2, <1>3, <1>4, <1>5, <1>6

-----------------------------------------------------------------------------
(* The steps of deleteTenant, and the rest. *)

LEMMA AskDeleteKeeps ==
  ASSUME IInv, TypeOK', NEW t \in Tenants, AskDelete(t) PROVE IInv'
<1> USE DEF IInv, AskDelete, creation, history, TypeOK
<1>1. OneRowPerSlug' /\ RowOrigin' /\ CreatedStays' /\ IdleHoldsNothing'
  BY DEF OneRowPerSlug, RowOrigin, CreatedStays, IdleHoldsNothing
<1>2. DropIsAsked' /\ DroppedIsGone'
  BY DEF DropIsAsked, DroppedIsGone
<1>3. NamedWasMade' /\ Accounted'
  BY DEF NamedWasMade, Accounted
<1>4. KeepsNetwork'
  BY DEF KeepsNetwork, Shared
<1> QED BY <1>1, <1>2, <1>3, <1>4

LEMMA DropNetworkKeeps ==
  ASSUME IInv, TypeOK', NEW t \in Tenants, DropNetwork(t) PROVE IInv'
<1> USE DEF IInv, DropNetwork, DeleteNetwork, creation, TypeOK
<1>1. t \in asked /\ t \in rows /\ dropNet[t] = net[t]
  BY DEF DropIsAsked
<1>2. OneRowPerSlug' /\ RowOrigin' /\ CreatedStays' /\ IdleHoldsNothing'
  BY DEF OneRowPerSlug, RowOrigin, CreatedStays, IdleHoldsNothing
<1>3. DropIsAsked' /\ NamedWasMade'
  BY DEF DropIsAsked, NamedWasMade
<1>4. DroppedIsGone'
  BY NamesAreDistinct DEF DroppedIsGone, Tenants, Networks
<1>5. Accounted'
  BY DEF Accounted
<1>6. KeepsNetwork'
  BY <1>1 DEF KeepsNetwork, Shared
<1> QED BY <1>2, <1>3, <1>4, <1>5, <1>6

LEMMA DropRowKeeps ==
  ASSUME IInv, TypeOK', NEW t \in Tenants, DropRow(t) PROVE IInv'
<1> USE DEF IInv, DropRow, creation, history, TypeOK
<1>1. t \in asked /\ t \in rows /\ dropNet[t] = net[t]
  BY DEF DropIsAsked
<1>2. OneRowPerSlug' /\ RowOrigin' /\ CreatedStays' /\ IdleHoldsNothing'
  BY <1>1 DEF OneRowPerSlug, RowOrigin, CreatedStays, IdleHoldsNothing
<1>3. DropIsAsked' /\ DroppedIsGone' /\ NamedWasMade'
  BY DEF DropIsAsked, DroppedIsGone, NamedWasMade
<1>4. Accounted'
  BY <1>1 DEF Accounted, DroppedIsGone
<1>5. KeepsNetwork'
  BY DEF KeepsNetwork, Shared
<1> QED BY <1>2, <1>3, <1>4, <1>5

LEMMA TrafficKeeps ==
  ASSUME IInv, TypeOK', NEW t \in Tenants, Traffic(t) PROVE IInv'
BY DEF Traffic, IInv, OneRowPerSlug, RowOrigin, CreatedStays, DropIsAsked, IdleHoldsNothing,
       NamedWasMade, Accounted, DroppedIsGone, KeepsNetwork, Shared,
       creation, deletion, history

(* A crash ends every request: what createTenant held is then accounted    *)
(* for as a stray.                                                         *)
LEMMA CrashKeeps ==
  ASSUME IInv, TypeOK', Crash PROVE IInv'
<1> USE DEF IInv, Crash, Held, TypeOK
<1>1. OneRowPerSlug' /\ RowOrigin' /\ CreatedStays' /\ IdleHoldsNothing'
  BY DEF OneRowPerSlug, RowOrigin, CreatedStays, IdleHoldsNothing
<1>2. DropIsAsked' /\ DroppedIsGone'
  BY DEF DropIsAsked, DroppedIsGone
<1>3. NamedWasMade'
  BY DEF NamedWasMade
<1>4. Accounted'
  BY NamesAreDistinct DEF Accounted
<1>5. KeepsNetwork'
  BY DEF KeepsNetwork, Shared, Tenants
<1> QED BY <1>1, <1>2, <1>3, <1>4, <1>5

-----------------------------------------------------------------------------
LEMMA IInvHolds == Spec => []IInv
<1>1. IInv /\ TypeOK' /\ [Next]_vars => IInv'
  <2> SUFFICES ASSUME IInv, TypeOK', [Next]_vars PROVE IInv'
    OBVIOUS
  <2>1. CASE UNCHANGED vars
    BY <2>1 DEF vars, creation, deletion, history, IInv, OneRowPerSlug, RowOrigin, CreatedStays,
                DropIsAsked, IdleHoldsNothing, NamedWasMade, Accounted, DroppedIsGone,
                KeepsNetwork, Shared
  <2>2. CASE Next
    BY <2>2, AskKeeps, CheckSlugKeeps, MakeNetworkKeeps, SkipNetworkKeeps, InsertKeeps,
       RollbackKeeps, AskDeleteKeeps, DropNetworkKeeps, DropRowKeeps, TrafficKeeps, CrashKeeps
       DEF Next
  <2> QED BY <2>1, <2>2
<1> QED BY <1>1, InitIInv, TypeCorrect, PTL DEF Spec

(* However requests for one slug interleave, fail and crash, there is one  *)
(* row per slug (OneRowPerSlug): createTenant's look-up alone does not     *)
(* give that, the INSERT does.                                             *)
THEOREM SlugIsUnique == Spec => []OneRowPerSlug
BY IInvHolds, PTL DEF IInv

(* Every ChirpStack tenant the platform made belongs to a row, to a        *)
(* request still at work, or was left by a fault or a crash                *)
(* (NoNetworkForgotten).                                                   *)
THEOREM NetworksAreAccounted == Spec => []NoNetworkForgotten
<1>1. IInv => NoNetworkForgotten
  BY DEF IInv, Accounted, NoNetworkForgotten
<1> QED BY <1>1, IInvHolds, PTL

(* A row loses its network only to its own deletion, to a request that     *)
(* named the same network, or to its own lost answer (RowKeepsNetwork).    *)
THEOREM RowsKeepNetworks == Spec => []RowKeepsNetwork
<1>1. IInv => RowKeepsNetwork
  BY DEF IInv, TypeOK, KeepsNetwork, RowKeepsNetwork, RowOrigin
<1> QED BY <1>1, IInvHolds, PTL

(* The answer of createTenant tells whether the row exists (AnswerIsTrue). *)
THEOREM AnswersAreTrue == Spec => []AnswerIsTrue
<1>1. IInv => AnswerIsTrue
  BY DEF IInv, RowOrigin, CreatedStays, AnswerIsTrue
<1> QED BY <1>1, IInvHolds, PTL
=============================================================================
