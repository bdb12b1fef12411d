------------------------ MODULE UplinkConsumersProofs ------------------------
(***************************************************************************)
(* The safety of the consumers of uplink events, for every set of tenants, *)
(* rows, services and browser sessions, and any number of events and       *)
(* faults.  The inductive invariant adds to the claims what a handler      *)
(* knows of the rows it has still to serve (JobsFit) and what a browser    *)
(* session holds of a secret (SecretsHeld).                                *)
(***************************************************************************)
EXTENDS UplinkConsumers, SequenceTheorems, TLAPS

Events == 1..Len(events)

\* What is received, called and switched off refers to events that exist.
RefersToEvents ==
    /\ \A w \in Worker : \A i \in 1..Len(pending[w]) : pending[w][i] \in Events
    /\ \A i \in 1..Len(calls) : calls[i].event \in Events
    /\ \A id \in Id : offSince[id] <= Len(events)

\* A handler holds rows that its event is due to, which were on when the event
\* was published or later; and what it has to log was called.
JobFits(w) ==
    LET job == jobs[w] IN
    /\ \A id \in job.todo \cup job.unlogged :
          job.event \in Events /\ Selects(w, id, events[job.event])
    /\ \A id \in job.todo : Active(id) \/ job.event <= offSince[id]
    /\ \A id \in job.unlogged :
          /\ w = "rule-engine"
          /\ \E i \in 1..Len(calls) : calls[i] = [id |-> id, event |-> job.event]

JobsFit == \A w \in Worker : JobFits(w)

\* What a session shows of an MQTT connector is a mask; what it saves is a
\* password, and the stored one unless the request brought its own or another
\* wrote the row meanwhile.
Holds(v, row) ==
    KindOf[v.id] = "mqtt" =>
        IF v.step = "shown" THEN v.kept = "mask" /\ ~v.new /\ ~v.late
        ELSE /\ v.kept \in Password
             /\ \/ v.new \/ v.late
                \/ v.kept = row.secret
                \/ row.status # "live"

\* A session shows rows that exist, and an MQTT connector has a password.
SecretsHeld ==
    /\ \A a \in Admin : views[a] # Closed =>
          Holds(views[a], rows[views[a].id]) /\ rows[views[a].id].status # "new"
    /\ \A id \in Id : KindOf[id] = "mqtt" /\ rows[id].status = "live" =>
          rows[id].secret \in Password

-----------------------------------------------------------------------------
(* Types *)

LEMMA InitTypeOK == Init => TypeOK
<1> SUFFICES ASSUME Init PROVE TypeOK
  OBVIOUS
<1> USE RowAssumption, BoundAssumption DEF Init
<1>1. rows \in [Id -> Row] /\ views \in [Admin -> {Closed} \cup View]
  BY DEF Row, Secret, Closed
<1>2. events \in Seq(Event) /\ calls \in Seq(Use) /\ pending \in [Worker -> Seq(Nat)]
  OBVIOUS
<1>3. jobs \in [Worker -> Job]
  BY DEF Idle, Job
<1> QED
  BY <1>1, <1>2, <1>3 DEF TypeOK

LEMMA FaultType == ASSUME TypeOK, Fault \/ UNCHANGED faults PROVE faults' \in Nat
BY DEF TypeOK, Fault

LEMMA Updated ==
    ASSUME TypeOK, NEW a \in Admin, UpdateConnector(a)
    PROVE  /\ views[a] \in View /\ views[a] # Closed
           /\ rows' \in [Id -> Row]
           /\ \A id \in Id :
                 \/ rows'[id] = rows[id] /\ (id # views[a].id \/ rows[id].status # "live")
                 \/ /\ id = views[a].id /\ rows[id].status = "live" /\ rows'[id].status = "live"
                    /\ rows'[id].enabled = views[a].enabled
                    /\ rows'[id].secret = views[a].kept
<1> DEFINE v == views[a]
           row == [rows[v.id] EXCEPT !.enabled = v.enabled, !.secret = v.kept]
<1>1. v \in View /\ v # Closed
  BY DEF TypeOK, UpdateConnector, Closed
<1>2. v.id \in Id /\ v.enabled \in BOOLEAN /\ v.kept \in Secret
  BY <1>1 DEF View
<1>3. rows \in [Id -> Row] /\ rows[v.id] \in Row
  BY <1>2 DEF TypeOK
<1>4. /\ row \in Row /\ row.status = rows[v.id].status
      /\ row.enabled = v.enabled /\ row.secret = v.kept
  BY <1>2, <1>3 DEF Row
<1>5. \/ rows[v.id].status # "live" /\ UNCHANGED rows
      \/ rows[v.id].status = "live" /\ rows' = [rows EXCEPT ![v.id] = row]
  BY <1>3 DEF UpdateConnector
<1> HIDE DEF v, row
<1>6. rows' \in [Id -> Row]
  BY <1>2, <1>3, <1>4, <1>5
<1>7. ASSUME NEW id \in Id
      PROVE  \/ rows'[id] = rows[id] /\ (id # v.id \/ rows[id].status # "live")
             \/ /\ id = v.id /\ rows[id].status = "live" /\ rows'[id].status = "live"
                /\ rows'[id].enabled = v.enabled /\ rows'[id].secret = v.kept
  BY <1>2, <1>3, <1>4, <1>5
<1> QED
  BY <1>1, <1>6, <1>7 DEF v

LEMMA ShownType ==
    ASSUME TypeOK, NEW id \in Id
    PROVE  MaskConnector(id) \in View /\ MaskConnector(id).step = "shown"
BY DEF TypeOK, MaskConnector, Shown, View, Row, Secret

LEMMA SavedType ==
    ASSUME TypeOK, NEW a \in Admin, views[a] # Closed
    PROVE  /\ views[a] \in View
           /\ Toggled(views[a]) \in View
           /\ Toggled(views[a]).step = "saving" /\ Toggled(views[a]).id = views[a].id
           /\ \A p \in Password :
                 /\ Rekeyed(views[a], p) \in View
                 /\ Rekeyed(views[a], p).step = "saving" /\ Rekeyed(views[a], p).id = views[a].id
           /\ [views[a] EXCEPT !.late = TRUE] \in View
<1>1. views[a] \in View /\ rows[views[a].id] \in Row
  BY DEF TypeOK, View
<1>2. rows[views[a].id].enabled \in BOOLEAN /\ rows[views[a].id].secret \in Secret
  BY <1>1 DEF Row
<1>3. MergeConnectorSecrets(views[a].id, views[a].kept) \in Secret
  BY <1>1, <1>2 DEF MergeConnectorSecrets, View
<1> DEFINE v == views[a]
<1>4. v \in View /\ v.enabled \in BOOLEAN
  BY <1>1 DEF View
<1>5. Toggled(v) = [v EXCEPT !.step = "saving", !.enabled = ~v.enabled,
                             !.kept = MergeConnectorSecrets(v.id, v.kept)]
  BY <1>4 DEF Toggled, View
<1> QED
  BY <1>2, <1>3, <1>4, <1>5 DEF Rekeyed, View, Secret

LEMMA AdminTypeOK == ASSUME TypeOK, AdminStep PROVE TypeOK'
<1> USE DEF TypeOK
<1>1. ASSUME NEW id \in Id, CreateRow(id) PROVE TypeOK'
  BY <1>1 DEF CreateRow, Row, Secret, busVars
<1>2. ASSUME NEW id \in Id, DeleteRow(id) PROVE TypeOK'
  <2>1. rows' \in [Id -> Row]
    BY <1>2 DEF DeleteRow, Row
  <2>2. offSince' \in [Id -> Nat]
    BY <1>2 DEF DeleteRow
  <2> QED
    BY <1>2, <2>1, <2>2 DEF DeleteRow, busVars
<1>3. ASSUME NEW a \in Admin, NEW id \in Id, ShowConnector(a, id) PROVE TypeOK'
  <2>2. views' \in [Admin -> {Closed} \cup View]
    BY <1>3, ShownType DEF ShowConnector
  <2> QED
    BY <1>3, <2>2 DEF ShowConnector, busVars
<1>4. ASSUME NEW a \in Admin, ReadForUpdate(a) PROVE TypeOK'
  <2>1. views[a] # Closed
    BY <1>4 DEF ReadForUpdate, Closed
  <2>2. views' \in [Admin -> {Closed} \cup View]
    BY <1>4, <2>1, SavedType DEF ReadForUpdate
  <2> QED
    BY <1>4, <2>2 DEF ReadForUpdate, busVars
<1>5. ASSUME NEW a \in Admin, UpdateConnector(a) PROVE TypeOK'
  <2>1. views[a] \in View /\ rows' \in [Id -> Row]
    BY <1>5, Updated
  <2>2. views[a].id \in Id /\ views[a].enabled \in BOOLEAN
    BY <2>1 DEF View
  <2>4. Len(events) \in Nat
    OBVIOUS
  <2>5. offSince' \in [Id -> Nat]
    BY <1>5, <2>2, <2>4 DEF UpdateConnector
  <2>6. ASSUME NEW b \in Admin PROVE views'[b] \in {Closed} \cup View
    <3>0. Saving(b, views[a].id) => views[b] # Closed
      BY DEF Saving, Closed
    <3>1. Saving(b, views[a].id) => [views[b] EXCEPT !.late = TRUE] \in View
      BY <3>0, SavedType
    <3> QED
      BY <1>5, <3>1 DEF UpdateConnector
  <2>3. views' \in [Admin -> {Closed} \cup View]
    BY <1>5, <2>6 DEF UpdateConnector
  <2> QED
    BY <1>5, <2>1, <2>3, <2>5 DEF UpdateConnector, busVars
<1> QED
  BY <1>1, <1>2, <1>3, <1>4, <1>5 DEF AdminStep

LEMMA BusTypeOK ==
    ASSUME TypeOK,
           \/ \E e \in Event : Publish(e)
           \/ \E w \in Worker : Start(w) \/ Reconnect(w) \/ Disconnect(w) \/ GiveUp(w) \/ Crash(w)
    PROVE  TypeOK'
<1> USE DEF TypeOK
<1>1. ASSUME NEW e \in Event, Publish(e) PROVE TypeOK'
  <2>1. events' \in Seq(Event)
    BY <1>1 DEF Publish
  <2>2. \A w \in Worker : Append(pending[w], Len(events) + 1) \in Seq(Nat)
    OBVIOUS
  <2>3. pending' \in [Worker -> Seq(Nat)]
    BY <1>1, <2>2 DEF Publish, Receive
  <2> QED
    BY <1>1, <2>1, <2>3 DEF Publish, rowVars
<1>2. ASSUME NEW w \in Worker, Start(w) \/ Reconnect(w) PROVE TypeOK'
  BY <1>2 DEF Start, Reconnect, rowVars
<1>3. ASSUME NEW w \in Worker, Disconnect(w) PROVE TypeOK'
  BY <1>3, FaultType DEF Disconnect, rowVars
<1>4. ASSUME NEW w \in Worker, GiveUp(w) PROVE TypeOK'
  BY <1>4 DEF GiveUp, rowVars
<1>5. ASSUME NEW w \in Worker, Crash(w) PROVE TypeOK'
  <2>1. jobs' \in [Worker -> Job]
    BY <1>5 DEF Crash, Idle, Job
  <2>2. links' \in [Worker -> {"down", "subscribed", "reconnecting", "closed"}]
        /\ pending' \in [Worker -> Seq(Nat)]
    BY <1>5 DEF Crash
  <2> QED
    BY <1>5, <2>1, <2>2, FaultType DEF Crash, rowVars
<1> QED
  BY <1>1, <1>2, <1>3, <1>4, <1>5

LEMMA LeftType ==
    ASSUME TypeOK, NEW w \in Worker, NEW todo \in SUBSET Id, NEW unlogged \in SUBSET Id
    PROVE  Left(w, todo, unlogged) \in Job
BY DEF TypeOK, Left, Idle, Job

LEMMA HandlerTypeOK ==
    ASSUME TypeOK, NEW w \in Worker, HandlerStep(w)
    PROVE  TypeOK'
<1> USE DEF TypeOK
<1>1. ASSUME Take(w) PROVE TypeOK'
  <2> DEFINE n == Head(pending[w])
             todo == ListEnabled(w, events[n])
             job == IF todo = {} THEN Idle ELSE [event |-> n, todo |-> todo, unlogged |-> {}]
  <2>1. n \in Nat /\ Tail(pending[w]) \in Seq(Nat)
    <3>1. pending[w] \in Seq(Nat) /\ pending[w] # <<>>
      BY <1>1 DEF Take
    <3> QED
      BY <3>1, HeadTailProperties
  <2>2. job \in Job
    BY <2>1 DEF Idle, Job, ListEnabled
  <2> HIDE DEF job
  <2>3. jobs' = [jobs EXCEPT ![w] = job] \/ UNCHANGED jobs
    BY <1>1 DEF Take, Either, job
  <2>4. jobs' \in [Worker -> Job]
    BY <2>2, <2>3
  <2>5. pending' \in [Worker -> Seq(Nat)]
    BY <1>1, <2>1 DEF Take
  <2>6. faults' \in Nat
    BY <1>1, FaultType DEF Take, Either
  <2> QED
    BY <1>1, <2>4, <2>5, <2>6 DEF Take, rowVars
<1>2. ASSUME NEW id \in Id, Call(w, id) PROVE TypeOK'
  <2>0. jobs[w] \in Job
    OBVIOUS
  <2>1. [id |-> id, event |-> jobs[w].event] \in Use
    BY <2>0 DEF Use, Job
  <2>2. calls' \in Seq(Use)
    BY <1>2, <2>1 DEF Call
  <2> DEFINE unlogged == IF w = "rule-engine" THEN {id} ELSE {}
  <2>a. jobs[w].todo \ {id} \in SUBSET Id /\ unlogged \in SUBSET Id
    BY <2>0 DEF Job
  <2> HIDE DEF unlogged
  <2>3. Left(w, jobs[w].todo \ {id}, unlogged) \in Job
    BY <2>a, LeftType
  <2>4. jobs' \in [Worker -> Job]
    BY <1>2, <2>3 DEF Call, unlogged
  <2> QED
    BY <1>2, <2>2, <2>4 DEF Call, rowVars, busVars
<1>3. ASSUME NEW id \in Id, InsertExecution(w, id) PROVE TypeOK'
  <2>0. jobs[w] \in Job
    OBVIOUS
  <2>1. [id |-> id, event |-> jobs[w].event] \in Use
    BY <2>0 DEF Use, Job
  <2>2. executions' \subseteq Use /\ faults' \in Nat
    BY <1>3, <2>1, FaultType DEF InsertExecution, Either
  <2>3. Left(w, jobs[w].todo, {}) \in Job
    BY <2>0, LeftType DEF Job
  <2>4. jobs' \in [Worker -> Job]
    BY <1>3, <2>3 DEF InsertExecution
  <2> QED
    BY <1>3, <2>2, <2>4 DEF InsertExecution, rowVars, busVars
<1> QED
  BY <1>1, <1>2, <1>3 DEF HandlerStep

LEMMA NextTypeOK == ASSUME TypeOK, [Next]_vars PROVE TypeOK'
<1>1. CASE UNCHANGED vars
  BY <1>1 DEF TypeOK, vars, rowVars, busVars
<1>2. CASE Next
  BY <1>2, AdminTypeOK, BusTypeOK, HandlerTypeOK DEF Next, ConsumerNext
<1> QED
  BY <1>1, <1>2

\* The state of the consumers keeps its shape through every step of the
\* services, of NATS and of the administrators.
THEOREM TypeCorrect == Spec => []TypeOK
<1> QED
  BY InitTypeOK, NextTypeOK, PTL DEF Spec

-----------------------------------------------------------------------------
(* The rows and the sessions *)

LEMMA SecretsPreserved ==
    ASSUME TypeOK, SecretsHeld, [Next]_vars
    PROVE  SecretsHeld'
<1> USE RowAssumption DEF TypeOK
<1>0. /\ \A a \in Admin : views[a] # Closed =>
            /\ views[a] \in View /\ rows[views[a].id].status # "new"
            /\ Holds(views[a], rows[views[a].id])
      /\ \A id \in Id : rows[id] \in Row
  BY DEF SecretsHeld
<1>1. ASSUME NEW id \in Id, CreateRow(id) PROVE SecretsHeld'
  <2>1. \A x \in Id : \/ rows'[x] = rows[x]
                      \/ /\ rows[x].status = "new" /\ rows'[x].status = "live"
                         /\ KindOf[x] = "mqtt" => rows'[x].secret \in Password
    BY <1>1 DEF CreateRow
  <2>2. UNCHANGED views
    BY <1>1 DEF CreateRow
  <2>3. \A a \in Admin : views[a] # Closed => rows'[views[a].id] = rows[views[a].id]
    BY <1>0, <2>1 DEF View
  <2> QED
    BY <2>1, <2>2, <2>3 DEF SecretsHeld, Holds
<1>2. ASSUME NEW id \in Id, DeleteRow(id) PROVE SecretsHeld'
  <2>1. \A x \in Id : \/ rows'[x] = rows[x]
                      \/ rows'[x].status = "deleted" /\ rows'[x].secret = rows[x].secret
    BY <1>0, <1>2 DEF DeleteRow, Row
  <2>2. UNCHANGED views
    BY <1>2 DEF DeleteRow
  <2>3. \A a \in Admin : views[a] # Closed => views[a].id \in Id
    BY <1>0 DEF View
  <2> QED
    BY <2>1, <2>2, <2>3 DEF SecretsHeld, Holds
<1>3. ASSUME NEW a \in Admin, NEW id \in Id, ShowConnector(a, id)
      PROVE  SecretsHeld'
  <2>1. MaskConnector(id).id = id /\ Holds(MaskConnector(id), rows[id]) /\ rows[id].status # "new"
    BY <1>3 DEF MaskConnector, Shown, Holds, ShowConnector
  <2>2. UNCHANGED rows /\ \A b \in Admin : views'[b] = views[b] \/ views'[b] = MaskConnector(id)
    BY <1>3 DEF ShowConnector
  <2> QED
    BY <2>1, <2>2 DEF SecretsHeld, Holds
<1>4. ASSUME NEW a \in Admin, ReadForUpdate(a) PROVE SecretsHeld'
  <2>1. views[a].step = "shown" /\ views[a] # Closed /\ views[a] \in View
    BY <1>0, <1>4 DEF ReadForUpdate, Closed
  <2>2. views[a].id \in Id /\ views[a].enabled \in BOOLEAN
    BY <2>1 DEF View
  <2>3. CASE UNCHANGED rows /\ views' = [views EXCEPT ![a] = Closed]
    BY <2>3 DEF SecretsHeld, Holds
  <2>4. CASE /\ UNCHANGED rows /\ rows[views[a].id].status = "live"
             /\ views' = [views EXCEPT ![a] = Toggled(views[a])]
    <3> DEFINE v == Toggled(views[a])
    <3>1. v.step = "saving" /\ v.id = views[a].id
      BY <2>1, SavedType
    <3>2. v.kept = MergeConnectorSecrets(views[a].id, views[a].kept)
      BY <2>1 DEF Toggled, View
    <3>3. KindOf[v.id] = "mqtt" =>
            v.kept = rows[views[a].id].secret /\ rows[views[a].id].secret \in Password
      BY <1>0, <2>1, <2>2, <2>4, <3>1, <3>2 DEF MergeConnectorSecrets, Holds, SecretsHeld
    <3>4. Holds(v, rows[v.id]) /\ rows[v.id].status # "new"
      BY <2>4, <3>1, <3>3 DEF Holds
    <3> HIDE DEF v
    <3>5. \A b \in Admin : views'[b] = views[b] \/ views'[b] = v
      BY <2>4 DEF v
    <3> QED
      BY <2>4, <3>4, <3>5 DEF SecretsHeld, Holds
  <2>5. ASSUME UNCHANGED rows, rows[views[a].id].status = "live",
               NEW p \in Password, views' = [views EXCEPT ![a] = Rekeyed(views[a], p)]
        PROVE  SecretsHeld'
    <3> DEFINE v == Rekeyed(views[a], p)
    <3>1. v.step = "saving" /\ v.id = views[a].id
      BY <2>1, SavedType
    <3>2. v.kept = p /\ v.new
      BY <2>1 DEF Rekeyed, View
    <3>3. Holds(v, rows[v.id]) /\ rows[v.id].status # "new"
      BY <2>5, <3>1, <3>2 DEF Holds
    <3> HIDE DEF v
    <3>4. \A b \in Admin : views'[b] = views[b] \/ views'[b] = v
      BY <2>5 DEF v
    <3> QED
      BY <2>5, <3>3, <3>4 DEF SecretsHeld, Holds
  <2> QED
    BY <1>4, <2>3, <2>4, <2>5 DEF ReadForUpdate
<1>5. ASSUME NEW a \in Admin, UpdateConnector(a) PROVE SecretsHeld'
  <2>1. /\ views[a] \in View /\ views[a] # Closed
        /\ \A id \in Id : \/ rows'[id] = rows[id]
                          \/ /\ id = views[a].id /\ rows'[id].secret = views[a].kept
                             /\ rows[id].status = "live" /\ rows'[id].status = "live"
    BY <1>5, Updated
  <2>2. views[a].step = "saving" /\ views[a].id \in Id /\ Holds(views[a], rows[views[a].id])
    BY <1>0, <1>5, <2>1 DEF UpdateConnector, View
  <2>3. KindOf[views[a].id] = "mqtt" => views[a].kept \in Password
    BY <2>2 DEF Holds
  <2>4. ASSUME NEW b \in Admin, views'[b] # Closed
        PROVE  Holds(views'[b], rows'[views'[b].id]) /\ rows'[views'[b].id].status # "new"
    <3>1. b # a /\ views[b] # Closed /\ views[b] \in View
      BY <1>0, <1>5, <2>4 DEF UpdateConnector, Saving, Closed
    <3>2. /\ views[b].id \in Id /\ rows[views[b].id].status # "new"
          /\ Holds(views[b], rows[views[b].id])
      BY <1>0, <3>1 DEF View
    <3>3. CASE Saving(b, views[a].id)
      <4>1. views'[b] = [views[b] EXCEPT !.late = TRUE]
        BY <1>5, <3>1, <3>3 DEF UpdateConnector
      <4>2. /\ views'[b].late /\ views'[b].id = views[b].id /\ views'[b].step = "saving"
            /\ views'[b].kept = views[b].kept
        BY <3>1, <3>3, <4>1 DEF View, Saving
      <4> QED
        BY <2>1, <3>2, <3>3, <4>2 DEF Holds, Saving
    <3>4. CASE ~Saving(b, views[a].id)
      <4>1. views'[b] = views[b]
        BY <1>5, <3>1, <3>4 DEF UpdateConnector
      <4>2. views[b].step = "shown" \/ views[b].id # views[a].id
        BY <3>1, <3>4 DEF Saving, View
      <4> QED
        BY <2>1, <3>2, <4>1, <4>2 DEF Holds
    <3> QED
      BY <3>3, <3>4
  <2>5. \A id \in Id : KindOf[id] = "mqtt" /\ rows'[id].status = "live" =>
          rows'[id].secret \in Password
    BY <2>1, <2>3 DEF SecretsHeld
  <2> QED
    BY <2>4, <2>5 DEF SecretsHeld
<1>6. CASE UNCHANGED <<rows, views>>
  BY <1>6 DEF SecretsHeld, Holds
<1>7. CASE ~AdminStep
  <2>1. UNCHANGED <<rows, views>>
    BY <1>7 DEF Next, ConsumerNext, HandlerStep, Publish, Start, Reconnect, Take, Call,
                InsertExecution, Disconnect, GiveUp, Crash, vars, rowVars
  <2> QED
    BY <1>6, <2>1
<1> QED
  BY <1>1, <1>2, <1>3, <1>4, <1>5, <1>7 DEF AdminStep

\* What a step does to the password of an MQTT connector.
Kept(id) ==
    KindOf[id] = "mqtt" /\ rows[id].status = "live" /\ rows'[id].secret # rows[id].secret
    => /\ rows'[id].secret \in Password
       /\ \E a \in Admin : /\ Saving(a, id) /\ views'[a] = Closed
                          /\ (views[a].new \/ views[a].late)

LEMMA PasswordStep ==
    ASSUME TypeOK, SecretsHeld, [Next]_vars, NEW id \in Id
    PROVE  Kept(id)
<1> USE DEF TypeOK
<1>1. CASE rows'[id] = rows[id]
  BY <1>1 DEF Kept
<1>2. ASSUME NEW x \in Id, CreateRow(x) PROVE Kept(id)
  BY <1>2 DEF Kept, CreateRow
<1>3. ASSUME NEW x \in Id, DeleteRow(x) PROVE Kept(id)
  BY <1>3 DEF Kept, DeleteRow, Row
<1>4. ASSUME NEW a \in Admin, UpdateConnector(a) PROVE Kept(id)
  <2>1. /\ views[a] \in View /\ views[a] # Closed
        /\ \/ rows'[id] = rows[id]
           \/ id = views[a].id /\ rows'[id].secret = views[a].kept /\ rows[id].status = "live"
    BY <1>4, Updated
  <2>2. views[a].step = "saving" /\ views'[a] = Closed
    BY <1>4 DEF UpdateConnector
  <2>3. Holds(views[a], rows[views[a].id])
    BY <2>1 DEF SecretsHeld
  <2> QED
    BY <1>1, <2>1, <2>2, <2>3 DEF Holds, Kept, Saving
<1>5. CASE UNCHANGED rows
  BY <1>1, <1>5
<1>6. ASSUME NEW a \in Admin, ReadForUpdate(a) \/ \E x \in Id : ShowConnector(a, x)
      PROVE  Kept(id)
  BY <1>5, <1>6 DEF ReadForUpdate, ShowConnector
<1> QED
  BY <1>2, <1>3, <1>4, <1>5, <1>6 DEF Next, ConsumerNext, AdminStep, HandlerStep, Publish, Start,
     Reconnect, Take, Call, InsertExecution, Disconnect, GiveUp, Crash, vars, rowVars

\* Events and calls stay as they are, and switching a row off is remembered.
Remembers ==
    /\ \A n \in Events : n \in Events' /\ events'[n] = events[n]
    /\ \A i \in 1..Len(calls) : i \in 1..Len(calls') /\ calls'[i] = calls[i]
    /\ \A id \in Id : /\ Active(id) => Active(id)' \/ offSince'[id] = Len(events)
                      /\ offSince[id] <= offSince'[id] /\ offSince'[id] <= Len(events)

LEMMA AdminRemembers ==
    ASSUME TypeOK, RefersToEvents, AdminStep
    PROVE  Remembers /\ UNCHANGED <<events, pending, jobs, calls>>
<1>a. UNCHANGED <<events, pending, jobs, calls>>
  <2>1. ASSUME NEW id \in Id, CreateRow(id) \/ DeleteRow(id)
        PROVE  UNCHANGED <<events, pending, jobs, calls>>
    BY <2>1 DEF CreateRow, DeleteRow, busVars
  <2>2. ASSUME NEW a \in Admin, NEW id \in Id, ShowConnector(a, id)
        PROVE  UNCHANGED <<events, pending, jobs, calls>>
    BY <2>2 DEF ShowConnector, busVars
  <2>3. ASSUME NEW a \in Admin, ReadForUpdate(a) \/ UpdateConnector(a)
        PROVE  UNCHANGED <<events, pending, jobs, calls>>
    BY <2>3 DEF ReadForUpdate, UpdateConnector, busVars
  <2> QED
    BY <2>1, <2>2, <2>3 DEF AdminStep
<1> USE DEF TypeOK, RefersToEvents
<1>0. UNCHANGED <<events, pending, jobs, calls>> /\ Len(events) \in Nat
  BY <1>a
<1>1. SUFFICES ASSUME NEW id \in Id
      PROVE  /\ Active(id) => Active(id)' \/ offSince'[id] = Len(events)
             /\ offSince[id] <= offSince'[id] /\ offSince'[id] <= Len(events)
  BY <1>0 DEF Remembers, Events
<1>2. offSince[id] \in Nat /\ offSince[id] <= Len(events)
  OBVIOUS
<1>3. ASSUME NEW x \in Id, CreateRow(x)
      PROVE  offSince' = offSince /\ (Active(id) => Active(id)')
  BY <1>3 DEF CreateRow, Active
<1>4. ASSUME NEW x \in Id, DeleteRow(x)
      PROVE  \/ offSince'[id] = offSince[id] /\ (Active(id) => Active(id)')
             \/ offSince'[id] = Len(events)
  BY <1>4 DEF DeleteRow, Active
<1>5. ASSUME NEW a \in Admin, \/ \E x \in Id : ShowConnector(a, x)
                              \/ ReadForUpdate(a)
      PROVE  offSince' = offSince /\ (Active(id) => Active(id)')
  BY <1>5 DEF ShowConnector, ReadForUpdate, Active
<1>6. ASSUME NEW a \in Admin, UpdateConnector(a)
      PROVE  \/ offSince'[id] = offSince[id] /\ (Active(id) => Active(id)')
             \/ offSince'[id] = Len(events)
  <2>1. \/ rows'[id] = rows[id] /\ (id # views[a].id \/ rows[id].status # "live")
        \/ /\ id = views[a].id /\ rows[id].status = "live" /\ rows'[id].status = "live"
           /\ rows'[id].enabled = views[a].enabled
    BY <1>6, Updated
  <2>2. CASE rows'[id] = rows[id] /\ (id # views[a].id \/ rows[id].status # "live")
    <3>1. offSince'[id] = offSince[id]
      BY <1>6, <2>2 DEF UpdateConnector
    <3> QED
      BY <2>2, <3>1 DEF Active
  <2>3. CASE /\ id = views[a].id /\ rows[id].status = "live" /\ rows'[id].status = "live"
             /\ rows'[id].enabled = views[a].enabled
    <3>1. offSince'[id] = IF Active(id) /\ ~views[a].enabled THEN Len(events) ELSE offSince[id]
      BY <1>6, <2>3 DEF UpdateConnector
    <3> QED
      BY <2>3, <3>1 DEF Active
  <2> QED
    BY <2>1, <2>2, <2>3
<1>7. \/ offSince'[id] = offSince[id] /\ (Active(id) => Active(id)')
      \/ offSince'[id] = Len(events)
  BY <1>3, <1>4, <1>5, <1>6 DEF AdminStep
<1> QED
  BY <1>0, <1>2, <1>7

LEMMA StepRemembers ==
    ASSUME TypeOK, RefersToEvents, [Next]_vars PROVE Remembers
<1> USE DEF TypeOK, RefersToEvents, Remembers, Events
<1>0. Len(events) \in Nat /\ \A id \in Id : offSince[id] \in Nat /\ offSince[id] <= Len(events)
  OBVIOUS
<1>1. CASE AdminStep
  BY <1>1, AdminRemembers
<1>2. ASSUME NEW e \in Event, Publish(e) PROVE Remembers
  <2>1. Len(events') = Len(events) + 1 /\ \A n \in 1..Len(events) : events'[n] = events[n]
    BY <1>2 DEF Publish
  <2> QED
    BY <1>0, <1>2, <2>1 DEF Publish, rowVars, Active
<1>3. ASSUME NEW w \in Worker, NEW id \in Id, Call(w, id) PROVE Remembers
  <2>0. [id |-> id, event |-> jobs[w].event] \in Use
    BY DEF Job, Use
  <2>1. Len(calls') \in Nat /\ Len(calls) <= Len(calls')
        /\ \A i \in 1..Len(calls) : calls'[i] = calls[i]
    BY <1>3, <2>0 DEF Call
  <2> QED
    BY <1>0, <1>3, <2>1 DEF Call, rowVars, Active
<1>4. CASE UNCHANGED <<rowVars, events, calls>>
  BY <1>0, <1>4 DEF rowVars, Active
<1> QED
  BY <1>1, <1>2, <1>3, <1>4 DEF Next, ConsumerNext, HandlerStep, Start, Reconnect, Take,
     InsertExecution, Disconnect, GiveUp, Crash, vars, rowVars
-----------------------------------------------------------------------------
(* The handlers and the log *)

\* Take, Call and InsertExecution leave a job that its event and rows fit.
LEMMA JobsKept ==
    ASSUME TypeOK, offSince' \in [Id -> Nat], Remembers, NEW w \in Worker, NEW todo \in SUBSET Id,
           NEW unlogged \in SUBSET Id, JobFits(w), todo \subseteq jobs[w].todo,
           jobs'[w] = jobs[w] \/ jobs'[w] = Left(w, todo, unlogged),
           \A id \in unlogged :
              /\ id \in jobs[w].todo \cup jobs[w].unlogged /\ w = "rule-engine"
              /\ \E i \in 1..Len(calls') : calls'[i] = [id |-> id, event |-> jobs[w].event]
    PROVE  JobFits(w)'
<1> DEFINE job == jobs[w]
<1>1. job \in Job /\ job.event \in Nat
  BY DEF TypeOK, Job
<1>2. \A id \in job.todo \cup job.unlogged :
         job.event \in Events' /\ Selects(w, id, events'[job.event])
  BY DEF JobFits, Remembers
<1>3. \A id \in job.todo : Active(id)' \/ job.event <= offSince'[id]
  <2> SUFFICES ASSUME NEW id \in job.todo, ~Active(id)' PROVE job.event <= offSince'[id]
    OBVIOUS
  <2>1. id \in Id /\ offSince[id] \in Nat /\ Len(events) \in Nat
    BY <1>1 DEF TypeOK, Job
  <2>2. job.event <= Len(events)
    BY <1>1, <2>1 DEF JobFits, Events
  <2>3. offSince[id] <= offSince'[id] /\ (Active(id) => offSince'[id] = Len(events))
    BY <2>1 DEF Remembers
  <2>4. Active(id) \/ job.event <= offSince[id]
    BY DEF JobFits
  <2>5. CASE Active(id)
    BY <2>2, <2>3, <2>5
  <2>6. CASE job.event <= offSince[id]
    <3>1. offSince'[id] \in Nat
      BY <2>1
    <3> QED
      BY <1>1, <2>1, <2>3, <2>6, <3>1
  <2> QED
    BY <2>4, <2>5, <2>6
<1>4. \A id \in job.unlogged :
         /\ w = "rule-engine"
         /\ \E i \in 1..Len(calls') : calls'[i] = [id |-> id, event |-> job.event]
  BY DEF JobFits, Remembers
<1>5. CASE jobs'[w] = job
  BY <1>2, <1>3, <1>4, <1>5 DEF JobFits, Selects
<1>6. CASE jobs'[w] = Left(w, todo, unlogged)
  <2>1. CASE jobs'[w] = Idle
    BY <2>1 DEF JobFits, Idle
  <2>2. CASE jobs'[w] = [event |-> job.event, todo |-> todo, unlogged |-> unlogged]
    <3>1. jobs'[w].event = job.event /\ jobs'[w].todo = todo /\ jobs'[w].unlogged = unlogged
      BY <2>2
    <3>2. \A id \in todo \cup unlogged :
             jobs'[w].event \in Events' /\ Selects(w, id, events'[jobs'[w].event])
      BY <1>2, <3>1
    <3>3. \A id \in todo : Active(id)' \/ jobs'[w].event <= offSince'[id]
      BY <1>3, <3>1
    <3>4. \A id \in unlogged :
             /\ w = "rule-engine"
             /\ \E i \in 1..Len(calls') : calls'[i] = [id |-> id, event |-> jobs'[w].event]
      BY <3>1
    <3> QED
      BY <3>1, <3>2, <3>3, <3>4 DEF JobFits, Selects
  <2> QED
    BY <1>6, <2>1, <2>2 DEF Left
<1> QED
  BY <1>5, <1>6

LEMMA JobsPreserved ==
    ASSUME TypeOK, RefersToEvents, JobsFit, [Next]_vars PROVE JobsFit'
<1> SUFFICES ASSUME NEW w \in Worker PROVE JobFits(w)'
  BY DEF JobsFit
<1>1. Remembers /\ JobFits(w) /\ jobs[w] \in Job /\ offSince' \in [Id -> Nat]
  BY StepRemembers, NextTypeOK DEF JobsFit, TypeOK
<1>2. jobs[w].todo \in SUBSET Id /\ jobs[w].unlogged \in SUBSET Id
  BY <1>1 DEF Job
<1>3. CASE jobs'[w] = jobs[w]
  <2> DEFINE none == {}
  <2>1. none \in SUBSET Id /\ none \subseteq jobs[w].todo /\ \A id \in none : FALSE
    OBVIOUS
  <2> HIDE DEF none
  <2> QED
    BY <1>1, <1>3, <2>1, JobsKept
<1>4. CASE jobs'[w] = Idle
  BY <1>4 DEF JobFits, Idle
<1>5. CASE Take(w)
  <2> DEFINE n == Head(pending[w])
  <2>1. pending[w] \in Seq(Nat) /\ pending[w] # <<>>
    BY <1>5 DEF Take, TypeOK
  <2>2. n \in Events
    BY <2>1 DEF RefersToEvents
  <2>3. \/ jobs'[w] = jobs[w] \/ jobs'[w] = Idle
        \/ jobs'[w] = [event |-> n, todo |-> ListEnabled(w, events[n]), unlogged |-> {}]
    BY <1>5 DEF Take, Either, TypeOK
  <2>4. CASE jobs'[w] = [event |-> n, todo |-> ListEnabled(w, events[n]), unlogged |-> {}]
    <3>1. jobs'[w].event = n /\ jobs'[w].todo = ListEnabled(w, events[n]) /\ jobs'[w].unlogged = {}
      BY <2>4
    <3>2. UNCHANGED <<rows, events>>
      BY <1>5 DEF Take, rowVars
    <3> QED
      BY <2>2, <3>1, <3>2 DEF JobFits, ListEnabled, Active, Selects, Events
  <2> QED
    BY <1>3, <1>4, <2>3, <2>4
<1>6. ASSUME NEW id \in Id, Call(w, id) PROVE JobFits(w)'
  <2> DEFINE todo == jobs[w].todo \ {id}
             unlogged == IF w = "rule-engine" THEN {id} ELSE {}
  <2>1. todo \in SUBSET Id /\ unlogged \in SUBSET Id /\ todo \subseteq jobs[w].todo
    BY <1>2
  <2>2. jobs'[w] = Left(w, todo, unlogged)
    BY <1>6 DEF Call, TypeOK
  <2>3. ASSUME w = "rule-engine"
        PROVE  \E i \in 1..Len(calls') : calls'[i] = [id |-> id, event |-> jobs[w].event]
    <3>1. calls' = Append(calls, [id |-> id, event |-> jobs[w].event]) /\ calls \in Seq(Use)
      BY <1>6, <2>3 DEF Call, Callable, TypeOK
    <3>2. [id |-> id, event |-> jobs[w].event] \in Use
      BY <1>1 DEF Job, Use
    <3>3. Len(calls') = Len(calls) + 1 /\ Len(calls) \in Nat
          /\ calls'[Len(calls) + 1] = [id |-> id, event |-> jobs[w].event]
      BY <3>1, <3>2
    <3> QED
      BY <3>3
  <2>4. \A x \in unlogged :
           /\ x \in jobs[w].todo \cup jobs[w].unlogged /\ w = "rule-engine"
           /\ \E i \in 1..Len(calls') : calls'[i] = [id |-> x, event |-> jobs[w].event]
    BY <1>6, <2>3 DEF Call
  <2> HIDE DEF todo, unlogged
  <2> QED
    BY <1>1, <2>1, <2>2, <2>4, JobsKept
<1>7. ASSUME NEW id \in Id, InsertExecution(w, id) PROVE JobFits(w)'
  <2>1. jobs'[w] = Left(w, jobs[w].todo, {})
    BY <1>7 DEF InsertExecution, TypeOK
  <2> QED
    BY <1>1, <1>2, <2>1, JobsKept
<1>8. CASE Crash(w)
  BY <1>4, <1>8 DEF Crash, TypeOK
<1>9. ASSUME NEW v \in Worker, v # w, HandlerStep(v) \/ Crash(v) PROVE jobs'[w] = jobs[w]
  BY <1>9 DEF HandlerStep, Take, Either, Call, InsertExecution, Crash, TypeOK
<1>10. CASE UNCHANGED jobs
  BY <1>3, <1>10
<1>11. CASE AdminStep
  BY <1>10, <1>11, AdminRemembers
<1> QED
  BY <1>3, <1>5, <1>6, <1>7, <1>8, <1>9, <1>10, <1>11 DEF Next, ConsumerNext, HandlerStep,
     Publish, Start, Reconnect, Disconnect, GiveUp, vars

LEMMA EventsPreserved ==
    ASSUME TypeOK, RefersToEvents, JobsFit, [Next]_vars PROVE RefersToEvents'
<1>1. Remembers /\ TypeOK'
  BY StepRemembers, NextTypeOK
<1>2. \A id \in Id : offSince'[id] <= Len(events')
  <2>1. Len(events) \in Nat /\ Len(events') \in Nat /\ \A id \in Id : offSince'[id] \in Nat
    BY <1>1 DEF TypeOK
  <2>2. Len(events) = 0 \/ Len(events) \in Events'
    BY <1>1, <2>1 DEF Remembers, Events
  <2>3. Len(events) <= Len(events')
    BY <2>1, <2>2 DEF Events
  <2> QED
    BY <1>1, <2>1, <2>3 DEF Remembers
<1>3. ASSUME NEW w \in Worker PROVE \A i \in 1..Len(pending'[w]) : pending'[w][i] \in Events'
  <2>0. pending[w] \in Seq(Nat) /\ \A i \in 1..Len(pending[w]) : pending[w][i] \in Events'
    BY <1>1 DEF TypeOK, RefersToEvents, Remembers
  <2>1. CASE pending'[w] = pending[w] \/ pending'[w] = <<>>
    BY <2>0, <2>1
  <2>2. CASE pending'[w] = Tail(pending[w]) /\ pending[w] # <<>>
    BY <2>0, <2>2
  <2>3. ASSUME NEW e \in Event, Publish(e), pending'[w] = Append(pending[w], Len(events) + 1)
        PROVE  \A i \in 1..Len(pending'[w]) : pending'[w][i] \in Events'
    <3>1. Len(events) + 1 \in Events' /\ Len(events) + 1 \in Nat
      BY <2>3 DEF Publish, Events, TypeOK
    <3> QED
      BY <2>0, <2>3, <3>1
  <2>4. ASSUME NEW e \in Event, Publish(e)
        PROVE  pending'[w] = pending[w] \/ pending'[w] = Append(pending[w], Len(events) + 1)
    BY <2>4 DEF Publish, Receive
  <2>5. ASSUME NEW v \in Worker, Take(v)
        PROVE  \/ pending'[w] = pending[w]
               \/ pending'[w] = Tail(pending[w]) /\ pending[w] # <<>>
    BY <2>5 DEF Take, TypeOK
  <2>6. ASSUME NEW v \in Worker, GiveUp(v) \/ Crash(v)
        PROVE  pending'[w] = pending[w] \/ pending'[w] = <<>>
    BY <2>6 DEF GiveUp, Crash, TypeOK
  <2>7. CASE UNCHANGED pending
    BY <2>1, <2>7
  <2>8. CASE AdminStep
    BY <2>7, <2>8, AdminRemembers
  <2> QED
    BY <2>1, <2>2, <2>3, <2>4, <2>5, <2>6, <2>7, <2>8 DEF Next, ConsumerNext, HandlerStep,
       Start, Reconnect, Call, InsertExecution, Disconnect, vars, busVars
<1>4. ASSUME NEW i \in 1..Len(calls') PROVE calls'[i].event \in Events'
  <2>1. CASE i \in 1..Len(calls)
    BY <1>1, <2>1 DEF Remembers, RefersToEvents
  <2>2. CASE i \notin 1..Len(calls)
    <3>1. PICK w \in Worker, id \in Id : Call(w, id) /\ calls' # calls
      BY <2>2, AdminRemembers DEF Next, ConsumerNext, HandlerStep, Publish, Start, Reconnect,
         Take, InsertExecution, Disconnect, GiveUp, Crash, vars
    <3>2. jobs[w].event \in Events /\ jobs[w] \in Job
      BY <3>1 DEF Call, JobsFit, JobFits, TypeOK
    <3>3. calls' = Append(calls, [id |-> id, event |-> jobs[w].event]) /\ calls \in Seq(Use)
      BY <3>1 DEF Call, TypeOK
    <3>4. [id |-> id, event |-> jobs[w].event] \in Use
      BY <3>2 DEF Job, Use
    <3>5. calls'[i] = [id |-> id, event |-> jobs[w].event]
      BY <2>2, <3>3, <3>4
    <3> QED
      BY <1>1, <3>2, <3>5 DEF Remembers
  <2> QED
    BY <2>1, <2>2
<1> QED
  BY <1>2, <1>3, <1>4 DEF RefersToEvents

\* A new call serves a row that the handler still holds.
LEMMA NewCall ==
    ASSUME TypeOK, RefersToEvents, JobsFit, [Next]_vars, calls' # calls
    PROVE  /\ Len(calls') = Len(calls) + 1
           /\ \E w \in Worker, id \in Id :
                 /\ calls'[Len(calls')] = [id |-> id, event |-> jobs[w].event]
                 /\ id \in jobs[w].todo /\ JobFits(w)
<1>1. PICK w \in Worker, id \in Id : Call(w, id)
  BY AdminRemembers DEF Next, ConsumerNext, HandlerStep, Publish, Start, Reconnect,
     Take, InsertExecution, Disconnect, GiveUp, Crash, vars
<1>2. calls' = Append(calls, [id |-> id, event |-> jobs[w].event]) /\ calls \in Seq(Use)
  BY <1>1 DEF Call, TypeOK
<1>3. [id |-> id, event |-> jobs[w].event] \in Use
  BY DEF TypeOK, Job, Use
<1>4. Len(calls') = Len(calls) + 1
      /\ calls'[Len(calls')] = [id |-> id, event |-> jobs[w].event]
  BY <1>2, <1>3
<1>5. id \in jobs[w].todo /\ JobFits(w)
  BY <1>1 DEF Call, JobsFit
<1> QED
  BY <1>4, <1>5

LEMMA CallsPreserved ==
    ASSUME TypeOK, RefersToEvents, JobsFit, TenantsKeptApart, [Next]_vars
    PROVE  TenantsKeptApart'
<1> DEFINE Right(id, e) == /\ OwnerOf[id] = e.tenant
                           /\ KindOf[id] = "rule" => MatchCondition(ConditionOf[id], e.reading)
<1>1. Remembers /\ Len(calls) \in Nat
  BY StepRemembers DEF TypeOK
<1>2. \A i \in 1..Len(calls) : Right(calls[i].id, events[calls[i].event])
  BY DEF TenantsKeptApart
<1>3. ASSUME NEW i \in 1..Len(calls') PROVE Right(calls'[i].id, events'[calls'[i].event])
  <2>1. CASE i \in 1..Len(calls)
    <3>1. /\ calls'[i] = calls[i] /\ calls[i].event \in Events
          /\ events'[calls[i].event] = events[calls[i].event]
      BY <1>1, <2>1 DEF RefersToEvents, Remembers
    <3> QED
      BY <1>2, <2>1, <3>1
  <2>2. CASE i \notin 1..Len(calls)
    <3>1. calls' # calls
      BY <2>2
    <3>2. PICK w \in Worker, id \in Id :
             /\ calls'[Len(calls')] = [id |-> id, event |-> jobs[w].event]
             /\ id \in jobs[w].todo /\ JobFits(w)
      BY <3>1, NewCall
    <3>3. i = Len(calls')
      BY <1>1, <2>2, <3>1, NewCall
    <3>4. jobs[w].event \in Events /\ Selects(w, id, events[jobs[w].event])
      BY <3>2 DEF JobFits
    <3>5. events'[jobs[w].event] = events[jobs[w].event]
      BY <1>1, <3>4 DEF Remembers
    <3>6. Right(id, events[jobs[w].event])
      BY <3>4, WorkerAssumption DEF Selects, Connector
    <3> QED
      BY <3>2, <3>3, <3>5, <3>6
  <2> QED
    BY <2>1, <2>2
<1> QED
  BY <1>3 DEF TenantsKeptApart, MatchCondition

LEMMA LogPreserved ==
    ASSUME TypeOK, RefersToEvents, JobsFit, LogOfRealRuns, [Next]_vars
    PROVE  LogOfRealRuns'
<1>1. Remembers
  BY StepRemembers
<1>2. ASSUME NEW x \in executions' PROVE \E i \in 1..Len(calls') : calls'[i] = x
  <2>1. CASE x \in executions
    <3>1. PICK i \in 1..Len(calls) : calls[i] = x
      BY <2>1 DEF LogOfRealRuns
    <3> QED
      BY <1>1, <3>1 DEF Remembers
  <2>2. CASE x \notin executions
    <3>1. PICK w \in Worker, id \in Id : InsertExecution(w, id)
      BY <2>2 DEF Next, ConsumerNext, HandlerStep, AdminStep, CreateRow, DeleteRow, ShowConnector,
         ReadForUpdate, UpdateConnector, Publish, Start, Reconnect, Take, Call, Disconnect,
         GiveUp, Crash, vars
    <3>2. x = [id |-> id, event |-> jobs[w].event] /\ id \in jobs[w].unlogged
      BY <2>2, <3>1 DEF InsertExecution, Either
    <3>3. PICK i \in 1..Len(calls) : calls[i] = x
      BY <3>2 DEF JobsFit, JobFits
    <3> QED
      BY <1>1, <3>3 DEF Remembers
  <2> QED
    BY <2>1, <2>2
<1>3. ASSUME NEW x \in executions' PROVE rows'[x.id].status = "live"
  <2>1. \A y \in executions : y \in Use /\ y.id \in Id /\ rows[y.id].status = "live"
    BY DEF TypeOK, LogOfRealRuns, Use
  <2>2. ASSUME NEW id \in Id, CreateRow(id) PROVE rows'[x.id].status = "live"
    BY <2>1, <2>2 DEF CreateRow, TypeOK
  <2>3. ASSUME NEW id \in Id, DeleteRow(id) PROVE rows'[x.id].status = "live"
    <3>1. x \in executions /\ x.id # id
      BY <2>3 DEF DeleteRow
    <3>2. rows'[x.id] = rows[x.id]
      BY <2>1, <2>3, <3>1 DEF DeleteRow, TypeOK
    <3> QED
      BY <2>1, <3>1, <3>2
  <2>4. ASSUME NEW a \in Admin, UpdateConnector(a) PROVE rows'[x.id].status = "live"
    <3>1. x \in executions
      BY <2>4 DEF UpdateConnector
    <3> QED
      BY <2>1, <2>4, <3>1, Updated
  <2>5. CASE UNCHANGED <<rows, executions>>
    BY <2>1, <2>5
  <2>6. ASSUME NEW w \in Worker, NEW id \in Id, InsertExecution(w, id)
        PROVE  rows'[x.id].status = "live"
    <3>1. UNCHANGED rows
      BY <2>6 DEF InsertExecution, rowVars
    <3>2. \/ x \in executions
          \/ rows[id].status = "live" /\ x = [id |-> id, event |-> jobs[w].event]
      BY <2>6 DEF InsertExecution, Either
    <3> QED
      BY <2>1, <3>1, <3>2
  <2>7. ASSUME NEW a \in Admin, ReadForUpdate(a) \/ \E id \in Id : ShowConnector(a, id)
        PROVE  rows'[x.id].status = "live"
    BY <2>5, <2>7 DEF ReadForUpdate, ShowConnector
  <2> QED
    BY <2>2, <2>3, <2>4, <2>5, <2>6, <2>7 DEF Next, ConsumerNext, HandlerStep, AdminStep,
       Publish, Start, Reconnect, Take, Call, Disconnect, GiveUp, Crash, vars, rowVars
<1> QED
  BY <1>2, <1>3 DEF LogOfRealRuns

-----------------------------------------------------------------------------
(* The order of the calls *)

\* The one service whose calls reach a row.
Serves(w, id) ==
    \/ w = "rule-engine" /\ KindOf[id] = "rule"
    \/ w = "connector-worker" /\ KindOf[id] \in {"http", "mqtt"}
    \/ w = "connector-mcp-worker" /\ KindOf[id] = "mcp"

LEMMA OneServes ==
    ASSUME NEW w \in Worker, NEW v \in Worker, NEW id, Serves(w, id), Serves(v, id)
    PROVE  v = w
BY DEF Serves

LEMMA CallerServes ==
    ASSUME NEW w \in Worker, NEW id, NEW e, Selects(w, id, e), Callable(w, id)
    PROVE  Serves(w, id)
BY WorkerAssumption DEF Serves, Selects, Callable, Connector

\* A row is called for its events in the order in which they were published.
CallsInOrder ==
    \A i, j \in 1..Len(calls) :
        i < j /\ calls[i].id = calls[j].id => calls[i].event < calls[j].event

\* What waits comes in order and after what is at work.
QueuesInOrder ==
    \A w \in Worker :
        /\ jobs[w].event <= Len(events)
        /\ \A i \in 1..Len(pending[w]) : jobs[w].event < pending[w][i]
        /\ \A i, j \in 1..Len(pending[w]) : i < j => pending[w][i] < pending[w][j]

\* What a service has still to call for comes after what it called for.
CallsBehind ==
    \A k \in 1..Len(calls) : \A w \in Worker : Serves(w, calls[k].id) =>
        /\ \A i \in 1..Len(pending[w]) : calls[k].event < pending[w][i]
        /\ calls[k].id \in jobs[w].todo => calls[k].event < jobs[w].event

Ordered == CallsInOrder /\ QueuesInOrder /\ CallsBehind

\* A step that publishes nothing and calls nothing: what is left of a queue and
\* of a job is as it was.
LEMMA QuietStep ==
    ASSUME TypeOK, Ordered, UNCHANGED <<events, calls>>,
           \A w \in Worker : pending'[w] = pending[w] \/ pending'[w] = <<>>,
           \A w \in Worker :
              \/ jobs'[w] = Idle
              \/ jobs'[w].event = jobs[w].event /\ jobs'[w].todo \subseteq jobs[w].todo,
           \A w \in Worker : \A i \in 1..Len(pending[w]) : 0 < pending[w][i]
    PROVE  Ordered'
<1>0. Len(events) \in Nat /\ Len(<<>>) = 0
  BY DEF TypeOK
<1>1. CallsInOrder'
  BY DEF Ordered, CallsInOrder
<1>2. QueuesInOrder'
  BY <1>0 DEF Ordered, QueuesInOrder, Idle
<1>3. CallsBehind'
  <2> SUFFICES ASSUME NEW k \in 1..Len(calls), NEW w \in Worker, Serves(w, calls[k].id)
      PROVE  /\ \A i \in 1..Len(pending'[w]) : calls[k].event < pending'[w][i]
             /\ calls[k].id \in jobs'[w].todo => calls[k].event < jobs'[w].event
    BY DEF CallsBehind, Serves
  <2>1. /\ \A i \in 1..Len(pending[w]) : calls[k].event < pending[w][i]
        /\ calls[k].id \in jobs[w].todo => calls[k].event < jobs[w].event
    BY DEF Ordered, CallsBehind
  <2> QED
    BY <1>0, <2>1 DEF Idle
<1> QED
  BY <1>1, <1>2, <1>3 DEF Ordered

LEMMA PublishKeepsOrder ==
    ASSUME TypeOK, RefersToEvents, Ordered, NEW e \in Event, Publish(e)
    PROVE  Ordered'
<1> DEFINE n == Len(events) + 1
<1>1. /\ UNCHANGED <<jobs, calls>> /\ Len(events) \in Nat /\ Len(events') = n
      /\ \A w \in Worker : jobs[w].event \in Nat
      /\ \A k \in 1..Len(calls) : calls[k].event \in Nat /\ calls[k].event < n
  BY DEF Publish, TypeOK, Job, Use, RefersToEvents, Events
<1>2. ASSUME NEW w \in Worker
      PROVE  /\ pending[w] \in Seq(Nat)
             /\ \A i \in 1..Len(pending[w]) : pending[w][i] < n
             /\ \A i \in 1..Len(pending'[w]) :
                   \/ i \in 1..Len(pending[w]) /\ pending'[w][i] = pending[w][i]
                   \/ i \notin 1..Len(pending[w]) /\ pending'[w][i] = n
             /\ \A i, j \in 1..Len(pending'[w]) : i < j => i \in 1..Len(pending[w])
  <2>1. pending[w] \in Seq(Nat) /\ \A i \in 1..Len(pending[w]) : pending[w][i] < n
    BY <1>1 DEF TypeOK, RefersToEvents, Events
  <2>2. pending'[w] = pending[w] \/ pending'[w] = Append(pending[w], n)
    BY DEF Publish, Receive
  <2> QED
    BY <1>1, <2>1, <2>2
<1> HIDE DEF n
<1>3. CallsInOrder'
  BY <1>1 DEF Ordered, CallsInOrder
<1>4. QueuesInOrder'
  <2> SUFFICES ASSUME NEW w \in Worker
      PROVE  /\ jobs[w].event <= n
             /\ \A i \in 1..Len(pending'[w]) : jobs[w].event < pending'[w][i]
             /\ \A i, j \in 1..Len(pending'[w]) : i < j => pending'[w][i] < pending'[w][j]
    BY <1>1 DEF QueuesInOrder
  <2>1. jobs[w].event < n
    BY <1>1 DEF Ordered, QueuesInOrder, n
  <2>2. /\ \A i \in 1..Len(pending[w]) : jobs[w].event < pending[w][i]
        /\ \A i, j \in 1..Len(pending[w]) : i < j => pending[w][i] < pending[w][j]
    BY DEF Ordered, QueuesInOrder
  <2>3. n \in Nat /\ jobs[w].event \in Nat
    BY <1>1 DEF n
  <2>4. ASSUME NEW i \in 1..Len(pending'[w]), NEW j \in 1..Len(pending'[w]), i < j
        PROVE  pending'[w][i] < pending'[w][j]
    BY <1>2, <2>2, <2>4
  <2> QED
    BY <1>2, <2>1, <2>2, <2>3, <2>4
<1>5. CallsBehind'
  <2> SUFFICES ASSUME NEW k \in 1..Len(calls), NEW w \in Worker, Serves(w, calls[k].id)
      PROVE  /\ \A i \in 1..Len(pending'[w]) : calls[k].event < pending'[w][i]
             /\ calls[k].id \in jobs[w].todo => calls[k].event < jobs[w].event
    BY <1>1 DEF CallsBehind, Serves
  <2>1. /\ \A i \in 1..Len(pending[w]) : calls[k].event < pending[w][i]
        /\ calls[k].id \in jobs[w].todo => calls[k].event < jobs[w].event
    BY DEF Ordered, CallsBehind
  <2> QED
    BY <1>1, <1>2, <2>1
<1> QED
  BY <1>3, <1>4, <1>5 DEF Ordered

LEMMA TakeKeepsOrder ==
    ASSUME TypeOK, RefersToEvents, Ordered, NEW w \in Worker, Take(w)
    PROVE  Ordered'
<1> DEFINE n == Head(pending[w])
<1>1. /\ pending[w] \in Seq(Nat) /\ pending[w] # <<>> /\ n = pending[w][1]
      /\ 1 \in 1..Len(pending[w])
      /\ pending' = [pending EXCEPT ![w] = Tail(pending[w])]
      /\ UNCHANGED <<events, calls>> /\ jobs[w] = Idle /\ Len(events) \in Nat
  BY DEF Take, TypeOK
<1>2. /\ \A i \in 1..Len(pending'[w]) :
            i + 1 \in 1..Len(pending[w]) /\ pending'[w][i] = pending[w][i + 1]
      /\ \A v \in Worker : v # w => pending'[v] = pending[v] /\ jobs'[v] = jobs[v]
  BY <1>1 DEF TypeOK, Take, Either
<1>3. \/ jobs'[w] = Idle
      \/ jobs'[w].event = n
  BY <1>1 DEF Take, Either, TypeOK
<1>4. n \in Nat /\ 0 < n /\ n <= Len(events)
  BY <1>1 DEF RefersToEvents, Events
<1>5. \A i \in 1..Len(pending'[w]) : n < pending'[w][i]
  <2> SUFFICES ASSUME NEW i \in 1..Len(pending'[w]) PROVE n < pending'[w][i]
    OBVIOUS
  <2>1. i + 1 \in 1..Len(pending[w]) /\ 1 < i + 1
    BY <1>2
  <2> QED
    BY <1>1, <1>2, <2>1 DEF Ordered, QueuesInOrder
<1> HIDE DEF n
<1>6. CallsInOrder'
  BY <1>1 DEF Ordered, CallsInOrder
<1>7. QueuesInOrder'
  <2> SUFFICES ASSUME NEW v \in Worker
      PROVE  /\ jobs'[v].event <= Len(events)
             /\ \A i \in 1..Len(pending'[v]) : jobs'[v].event < pending'[v][i]
             /\ \A i, j \in 1..Len(pending'[v]) : i < j => pending'[v][i] < pending'[v][j]
    BY <1>1 DEF QueuesInOrder
  <2>1. CASE v # w
    BY <1>2, <2>1 DEF Ordered, QueuesInOrder
  <2>2. CASE v = w
    <3>1. \A i \in 1..Len(pending[w]) : pending[w][i] \in Nat
      BY <1>1
    <3>4. \A i \in 1..Len(pending'[w]) : pending'[w][i] \in Nat
      BY <1>2, <3>1
    <3>2. ASSUME NEW i \in 1..Len(pending'[w]), NEW j \in 1..Len(pending'[w]), i < j
          PROVE  pending'[w][i] < pending'[w][j]
      <4>1. i + 1 \in 1..Len(pending[w]) /\ j + 1 \in 1..Len(pending[w]) /\ i + 1 < j + 1
        BY <1>2, <3>2
      <4> QED
        BY <1>2, <4>1 DEF Ordered, QueuesInOrder
    <3>3. jobs'[w].event \in {0, n}
      BY <1>3 DEF Idle
    <3> QED
      <4>1. jobs'[w].event <= Len(events)
        BY <1>1, <1>4, <3>3
      <4>2. \A i \in 1..Len(pending'[w]) : jobs'[w].event < pending'[w][i]
        BY <1>4, <1>5, <3>3, <3>4
      <4> QED
        BY <2>2, <3>2, <4>1, <4>2
  <2> QED
    BY <2>1, <2>2
<1>8. CallsBehind'
  <2> SUFFICES ASSUME NEW k \in 1..Len(calls), NEW v \in Worker, Serves(v, calls[k].id)
      PROVE  /\ \A i \in 1..Len(pending'[v]) : calls[k].event < pending'[v][i]
             /\ calls[k].id \in jobs'[v].todo => calls[k].event < jobs'[v].event
    BY <1>1 DEF CallsBehind, Serves
  <2>1. /\ \A i \in 1..Len(pending[v]) : calls[k].event < pending[v][i]
        /\ calls[k].id \in jobs[v].todo => calls[k].event < jobs[v].event
    BY DEF Ordered, CallsBehind
  <2>2. CASE v # w
    BY <1>2, <2>1, <2>2
  <2>3. CASE v = w
    <3>1. calls[k].event < n
      BY <1>1, <2>1, <2>3
    <3>2. jobs'[w] = Idle \/ jobs'[w].event = n
      BY <1>3
    <3> QED
      BY <1>2, <2>1, <2>3, <3>1, <3>2 DEF Idle
  <2> QED
    BY <2>2, <2>3
<1> QED
  BY <1>6, <1>7, <1>8 DEF Ordered

LEMMA CallKeepsOrder ==
    ASSUME TypeOK, RefersToEvents, JobsFit, Ordered, NEW w \in Worker, NEW id \in Id, Call(w, id)
    PROVE  Ordered'
<1> DEFINE x == [id |-> id, event |-> jobs[w].event]
<1>1. /\ UNCHANGED <<events, pending>> /\ id \in jobs[w].todo
      /\ calls \in Seq(Use) /\ jobs[w] \in Job /\ x \in Use
      /\ \A v \in Worker : v # w => jobs'[v] = jobs[v]
      /\ calls' = IF Callable(w, id) THEN Append(calls, x) ELSE calls
  BY DEF Call, TypeOK, Use, Job, busVars
<1>2. \/ jobs'[w] = Idle
      \/ jobs'[w].event = jobs[w].event /\ jobs'[w].todo = jobs[w].todo \ {id}
  BY DEF Call, Left, TypeOK
<1>3. \A v \in Worker : \A i \in 1..Len(pending[v]) : 0 < pending[v][i]
  BY DEF RefersToEvents, Events
<1>4. CASE ~Callable(w, id)
  <2>1. \A v \in Worker :
           \/ jobs'[v] = Idle
           \/ jobs'[v].event = jobs[v].event /\ jobs'[v].todo \subseteq jobs[v].todo
    BY <1>1, <1>2
  <2> QED
    BY <1>1, <1>3, <1>4, <2>1, QuietStep
<1>5. CASE Callable(w, id)
  <2>1. /\ calls' = Append(calls, x)
        /\ Len(calls) \in Nat /\ Len(calls') = Len(calls) + 1
        /\ \A k \in 1..Len(calls) : calls'[k] = calls[k]
        /\ calls'[Len(calls) + 1] = x
    BY <1>1, <1>5
  <2>2. x.id = id /\ x.event = jobs[w].event
    OBVIOUS
  <2>3. Serves(w, id)
    BY <1>1, <1>5, CallerServes DEF JobsFit, JobFits
  <2> HIDE DEF x
  <2>4. CallsInOrder'
    <3>1. ASSUME NEW k \in 1..Len(calls), calls[k].id = id PROVE calls[k].event < x.event
      BY <1>1, <2>2, <2>3, <3>1 DEF Ordered, CallsBehind
    <3>2. ASSUME NEW i \in 1..Len(calls'), NEW j \in 1..Len(calls'), i < j,
                 calls'[i].id = calls'[j].id
          PROVE  calls'[i].event < calls'[j].event
      <4>1. i \in 1..Len(calls) /\ (j \in 1..Len(calls) \/ j = Len(calls) + 1)
        BY <2>1, <3>2
      <4>2. CASE j \in 1..Len(calls)
        BY <2>1, <3>2, <4>1, <4>2 DEF Ordered, CallsInOrder
      <4>3. CASE j = Len(calls) + 1
        BY <2>1, <2>2, <3>1, <3>2, <4>1, <4>3
      <4> QED
        BY <4>1, <4>2, <4>3
    <3> QED
      BY <3>2 DEF CallsInOrder
  <2>5. QueuesInOrder'
    <3>1. \A v \in Worker : jobs'[v].event \in {0, jobs[v].event}
      BY <1>1, <1>2 DEF Idle
    <3>2. Len(events) \in Nat
      BY DEF TypeOK
    <3> QED
      BY <1>1, <1>3, <3>1, <3>2 DEF Ordered, QueuesInOrder
  <2>6. CallsBehind'
    <3> SUFFICES ASSUME NEW k \in 1..Len(calls'), NEW v \in Worker, Serves(v, calls'[k].id)
        PROVE  /\ \A i \in 1..Len(pending[v]) : calls'[k].event < pending[v][i]
               /\ calls'[k].id \in jobs'[v].todo => calls'[k].event < jobs'[v].event
      BY <1>1 DEF CallsBehind, Serves
    <3>1. CASE k \in 1..Len(calls)
      <4>1. /\ calls'[k] = calls[k]
            /\ \A i \in 1..Len(pending[v]) : calls[k].event < pending[v][i]
            /\ calls[k].id \in jobs[v].todo => calls[k].event < jobs[v].event
        BY <2>1, <3>1 DEF Ordered, CallsBehind
      <4>2. \/ jobs'[v] = Idle
            \/ jobs'[v].event = jobs[v].event /\ jobs'[v].todo \subseteq jobs[v].todo
        BY <1>1, <1>2
      <4> QED
        BY <4>1, <4>2 DEF Idle
    <3>2. CASE k = Len(calls) + 1
      <4>1. v = w
        BY <2>1, <2>2, <2>3, <3>2, OneServes
      <4>2. id \notin jobs'[w].todo
        BY <1>2 DEF Idle
      <4> QED
        BY <2>1, <2>2, <3>2, <4>1, <4>2 DEF Ordered, QueuesInOrder
    <3> QED
      BY <2>1, <3>1, <3>2
  <2> QED
    BY <2>4, <2>5, <2>6 DEF Ordered
<1> QED
  BY <1>4, <1>5

LEMMA OrderPreserved ==
    ASSUME TypeOK, RefersToEvents, JobsFit, Ordered, [Next]_vars PROVE Ordered'
<1>0. \A w \in Worker : \A i \in 1..Len(pending[w]) : 0 < pending[w][i]
  BY DEF RefersToEvents, Events
<1>1. CASE UNCHANGED <<events, calls, pending, jobs>>
  BY <1>0, <1>1, QuietStep
<1>2. ASSUME NEW e \in Event, Publish(e) PROVE Ordered'
  BY <1>2, PublishKeepsOrder
<1>3. ASSUME NEW w \in Worker, GiveUp(w) \/ Crash(w) PROVE Ordered'
  <2>1. /\ UNCHANGED <<events, calls>>
        /\ \A v \in Worker : pending'[v] = pending[v] \/ pending'[v] = <<>>
        /\ \A v \in Worker : jobs'[v] = Idle \/ jobs'[v] = jobs[v]
    BY <1>3 DEF GiveUp, Crash, TypeOK
  <2> QED
    BY <1>0, <2>1, QuietStep
<1>4. ASSUME NEW w \in Worker, Take(w) PROVE Ordered'
  BY <1>4, TakeKeepsOrder
<1>5. ASSUME NEW w \in Worker, NEW id \in Id, Call(w, id) PROVE Ordered'
  BY <1>5, CallKeepsOrder
<1>6. ASSUME NEW w \in Worker, NEW id \in Id, InsertExecution(w, id) PROVE Ordered'
  <2>1. UNCHANGED <<events, calls, pending>>
    BY <1>6 DEF InsertExecution, busVars
  <2>2. \A v \in Worker :
           \/ jobs'[v] = Idle
           \/ jobs'[v].event = jobs[v].event /\ jobs'[v].todo \subseteq jobs[v].todo
    BY <1>6 DEF InsertExecution, Left, TypeOK
  <2> QED
    BY <1>0, <2>1, <2>2, QuietStep
<1>7. CASE AdminStep
  BY <1>1, <1>7, AdminRemembers
<1> QED
  BY <1>1, <1>2, <1>3, <1>4, <1>5, <1>6, <1>7 DEF Next, ConsumerNext, HandlerStep, Start,
     Reconnect, Disconnect, vars, busVars

-----------------------------------------------------------------------------
(* The results *)

Inv ==
    /\ TypeOK /\ RefersToEvents /\ JobsFit /\ SecretsHeld
    /\ TenantsKeptApart /\ LogOfRealRuns /\ Ordered

LEMMA InitInv == Init => Inv
<1> SUFFICES ASSUME Init PROVE Inv
  OBVIOUS
<1>1. TypeOK
  BY InitTypeOK
<1> QED
  BY <1>1 DEF Init, Inv, RefersToEvents, JobsFit, JobFits, Idle, SecretsHeld,
     TenantsKeptApart, LogOfRealRuns, Events, Ordered, CallsInOrder, QueuesInOrder, CallsBehind

LEMMA NextInv == ASSUME Inv, [Next]_vars PROVE Inv'
BY NextTypeOK, EventsPreserved, JobsPreserved, SecretsPreserved, CallsPreserved, LogPreserved,
   OrderPreserved
   DEF Inv

LEMMA Invariant == Spec => []Inv
BY InitInv, NextInv, PTL DEF Spec

\* Whatever administrators change while the services serve, a call carries an
\* event of a tenant to a rule or connector of that tenant, and the log of
\* executions speaks of existing rules and of actions that ran.
THEOREM CallsAndLogCorrect == Spec => []CallsAndLogAgree
<1>1. Inv => CallsAndLogAgree
  BY DEF Inv, CallsAndLogAgree
<1> QED
  BY <1>1, Invariant, PTL

\* However many sessions show, toggle and rekey the connectors, the password of
\* an MQTT connector never becomes the mask, and changes only with a request that
\* brings a new one or between two requests that met.
THEOREM PasswordSurvives == Spec => PasswordKept
<1>1. Inv /\ [Next]_vars => [\A id \in Id : Kept(id)]_vars
  BY PasswordStep DEF Inv
<1> QED
  BY <1>1, Invariant, PTL DEF Spec, PasswordKept, Kept

\* A row that is off receives no event published since, although the handlers
\* work on lists that they read before.
THEOREM OffIsOff == Spec => NoCallAfterOff
<1> DEFINE c == calls'[Len(calls')]
<1>1. ASSUME Inv, [Next]_vars, calls' # calls PROVE Active(c.id) \/ c.event <= offSince[c.id]
  <2>1. PICK w \in Worker, id \in Id :
           /\ c = [id |-> id, event |-> jobs[w].event]
           /\ id \in jobs[w].todo /\ JobFits(w)
    BY <1>1, NewCall DEF Inv
  <2>2. c.id = id /\ c.event = jobs[w].event
    BY <2>1
  <2>3. Active(id) \/ jobs[w].event <= offSince[id]
    BY <2>1 DEF JobFits
  <2> QED
    BY <2>2, <2>3
<1>2. Inv /\ [Next]_vars =>
         [calls' # calls => LET x == calls'[Len(calls')]
                            IN Active(x.id) \/ x.event <= offSince[x.id]]_vars
  BY <1>1
<1> QED
  BY <1>2, Invariant, PTL DEF Spec, NoCallAfterOff
=============================================================================
