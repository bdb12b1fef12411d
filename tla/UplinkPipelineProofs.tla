------------------------ MODULE UplinkPipelineProofs ------------------------
(***************************************************************************)
(* From the device to the tenant's applications, and what the other        *)
(* components keep, for every set of devices, tenants, rows, users and     *)
(* networks, and any number of messages, requests, faults and restarts.    *)
(*                                                                         *)
(* mqtt-ingestion.  What is in hand is newer than all that is stored or    *)
(* published, and what waits is newer still (Frontier); the handler has    *)
(* stored what it is about to publish (Progress).                          *)
(*                                                                         *)
(* The consumers.  Their events are stored frames, in order (Fed), so that *)
(* each step of the pipeline is one that UplinkConsumers allows, and what  *)
(* UplinkConsumersProofs proves holds here (Served!Inv).                   *)
(*                                                                         *)
(* The members: what a request's account looks like at each step, and that *)
(* a row was inserted by a request that is over.                           *)
(*                                                                         *)
(* The endpoints: what a message in hand is due to is the row it was found *)
(* by, for as long as that row is there (InHand).                          *)
(*                                                                         *)
(* The applications: while nothing is in doubt, the network a request      *)
(* works on is the one of the tenant it acts for, or gone with its         *)
(* applications (Fits), and whatever has no row of a tenant that is there  *)
(* is in some request's list (Pending).                                    *)
(*                                                                         *)
(* The anomalies: while nothing happens, what a run has behind it is told  *)
(* (SoFar).                                                                *)
(***************************************************************************)
EXTENDS UplinkPipelineMC, SequenceTheorems, TLAPS

Served == INSTANCE UplinkConsumersProofs WITH
    events <- Events, faults <- serviceFaults,
    MaxFaults <- MaxServiceFaults, MaxEvents <- MaxMessages

Busy == handler.pc # "idle"

\* Every number stands for a message that ChirpStack did publish.
Known ==
    /\ Busy => handler.msg \in 1..Len(air)
    /\ \A i \in 1..Len(inbox) : inbox[i] \in 1..Len(air)
    /\ \A f \in frames : f.msg \in 1..Len(air)
    /\ \A k \in 1..Len(bus) : bus[k].msg \in 1..Len(air)

\* The message in hand is newer than everything stored or published, and what
\* waits is newer still, in order.
Frontier ==
    /\ \A i, j \in 1..Len(inbox) : i < j => inbox[i] < inbox[j]
    /\ Busy => \A i \in 1..Len(inbox) : handler.msg < inbox[i]
    /\ \A f \in frames : \A i \in 1..Len(inbox) : f.msg < inbox[i]
    /\ Busy => \A f \in frames : f.msg <= handler.msg
    /\ handler.pc = "insert" => \A f \in frames : f.msg # handler.msg
    /\ \A k \in 1..Len(bus) : \A i \in 1..Len(inbox) : bus[k].msg < inbox[i]
    /\ Busy => \A k \in 1..Len(bus) : bus[k].msg < handler.msg

\* What the handler has done when it reaches each of its steps.
Progress ==
    /\ handler.pc \in {"insert", "object", "archive"} => air[handler.msg].kind = "up"
    /\ handler.pc \in {"object", "archive"} => Current \in frames
    /\ handler.pc = "publish" /\ air[handler.msg].kind = "up" => Current \in frames
    /\ handler.pc = "archive" => Current \in objects

IInv == TypeOK /\ Known /\ Frontier /\ Progress /\ EventBacked /\ OneRow /\ InOrder

LEMMA ResolveLemma ==
    ASSUME NEW m \in Message, NEW failed
    PROVE  Resolve(m, failed) \in MaybeTenant
  BY RegisteredAssumption DEF Resolve, Message, MaybeTenant, Lookup

LEMMA InitInv == Init => IInv
  <1> SUFFICES ASSUME Init
               PROVE  IInv
    OBVIOUS
  <1>1. TypeOK
    <2>1. air = <<>> /\ air \in Seq(Message) /\ Len(air) <= MaxMessages
      BY BoundAssumption DEF Init
    <2>3. publisher \in BOOLEAN /\ archiver \in BOOLEAN /\ subscribed \subseteq Kind
      BY Zenon DEF Init
    <2>2. handler \in [pc : {"idle"}, msg : Nat, tenant : MaybeTenant]
      BY DEF Init, Idle, MaybeTenant
    <2> QED
      BY <2>1, <2>2, <2>3 DEF Init, TypeOK
  <1>2. Known /\ Frontier /\ Progress
    BY DEF Init, Known, Frontier, Progress, Busy, Idle
  <1>3. EventBacked /\ OneRow /\ InOrder
    BY DEF Init, EventBacked, OneRow, InOrder
  <1> QED
    BY <1>1, <1>2, <1>3 DEF IInv

\* A step that leaves the messages, the handler, its input and its output alone.
LEMMA LifecycleStep ==
    ASSUME IInv, Lifecycle
    PROVE  IInv'
  <1>1. UNCHANGED <<air, inbox, handler, frames, objects, archives, stats, bus>>
    BY DEF Lifecycle, Start, Connected, ConnectTimeout, PahoReconnects, storeVars
  <1>2. /\ process' \in {"down", "starting", "running"}
        /\ session' \in {"none", "connecting", "connected"}
        /\ faults' \in Nat
    BY DEF IInv, TypeOK, Lifecycle, Start, Connected, ConnectTimeout, PahoReconnects,
           Either, Fault, linkVars, procVars
  <1>3. publisher' \in BOOLEAN /\ archiver' \in BOOLEAN /\ subscribed' \subseteq Kind
    <2>1. publisher \in BOOLEAN /\ archiver \in BOOLEAN /\ subscribed \subseteq Kind
      BY DEF IInv, TypeOK
    <2>2. CASE Start
      <3>1. subscribed' = subscribed
        BY <2>2 DEF Start
      <3>2. publisher' \in BOOLEAN /\ archiver' \in BOOLEAN
        BY <2>2, Zenon DEF Start, Either
      <3> QED
        BY <2>1, <3>1, <3>2, Zenon
    <2>3. CASE Connected
      <3>1. publisher' = publisher /\ archiver' = archiver
        BY <2>3 DEF Connected
      <3>2. subscribed' \subseteq Kind
        BY <2>3, Zenon DEF Connected, Either
      <3> QED
        BY <2>1, <3>1, <3>2, Zenon
    <2>4. CASE ConnectTimeout \/ PahoReconnects
      <3>1. publisher' = publisher /\ archiver' = archiver /\ subscribed' = subscribed
        BY <2>4 DEF ConnectTimeout, PahoReconnects, procVars, linkVars
      <3> QED
        BY <2>1, <3>1, Zenon
    <2> QED
      BY <2>2, <2>3, <2>4 DEF Lifecycle
  <1> QED
    BY <1>1, <1>2, <1>3 DEF IInv, TypeOK, Known, Frontier, Progress, EventBacked, OneRow,
                            InOrder, Busy, Current, Entry

LEMMA EmitStep ==
    ASSUME IInv, NEW m \in Message, Emit(m)
    PROVE  IInv'
  <1>1. UNCHANGED <<process, publisher, archiver, session, subscribed, handler,
                    frames, objects, archives, stats, bus, faults>>
    BY DEF Emit, procVars, linkVars, storeVars
  <1> DEFINE n == Len(air) + 1
  <1>2. /\ air' \in Seq(Message) /\ Len(air') = n /\ n <= MaxMessages
        /\ \A i \in 1..Len(air) : air'[i] = air[i]
    BY BoundAssumption DEF Emit, IInv, TypeOK
  <1>3. /\ inbox' \in Seq(Nat) /\ n \in Nat
        /\ \A i \in 1..Len(inbox') : inbox'[i] = n \/ (i \in 1..Len(inbox) /\ inbox'[i] = inbox[i])
        /\ \A i, j \in 1..Len(inbox') : i < j => i \in 1..Len(inbox) /\ inbox'[i] = inbox[i]
    BY DEF Emit, IInv, TypeOK
  <1>4. TypeOK'
    BY <1>1, <1>2, <1>3 DEF IInv, TypeOK, Entry
  <1>5. Known'
    <2>1. Len(air) \in Nat /\ \A i : i \in 1..Len(air) => i \in 1..n
      BY DEF IInv, TypeOK
    <2>3. n \in 1..n /\ \A i \in 1..Len(inbox) : inbox[i] \in 1..Len(air)
      BY <2>1 DEF IInv, Known
    <2> HIDE DEF n
    <2>2. \A i \in 1..Len(inbox') : inbox'[i] \in 1..n
      BY <1>3, <2>1, <2>3
    <2> QED
      BY <1>1, <1>2, <2>1, <2>2 DEF IInv, Known, Busy
  <1>6. Frontier'
    <2>1. \A i \in 1..Len(inbox) : inbox[i] < n
      BY DEF IInv, TypeOK, Known
    <2>2. /\ \A f \in frames : f.msg < n
          /\ \A k \in 1..Len(bus) : bus[k].msg < n
          /\ Busy => handler.msg < n
      BY DEF IInv, TypeOK, Known
    <2> HIDE DEF n
    <2> QED
      BY <1>1, <1>3, <2>1, <2>2 DEF IInv, Frontier, Busy
  <1>7. Progress'
    BY <1>1, <1>2 DEF IInv, Known, Progress, Busy, Current
  <1>8. EventBacked' /\ OneRow' /\ InOrder'
    BY <1>1, <1>2 DEF IInv, Known, EventBacked, OneRow, InOrder
  <1> QED
    BY <1>4, <1>5, <1>6, <1>7, <1>8 DEF IInv

\* The connection or the process goes: some of the input is lost, and the
\* handler goes on or is cut.
LEMMA LossStep ==
    ASSUME IInv, ConnectionLost \/ Crash
    PROVE  IInv'
  <1>1. UNCHANGED <<air, frames, objects, archives, stats, bus>>
    BY DEF ConnectionLost, Crash, storeVars
  <1>2. /\ inbox' \in Seq(Nat) /\ Len(inbox') <= Len(inbox)
        /\ \A i \in 1..Len(inbox') : i \in 1..Len(inbox) /\ inbox'[i] = inbox[i]
    <2>1. CASE ConnectionLost
      <3>1. PICK k \in 0..Len(inbox) : inbox' = SubSeq(inbox, 1, k)
        BY <2>1 DEF ConnectionLost
      <3>2. inbox \in Seq(Nat) /\ k \in 0..Len(inbox)
        BY DEF IInv, TypeOK
      <3>3. inbox' \in Seq(Nat) /\ Len(inbox') = k /\ \A i \in 1..k : inbox'[i] = inbox[i]
        BY <3>1, <3>2
      <3> QED
        BY <3>2, <3>3
    <2>2. CASE Crash
      BY <2>2 DEF Crash, IInv, TypeOK
    <2> QED
      BY <2>1, <2>2
  <1>3. handler' = handler \/ handler' = Idle
    BY DEF ConnectionLost, Crash
  <1>4. TypeOK'
    <2>1. handler' \in [pc : {"idle", "insert", "object", "archive", "publish", "stats"},
                        msg : Nat, tenant : MaybeTenant]
      BY <1>3 DEF IInv, TypeOK, Idle, MaybeTenant
    <2>2. /\ process' \in {"down", "starting", "running"}
          /\ session' \in {"none", "connecting", "connected"}
          /\ faults' \in Nat
      BY DEF ConnectionLost, Crash, IInv, TypeOK, Fault, procVars
    <2>3. /\ subscribed' = {}
          /\ publisher' \in {publisher, FALSE} /\ archiver' \in {archiver, FALSE}
      BY DEF ConnectionLost, Crash, procVars
    <2>4. publisher \in BOOLEAN /\ archiver \in BOOLEAN
      BY DEF IInv, TypeOK
    <2>5. publisher' \in BOOLEAN /\ archiver' \in BOOLEAN /\ subscribed' \subseteq Kind
      BY <2>3, <2>4, Zenon
    <2> QED
      BY <1>1, <1>2, <2>1, <2>2, <2>5 DEF IInv, TypeOK, Entry
  <1>5. Known' /\ Frontier' /\ Progress'
    <2>1. Known'
      BY <1>1, <1>2, <1>3 DEF IInv, Known, Busy, Idle
    <2>2. Frontier'
      <3>1. \A i, j \in 1..Len(inbox') : i < j => inbox'[i] < inbox'[j]
        BY <1>2 DEF IInv, Frontier
      <3> QED
        BY <1>1, <1>2, <1>3, <3>1 DEF IInv, Frontier, Busy, Idle
    <2>3. Progress'
      BY <1>1, <1>3 DEF IInv, Progress, Idle, Current
    <2> QED
      BY <2>1, <2>2, <2>3
  <1>6. EventBacked' /\ OneRow' /\ InOrder'
    BY <1>1 DEF IInv, EventBacked, OneRow, InOrder
  <1> QED
    BY <1>4, <1>5, <1>6 DEF IInv

LEMMA HandleStep ==
    ASSUME IInv, Handle
    PROVE  IInv'
  <1>1. UNCHANGED <<air, process, publisher, archiver, session, subscribed,
                    frames, objects, archives, stats, bus>>
    BY DEF Handle, procVars, linkVars, storeVars
  <1>2. PICK failed : Resolved(Head(inbox), failed)
    BY DEF Handle, Either
  <1> DEFINE n == Head(inbox)
  <1>3. /\ inbox \in Seq(Nat) /\ inbox # <<>> /\ n = inbox[1] /\ 1 \in 1..Len(inbox)
        /\ inbox' = Tail(inbox)
    BY DEF Handle, IInv, TypeOK
  <1>4. /\ inbox' \in Seq(Nat)
        /\ \A i \in 1..Len(inbox') : i + 1 \in 1..Len(inbox) /\ inbox'[i] = inbox[i + 1]
    BY <1>3
  <1>5. n \in 1..Len(air) /\ air[n] \in Message
    BY <1>3 DEF IInv, TypeOK, Known
  <1>6. /\ handler'.msg = n
        /\ handler'.tenant \in MaybeTenant
        /\ handler'.pc = FirstStep(air[n].kind)
        /\ handler' = [pc |-> handler'.pc, msg |-> handler'.msg, tenant |-> handler'.tenant]
    BY <1>2, <1>5, ResolveLemma DEF Resolved
  <1>7. /\ handler'.pc \in {"insert", "publish", "stats"}
        /\ air[n].kind = "up" <=> handler'.pc = "insert"
    BY <1>5, <1>6 DEF FirstStep, Message, Kind
  <1>8. faults' \in Nat
    BY DEF Handle, Either, Fault, IInv, TypeOK
  <1>9. TypeOK'
    BY <1>1, <1>4, <1>5, <1>6, <1>7, <1>8 DEF IInv, TypeOK, Entry
  <1>10. Known'
    BY <1>1, <1>4, <1>5, <1>6 DEF IInv, Known
  <1>11. Frontier'
    <2>1. \A i \in 1..Len(inbox') : n < inbox'[i]
      BY <1>3, <1>4 DEF IInv, TypeOK, Frontier
    <2>2. \A i, j \in 1..Len(inbox') : i < j => inbox'[i] < inbox'[j]
      <3> SUFFICES ASSUME NEW i \in 1..Len(inbox'), NEW j \in 1..Len(inbox'), i < j
                   PROVE  inbox[i + 1] < inbox[j + 1]
        BY <1>4
      <3>1. i + 1 \in 1..Len(inbox) /\ j + 1 \in 1..Len(inbox) /\ i + 1 < j + 1
        BY <1>4
      <3> QED
        BY <3>1 DEF IInv, Frontier
    <2>3. /\ \A f \in frames : f.msg < n /\ \A i \in 1..Len(inbox') : f.msg < inbox'[i]
          /\ \A k \in 1..Len(bus) : bus[k].msg < n
                                    /\ \A i \in 1..Len(inbox') : bus[k].msg < inbox'[i]
      BY <1>3, <1>4 DEF IInv, TypeOK, Frontier
    <2>4. \A f \in frames : f.msg \in Nat
      BY DEF IInv, TypeOK, Entry
    <2> HIDE DEF n
    <2> QED
      BY <1>1, <1>3, <1>6, <2>1, <2>2, <2>3, <2>4 DEF Frontier, IInv, TypeOK
  <1>12. Progress'
    BY <1>1, <1>6, <1>7 DEF Progress
  <1>13. EventBacked' /\ OneRow' /\ InOrder'
    BY <1>1 DEF IInv, EventBacked, OneRow, InOrder
  <1> QED
    BY <1>9, <1>10, <1>11, <1>12, <1>13 DEF IInv

\* What every later step of the handler leaves alone.
HandlerFrame ==
    UNCHANGED <<air, process, publisher, archiver, session, subscribed, inbox>>

LEMMA CurrentEntry ==
    ASSUME IInv
    PROVE  Current \in Entry /\ Current.msg = handler.msg /\ Current.tenant = handler.tenant
  BY DEF IInv, TypeOK, Current, Entry

\* The handler either moves to pc with the same message or returns.
LEMMA HandlerMoves ==
    ASSUME IInv, NEW pc \in {"object", "archive", "publish"},
           Goto(pc) \/ handler' = Idle
    PROVE  /\ handler' \in [pc : {"idle", "insert", "object", "archive", "publish", "stats"},
                            msg : Nat, tenant : MaybeTenant]
           /\ \/ handler'.pc = "idle"
              \/ /\ handler'.pc = pc
                 /\ handler'.msg = handler.msg
                 /\ Current' = Current
  BY DEF IInv, TypeOK, Goto, Idle, MaybeTenant, Current

LEMMA InsertStep ==
    ASSUME IInv, InsertUplink
    PROVE  IInv'
  <1>1. /\ HandlerFrame /\ UNCHANGED <<objects, archives, stats, bus>>
        /\ frames' \in {frames, frames \cup {Current}}
        /\ \/ frames' = frames \cup {Current} /\ Goto(AfterInsert)
           \/ handler' = Idle
        /\ handler.pc = "insert"
    BY DEF InsertUplink, HandlerFrame, Either, procVars, linkVars, At
  <1>2. faults' \in Nat
    BY DEF InsertUplink, Either, Fault, IInv, TypeOK
  <1>3. AfterInsert \in {"object", "archive", "publish"}
    BY DEF AfterInsert
  <1>4. /\ handler' \in [pc : {"idle", "insert", "object", "archive", "publish", "stats"},
                          msg : Nat, tenant : MaybeTenant]
        /\ \/ handler'.pc = "idle"
           \/ /\ handler'.pc \in {"object", "publish"}
              /\ handler'.msg = handler.msg
              /\ Current' = Current /\ Current \in frames'
    BY <1>1, <1>3, HandlerMoves DEF AfterInsert, Idle
  <1>5. /\ \A f \in frames : f.msg < handler.msg
        /\ \A f \in frames' : f \in frames \/ f = Current
        /\ handler.msg \in 1..Len(air) /\ handler.msg \in Nat
    BY <1>1 DEF IInv, TypeOK, Entry, Frontier, Known, Busy
  <1>6. TypeOK'
    BY <1>1, <1>2, <1>4, CurrentEntry DEF HandlerFrame, IInv, TypeOK, Entry
  <1>7. Known'
    BY <1>1, <1>4, <1>5, CurrentEntry DEF HandlerFrame, IInv, Known, Busy
  <1>8. Frontier'
    <2>1. \A f \in frames' : f.msg <= handler.msg
      BY <1>5, CurrentEntry DEF IInv, TypeOK, Entry
    <2>2. \A f \in frames' : \A i \in 1..Len(inbox) : f.msg < inbox[i]
      BY <1>1, <1>5, CurrentEntry DEF IInv, Frontier, Busy
    <2> QED
      BY <1>1, <1>4, <2>1, <2>2 DEF HandlerFrame, IInv, Frontier, Busy
  <1>9. Progress'
    <2>1. air[handler.msg].kind = "up"
      BY <1>1 DEF IInv, Progress
    <2>2. CASE handler'.pc = "idle"
      BY <2>2 DEF Progress
    <2>3. CASE handler'.pc # "idle"
      <3>1. Current' \in frames' /\ air'[handler'.msg].kind = "up" /\ handler'.pc # "archive"
        BY <1>1, <1>4, <2>1, <2>3 DEF HandlerFrame
      <3> QED
        BY <3>1 DEF Progress
    <2> QED
      BY <2>2, <2>3
  <1>10. EventBacked' /\ OneRow' /\ InOrder'
    BY <1>1, <1>5, CurrentEntry DEF HandlerFrame, IInv, EventBacked, OneRow, InOrder
  <1> QED
    BY <1>6, <1>7, <1>8, <1>9, <1>10 DEF IInv

LEMMA ArchiveStep ==
    ASSUME IInv, StoreObject \/ InsertArchive
    PROVE  IInv'
  <1>1. /\ HandlerFrame /\ UNCHANGED <<frames, stats, bus>>
        /\ handler.pc \in {"object", "archive"}
    BY DEF StoreObject, InsertArchive, HandlerFrame, procVars, linkVars, At
  <1>2. Current \in frames /\ Current \in Entry /\ air[handler.msg].kind = "up"
    BY <1>1, CurrentEntry DEF IInv, Progress
  <1>3. CASE StoreObject
    <2>1. /\ objects' \in {objects, objects \cup {Current}} /\ archives' = archives
          /\ \/ Goto("archive") /\ Current \in objects'
             \/ Goto("publish")
      BY <1>3 DEF StoreObject, Either
    <2>2. faults' \in Nat
      BY <1>3 DEF StoreObject, Either, Fault, IInv, TypeOK
    <2>3. /\ handler' \in [pc : {"idle", "insert", "object", "archive", "publish", "stats"},
                            msg : Nat, tenant : MaybeTenant]
          /\ handler'.pc \in {"idle", "archive", "publish"}
          /\ handler'.pc # "idle" => handler'.msg = handler.msg /\ Current' = Current
          /\ handler'.pc = "archive" => Current \in objects'
      BY <2>1, HandlerMoves DEF Goto, IInv, TypeOK
    <2>4. TypeOK'
      BY <1>1, <1>2, <2>1, <2>2, <2>3 DEF HandlerFrame, IInv, TypeOK, Entry
    <2>5. Known' /\ Frontier'
      BY <1>1, <2>3 DEF HandlerFrame, IInv, Known, Frontier, Busy
    <2>6. Progress'
      <3>1. CASE handler'.pc = "idle"
        BY <3>1 DEF Progress
      <3>2. CASE handler'.pc # "idle"
        <4>1. /\ Current' \in frames' /\ air'[handler'.msg].kind = "up"
              /\ handler'.pc = "archive" => Current' \in objects'
          BY <1>1, <1>2, <2>3, <3>2 DEF HandlerFrame
        <4> QED
          BY <4>1 DEF Progress
      <3> QED
        BY <3>1, <3>2
    <2>7. EventBacked' /\ OneRow' /\ InOrder'
      BY <1>1, <1>2, <2>1 DEF HandlerFrame, IInv, EventBacked, OneRow, InOrder
    <2> QED
      BY <2>4, <2>5, <2>6, <2>7 DEF IInv
  <1>4. CASE InsertArchive
    <2>1. /\ archives' \in {archives, archives \cup {Current}} /\ objects' = objects
          /\ Goto("publish") /\ handler.pc = "archive" /\ Current \in objects
      BY <1>4 DEF InsertArchive, Either, At, IInv, Progress
    <2>2. faults' \in Nat
      BY <1>4 DEF InsertArchive, Either, Fault, IInv, TypeOK
    <2>3. /\ handler' \in [pc : {"idle", "insert", "object", "archive", "publish", "stats"},
                            msg : Nat, tenant : MaybeTenant]
          /\ handler'.pc \in {"idle", "publish"}
          /\ handler'.pc # "idle" => handler'.msg = handler.msg /\ Current' = Current
      BY <2>1, HandlerMoves
    <2>4. TypeOK'
      BY <1>1, <1>2, <2>1, <2>2, <2>3 DEF HandlerFrame, IInv, TypeOK, Entry
    <2>5. Known' /\ Frontier'
      BY <1>1, <2>3 DEF HandlerFrame, IInv, Known, Frontier, Busy
    <2>6. Progress'
      BY <1>1, <1>2, <2>3 DEF HandlerFrame, Progress
    <2>7. EventBacked' /\ OneRow' /\ InOrder'
      BY <1>1, <1>2, <2>1 DEF HandlerFrame, IInv, EventBacked, OneRow, InOrder
    <2> QED
      BY <2>4, <2>5, <2>6, <2>7 DEF IInv
  <1> QED
    BY <1>3, <1>4

LEMMA ReturnStep ==
    ASSUME IInv, Publish \/ InsertStats
    PROVE  IInv'
  <1>1. /\ HandlerFrame /\ UNCHANGED <<frames, objects, archives>>
        /\ handler' = Idle /\ handler.pc \in {"publish", "stats"}
        /\ (bus' = bus) \/ (handler.pc = "publish" /\ bus' = Append(bus, Current))
        /\ stats' \in {stats, stats \cup {Current}}
    <2>1. CASE Publish
      <3>1. HandlerFrame
        BY <2>1, Zenon DEF Publish, procVars, linkVars, storeVars, HandlerFrame
      <3>2. frames' = frames /\ objects' = objects /\ archives' = archives /\ stats' = stats
        BY <2>1 DEF Publish, procVars, linkVars, storeVars
      <3>3. handler' = Idle /\ handler.pc = "publish"
        BY <2>1 DEF Publish, At
      <3>4. bus' = bus \/ bus' = Append(bus, Current)
        BY <2>1, Zenon DEF Publish, Either
      <3> QED
        BY <3>1, <3>2, <3>3, <3>4
    <2>2. CASE InsertStats
      <3>1. HandlerFrame
        BY <2>2, Zenon DEF InsertStats, procVars, linkVars, HandlerFrame
      <3>2. frames' = frames /\ objects' = objects /\ archives' = archives /\ bus' = bus
        BY <2>2 DEF InsertStats, procVars, linkVars
      <3>3. handler' = Idle /\ handler.pc = "stats" /\ stats' \in {stats, stats \cup {Current}}
        BY <2>2 DEF InsertStats, At, Either
      <3> QED
        BY <3>1, <3>2, <3>3
    <2> QED
      BY <2>1, <2>2
  <1>2. faults' \in Nat
    BY DEF Publish, InsertStats, Either, Fault, IInv, TypeOK
  <1>3. handler' \in [pc : {"idle", "insert", "object", "archive", "publish", "stats"},
                      msg : Nat, tenant : MaybeTenant]
    BY <1>1 DEF Idle, MaybeTenant
  <1>4. /\ bus' \in Seq(Entry) /\ Len(bus') >= Len(bus)
        /\ \A k \in 1..Len(bus') :
              \/ k \in 1..Len(bus) /\ bus'[k] = bus[k]
              \/ k = Len(bus) + 1 /\ bus'[k] = Current /\ handler.pc = "publish"
    <2>1. bus \in Seq(Entry) /\ Current \in Entry
      BY CurrentEntry DEF IInv, TypeOK
    <2>2. CASE bus' = bus
      BY <2>1, <2>2
    <2>3. CASE handler.pc = "publish" /\ bus' = Append(bus, Current)
      BY <2>1, <2>3
    <2> QED
      BY <1>1, <2>2, <2>3
  <1>5. TypeOK'
    BY <1>1, <1>2, <1>3, <1>4, CurrentEntry DEF HandlerFrame, IInv, TypeOK, Entry
  <1>6. Known'
    BY <1>1, <1>4, CurrentEntry DEF HandlerFrame, IInv, Known, Busy, Idle
  <1>7. Frontier'
    BY <1>1, <1>4, CurrentEntry DEF HandlerFrame, IInv, Frontier, Busy, Idle
  <1>8. Progress'
    BY <1>1 DEF Progress, Idle
  <1>9. EventBacked'
    BY <1>1, <1>4, CurrentEntry DEF HandlerFrame, IInv, EventBacked, Progress
  <1>10. InOrder'
    <2>1. \A k \in 1..Len(bus) : bus[k].msg < handler.msg
      BY <1>1 DEF IInv, Frontier, Busy
    <2>2. ASSUME NEW i \in 1..Len(bus'), NEW j \in 1..Len(bus'), i < j
          PROVE  bus'[i].msg < bus'[j].msg
      <3>1. i \in 1..Len(bus) /\ bus'[i] = bus[i]
        BY <1>1, <1>4, <2>2 DEF IInv, TypeOK
      <3>2. CASE j \in 1..Len(bus) /\ bus'[j] = bus[j]
        BY <2>2, <3>1, <3>2 DEF IInv, InOrder
      <3>3. CASE bus'[j] = Current
        BY <2>1, <3>1, <3>3, CurrentEntry
      <3> QED
        BY <1>4, <3>2, <3>3
    <2> QED
      BY <2>2 DEF InOrder
  <1>11. OneRow'
    BY <1>1 DEF IInv, OneRow
  <1> QED
    BY <1>5, <1>6, <1>7, <1>8, <1>9, <1>10, <1>11 DEF IInv

LEMMA NextInv == IInv /\ [Next]_vars => IInv'
  <1> SUFFICES ASSUME IInv, [Next]_vars
               PROVE  IInv'
    OBVIOUS
  <1>1. CASE UNCHANGED vars
    BY <1>1 DEF vars, IInv, TypeOK, Known, Frontier, Progress, EventBacked, OneRow, InOrder,
                Busy, Current, Entry
  <1> QED
    BY <1>1, LifecycleStep, EmitStep, LossStep, HandleStep, InsertStep, ArchiveStep, ReturnStep
       DEF Next, HandlerStep

-----------------------------------------------------------------------------
(* The consumers of UplinkPipeline are those whose invariant is proved *)

\* Init and each step are the same in both.
LEMMA SameInit == Consumers!Init => Served!Init
BY DEF Consumers!Init, Served!Init, Consumers!Idle, Served!Idle, Consumers!Closed, Served!Closed

LEMMA SameAdmin == Consumers!AdminStep => Served!AdminStep
BY DEF Consumers!AdminStep, Served!AdminStep,
   Consumers!CreateRow, Served!CreateRow, Consumers!DeleteRow, Served!DeleteRow,
   Consumers!ShowConnector, Served!ShowConnector, Consumers!ReadForUpdate, Served!ReadForUpdate,
   Consumers!UpdateConnector, Served!UpdateConnector, Consumers!Active, Served!Active,
   Consumers!MaskConnector, Served!MaskConnector, Consumers!Shown, Served!Shown,
   Consumers!Toggled, Served!Toggled, Consumers!Rekeyed, Served!Rekeyed,
   Consumers!Saving, Served!Saving,
   Consumers!MergeConnectorSecrets, Served!MergeConnectorSecrets, Consumers!Closed, Served!Closed,
   Consumers!Connector, Served!Connector, Consumers!busVars, Served!busVars

LEMMA SameHandlers ==
    ASSUME NEW w, Consumers!HandlerStep(w)
    PROVE  Served!HandlerStep(w)
BY DEF Consumers!HandlerStep, Served!HandlerStep, Consumers!Take, Served!Take,
   Consumers!Call, Served!Call, Consumers!InsertExecution, Served!InsertExecution,
   Consumers!ListEnabled, Served!ListEnabled, Consumers!Selects, Served!Selects,
   Consumers!Active, Served!Active, Consumers!MatchCondition, Served!MatchCondition,
   Consumers!Callable, Served!Callable, Consumers!Left, Served!Left,
   Consumers!Idle, Served!Idle, Consumers!Either, Served!Either, Consumers!Fault, Served!Fault,
   Consumers!Connector, Served!Connector, Consumers!rowVars, Served!rowVars,
   Consumers!busVars, Served!busVars

LEMMA SameConsumers == Consumers!ConsumerNext => Served!ConsumerNext
<1>1. ASSUME NEW w, \/ Consumers!Start(w) \/ Consumers!Reconnect(w)
                    \/ Consumers!Disconnect(w) \/ Consumers!GiveUp(w) \/ Consumers!Crash(w)
      PROVE  \/ Served!Start(w) \/ Served!Reconnect(w)
             \/ Served!Disconnect(w) \/ Served!GiveUp(w) \/ Served!Crash(w)
  BY <1>1 DEF Consumers!Start, Served!Start, Consumers!Reconnect, Served!Reconnect,
     Consumers!Disconnect, Served!Disconnect, Consumers!GiveUp, Served!GiveUp,
     Consumers!Crash, Served!Crash, Consumers!Idle, Served!Idle,
     Consumers!Fault, Served!Fault, Consumers!rowVars, Served!rowVars
<1> QED
  BY <1>1, SameAdmin, SameHandlers DEF Consumers!ConsumerNext, Served!ConsumerNext

LEMMA SameStep == [Consumers!Next]_(Consumers!vars) => [Served!Next]_(Served!vars)
<1>1. ASSUME NEW e, Consumers!Publish(e)
      PROVE  Served!Publish(e)
  BY <1>1 DEF Consumers!Publish, Served!Publish, Consumers!Receive, Served!Receive,
     Consumers!rowVars, Served!rowVars
<1>2. Consumers!Event = Served!Event
  BY DEF Consumers!Event, Served!Event, Consumers!MaybeTenant, Served!MaybeTenant
<1>3. Consumers!vars = Served!vars /\ Consumers!vars' = Served!vars'
  BY DEF Consumers!vars, Served!vars
<1> QED
  BY <1>1, <1>2, <1>3, SameConsumers DEF Consumers!Next, Served!Next

-----------------------------------------------------------------------------
(* What the consumers receive *)

\* An entry that stands for an uplink with its row, published on NATS.
Stored(e) ==
    /\ e.msg \in 1..Len(air) /\ air[e.msg].kind = "up"
    /\ e \in frames
    /\ \E k \in 1..Len(bus) : bus[k] = e

\* The events of the consumers are stored uplinks, in the order of the
\* messages, each once.
Fed ==
    /\ uplinks \in Seq(Entry)
    /\ \A i \in 1..Len(uplinks) : Stored(uplinks[i]) /\ i <= uplinks[i].msg
    /\ \A i, j \in 1..Len(uplinks) : i < j => uplinks[i].msg < uplinks[j].msg

PInv == IInv /\ Fed /\ Served!Inv


LEMMA ConsumersFit ==
    /\ Served!RowAssumption /\ Served!WorkerAssumption
    /\ Served!ConditionAssumption /\ Served!BoundAssumption
BY ConsumersAssumption
   DEF Consumers!RowAssumption, Served!RowAssumption,
       Consumers!WorkerAssumption, Served!WorkerAssumption,
       Consumers!ConditionAssumption, Served!ConditionAssumption,
       Consumers!BoundAssumption, Served!BoundAssumption,
       Consumers!Connector, Served!Connector, Consumers!Op, Served!Op,
       Consumers!MaybeTenant, Served!MaybeTenant

LEMMA ServedInit ==
    ASSUME Served!Init
    PROVE  Served!Inv
BY ConsumersFit, Served!InitInv

LEMMA ServedNext ==
    ASSUME Served!Inv, [Served!Next]_(Served!vars)
    PROVE  Served!Inv'
BY ConsumersFit, Served!NextInv

\* What mqtt-ingestion has stored and published stays, and what it publishes
\* is the message in hand.
LEMMA IngestionGrows ==
    ASSUME IInv, [Next]_vars
    PROVE  /\ Len(air) <= Len(air') /\ \A n \in 1..Len(air) : air'[n] = air[n]
           /\ frames \subseteq frames'
           /\ \/ bus' = bus
              \/ handler.pc = "publish" /\ air' = air /\ bus' = Append(bus, Current)
<1>0. air \in Seq(Message) /\ bus \in Seq(Entry)
  BY DEF IInv, TypeOK
<1>1. ASSUME NEW m \in Message, Emit(m)
      PROVE  /\ Len(air) <= Len(air') /\ \A n \in 1..Len(air) : air'[n] = air[n]
             /\ frames' = frames /\ bus' = bus
  BY <1>0, <1>1 DEF Emit, storeVars
<1>2. CASE Publish
  <2>1. air' = air /\ frames' = frames /\ handler.pc = "publish"
    BY <1>2 DEF Publish, At, storeVars
  <2>2. bus' = bus \/ bus' = Append(bus, Current)
    BY <1>2, Zenon DEF Publish, Either
  <2> QED
    BY <1>0, <2>1, <2>2
<1>3. CASE InsertUplink
  BY <1>3, <1>0 DEF InsertUplink, Either
<1>4. CASE Lifecycle \/ ConnectionLost \/ Crash \/ Handle \/ UNCHANGED vars
  <2>1. air' = air /\ frames' = frames /\ bus' = bus
    BY <1>4 DEF Lifecycle, Start, Connected, ConnectTimeout, PahoReconnects, ConnectionLost,
                Crash, Handle, storeVars, vars
  <2> QED
    BY <1>0, <2>1
<1>5. CASE StoreObject \/ InsertArchive \/ InsertStats
  <2>1. air' = air /\ frames' = frames /\ bus' = bus
    BY <1>5 DEF StoreObject, InsertArchive, InsertStats
  <2> QED
    BY <1>0, <2>1
<1> QED
  BY <1>0, <1>1, <1>2, <1>3, <1>4, <1>5 DEF Next, HandlerStep

\* What a step does to the uplink events.
LEMMA UplinksGrow ==
    ASSUME IInv, Fed, Next /\ Deliver
    PROVE  \/ uplinks' = uplinks /\ UNCHANGED consumerVars
           \/ /\ handler.pc = "publish" /\ air' = air /\ bus' = Append(bus, Current)
              /\ air[handler.msg].kind = "up"
              /\ uplinks' = Append(uplinks, Current)
              /\ Consumers!Receive(Len(uplinks'))
              /\ UNCHANGED <<rows, views, links, jobs, calls, executions, serviceFaults,
                             offSince>>
<1>1. CASE bus' = bus
  BY <1>1 DEF Deliver
<1>2. CASE handler.pc = "publish" /\ air' = air /\ bus' = Append(bus, Current)
  <2>1. bus \in Seq(Entry) /\ Current \in Entry
    BY <1>2, CurrentEntry DEF IInv, TypeOK
  <2>2. NewEvent = Current
    BY <1>2, <2>1 DEF NewEvent
  <2>3. NewEvent.msg = handler.msg
    BY <2>2 DEF Current
  <2> QED
    BY <1>2, <2>2, <2>3, Zenon DEF Deliver, IsUplink
<1> QED
  BY <1>1, <1>2, IngestionGrows

LEMMA StoredStays ==
    ASSUME IInv, [Next]_vars, NEW e \in Entry, Stored(e)
    PROVE  Stored(e)'
<1>1. /\ Len(air) \in Nat /\ Len(air') \in Nat /\ Len(air) <= Len(air')
      /\ \A n \in 1..Len(air) : air'[n] = air[n]
      /\ frames \subseteq frames'
  BY NextInv, IngestionGrows DEF IInv, TypeOK
<1>2. \A k \in 1..Len(bus) : k \in 1..Len(bus') /\ bus'[k] = bus[k]
  <2>1. bus \in Seq(Entry) /\ Current \in Entry
    BY CurrentEntry DEF IInv, TypeOK
  <2> QED
    BY <2>1, IngestionGrows
<1> QED
  BY <1>1, <1>2 DEF Stored

LEMMA FedStep ==
    ASSUME IInv, Fed, PipelineNext \/ UNCHANGED <<vars, uplinks, consumerVars>>
    PROVE  Fed'
<1>1. [Next]_vars
  BY DEF PipelineNext
<1>2. uplinks \in Seq(Entry) /\ bus \in Seq(Entry)
  BY DEF Fed, IInv, TypeOK
<1>3. ASSUME NEW i \in 1..Len(uplinks)
      PROVE  uplinks[i] \in Entry /\ i <= uplinks[i].msg
             /\ \A e : e = uplinks[i] => Stored(e)'
  <2>1. PICK e : e = uplinks[i]
    OBVIOUS
  <2>2. e \in Entry /\ Stored(e) /\ i <= e.msg
    BY <1>2, <2>1 DEF Fed, Stored
  <2>3. Stored(e)'
    BY <1>1, <2>2, StoredStays
  <2> QED
    BY <2>1, <2>2, <2>3
<1>4. CASE uplinks' = uplinks
  <2>1. ASSUME NEW i \in 1..Len(uplinks)
        PROVE  i <= uplinks'[i].msg /\ Stored(uplinks[i])'
    BY <1>3, <1>4 DEF Stored
  <2> QED
    BY <1>2, <1>4, <2>1 DEF Fed
<1>5. CASE /\ handler.pc = "publish" /\ air' = air /\ bus' = Append(bus, Current)
           /\ air[handler.msg].kind = "up"
           /\ uplinks' = Append(uplinks, Current)
  <2>0. PICK c : c = Current
    OBVIOUS
  <2>1. c \in Entry /\ c.msg = handler.msg /\ c.msg \in 1..Len(air)
    BY <1>5, <2>0, CurrentEntry DEF IInv, Known, Busy
  <2>2. c \in frames
    BY <1>5, <2>0 DEF IInv, Progress
  <2>3. \A i \in 1..Len(uplinks) : uplinks[i].msg < c.msg
    BY <1>5, <2>1 DEF Fed, Stored, IInv, Frontier, Busy
  <2>4. Len(uplinks) + 1 <= c.msg
    <3>1. Len(uplinks) \in Nat /\ c.msg \in Nat
      BY <1>2, <2>1 DEF Entry
    <3>2. CASE Len(uplinks) = 0
      BY <2>1, <3>1, <3>2
    <3>3. CASE Len(uplinks) # 0
      <4>1. Len(uplinks) \in 1..Len(uplinks)
        BY <3>1, <3>3
      <4>2. uplinks[Len(uplinks)].msg \in Nat
        BY <1>3, <4>1 DEF Entry
      <4>3. Len(uplinks) <= uplinks[Len(uplinks)].msg /\ uplinks[Len(uplinks)].msg < c.msg
        BY <1>3, <2>3, <4>1
      <4> QED
        BY <3>1, <4>2, <4>3
    <3> QED
      BY <3>2, <3>3
  <2>5. Len(bus') \in 1..Len(bus') /\ bus'[Len(bus')] = c
    BY <1>2, <1>5, <2>0, <2>1
  <2>6. Stored(c)'
    BY <1>1, <1>5, <2>1, <2>2, <2>5, IngestionGrows DEF Stored
  <2>7. /\ uplinks' \in Seq(Entry) /\ Len(uplinks') = Len(uplinks) + 1
        /\ \A i \in 1..Len(uplinks) : uplinks'[i] = uplinks[i]
        /\ uplinks'[Len(uplinks')] = c
    BY <1>2, <1>5, <2>0, <2>1
  <2>8. ASSUME NEW i \in 1..Len(uplinks')
        PROVE  i <= uplinks'[i].msg /\ Stored(uplinks[i])'
    <3>1. CASE i \in 1..Len(uplinks)
      BY <1>3, <2>7, <3>1 DEF Stored
    <3>2. CASE i = Len(uplinks')
      BY <2>4, <2>6, <2>7, <3>2 DEF Stored
    <3> QED
      BY <1>2, <2>7, <3>1, <3>2
  <2>9. ASSUME NEW i \in 1..Len(uplinks'), NEW j \in 1..Len(uplinks'), i < j
        PROVE  uplinks'[i].msg < uplinks'[j].msg
    <3>1. i \in 1..Len(uplinks)
      BY <1>2, <2>7, <2>9
    <3>2. CASE j \in 1..Len(uplinks)
      BY <2>7, <2>9, <3>1, <3>2 DEF Fed
    <3>3. CASE j = Len(uplinks')
      BY <2>3, <2>7, <3>1, <3>3
    <3> QED
      BY <1>2, <2>7, <3>2, <3>3
  <2> QED
    BY <2>7, <2>8, <2>9 DEF Fed
<1> QED
  BY <1>4, <1>5, UplinksGrow DEF PipelineNext

EventsFit ==
    /\ \A i \in 1..Len(uplinks) : Events[i] \in Consumers!Event
    /\ Len(Events) = Len(uplinks) /\ Len(uplinks) \in Nat /\ Len(uplinks) <= MaxMessages

LEMMA EventsTyped == IInv /\ Fed => EventsFit
<1> SUFFICES ASSUME IInv, Fed PROVE EventsFit
  OBVIOUS
<1>1. air \in Seq(Message) /\ Len(air) \in Nat /\ Len(air) <= MaxMessages /\ MaxMessages \in Nat
  BY BoundAssumption DEF IInv, TypeOK
<1>2. uplinks \in Seq(Entry) /\ Len(uplinks) \in Nat
  BY DEF Fed
<1>3. ASSUME NEW i \in 1..Len(uplinks)
      PROVE  Events[i] \in Consumers!Event
  <2>1. uplinks[i] \in Entry /\ air[uplinks[i].msg] \in Message
    BY <1>1, <1>2 DEF Fed, Stored
  <2>2. uplinks[i].tenant \in MaybeTenant /\ ReadingOf[air[uplinks[i].msg].device] \in Reading
    BY <2>1, ReadingAssumption DEF Entry, Message
  <2>3. Events[i] = [tenant |-> uplinks[i].tenant,
                     reading |-> ReadingOf[air[uplinks[i].msg].device]]
    BY DEF Events
  <2> QED
    BY <2>2, <2>3 DEF Consumers!Event, Consumers!MaybeTenant, MaybeTenant
<1>4. Len(uplinks) <= Len(air)
  <2>1. CASE Len(uplinks) = 0
    BY <1>1, <2>1
  <2>2. CASE Len(uplinks) # 0
    <3>1. Len(uplinks) \in 1..Len(uplinks)
      BY <1>2, <2>2
    <3>2. /\ Len(uplinks) <= uplinks[Len(uplinks)].msg
          /\ uplinks[Len(uplinks)].msg \in 1..Len(air)
      BY <3>1 DEF Fed, Stored
    <3> QED
      BY <1>1, <1>2, <3>2
  <2> QED
    BY <2>1, <2>2
<1>5. Len(Events) = Len(uplinks)
  BY <1>2 DEF Events
<1> QED
  BY <1>1, <1>2, <1>3, <1>4, <1>5 DEF EventsFit

LEMMA EventsTypedNext == (IInv /\ Fed => EventsFit)'
BY EventsTyped, PTL

\* What an event says does not change.
LEMMA EventStays ==
    ASSUME IInv, Fed, [Next]_vars, NEW i \in 1..Len(uplinks),
           i \in 1..Len(uplinks'), uplinks'[i] = uplinks[i]
    PROVE  Events'[i] = Events[i]
<1>1. air'[uplinks[i].msg] = air[uplinks[i].msg]
  BY IngestionGrows DEF Fed, Stored
<1> QED
  BY <1>1 DEF Events

\* A step of the pipeline is a step of the consumers or leaves them alone.
LEMMA PipelineFeeds ==
    ASSUME IInv, Fed, PipelineNext \/ UNCHANGED <<vars, uplinks, consumerVars>>
    PROVE  [Consumers!Next]_(Consumers!vars)
<1>1. [Next]_vars /\ Fed' /\ IInv'
  BY FedStep, NextInv DEF PipelineNext
<1>2. uplinks \in Seq(Entry) /\ uplinks' \in Seq(Entry)
  BY <1>1 DEF Fed
<1>3. ASSUME uplinks' = uplinks
      PROVE  Events' = Events
  <2>1. \A i \in 1..Len(uplinks) : Events'[i] = Events[i]
    BY <1>1, <1>3, EventStays
  <2>2. /\ Events = [i \in 1..Len(uplinks) |-> Events[i]]
        /\ Events' = [i \in 1..Len(uplinks) |-> Events'[i]]
    BY <1>3 DEF Events
  <2> QED
    BY <2>1, <2>2
<1>4. CASE uplinks' = uplinks /\ UNCHANGED consumerVars
  BY <1>3, <1>4 DEF consumerVars, Consumers!vars
<1>5. CASE UNCHANGED <<vars, uplinks>> /\ Consumers!ConsumerNext
  BY <1>5 DEF Consumers!Next
<1>6. CASE /\ handler.pc = "publish" /\ air' = air /\ air[handler.msg].kind = "up"
           /\ uplinks' = Append(uplinks, Current)
           /\ Consumers!Receive(Len(uplinks'))
           /\ UNCHANGED <<rows, views, links, jobs, calls, executions, serviceFaults, offSince>>
  <2> DEFINE n == Len(uplinks) + 1
  <2>1. Current \in Entry
    BY CurrentEntry
  <2>2. /\ Len(uplinks') = n /\ uplinks'[n] = Current /\ Len(uplinks) \in Nat
        /\ \A i \in 1..Len(uplinks) : i \in 1..Len(uplinks') /\ uplinks'[i] = uplinks[i]
    BY <1>2, <1>6, <2>1
  <2>3. /\ Events'[n] \in Consumers!Event /\ n <= MaxMessages
        /\ Len(Events) = Len(uplinks) /\ Len(Events') = n
    <3>1. EventsFit'
      BY <1>1, EventsTypedNext
    <3>2. /\ \A i \in 1..Len(uplinks') : Events'[i] \in Consumers!Event'
          /\ Len(Events') = Len(uplinks') /\ Len(uplinks') <= MaxMessages
      BY <3>1, Zenon DEF EventsFit
    <3>3. n \in 1..Len(uplinks')
      BY <2>2
    <3> QED
      BY <2>2, <3>2, <3>3, EventsTyped DEF EventsFit, Consumers!Event, Consumers!MaybeTenant
  <2>4. PICK e \in Consumers!Event : e = Events'[n]
    BY <2>3
  <2>5. Events' = Append(Events, e)
    <3>1. \A i \in 1..Len(uplinks) : Events'[i] = Events[i]
      BY <1>1, <2>2, EventStays
    <3>2. /\ Events = [i \in 1..Len(uplinks) |-> Events[i]]
          /\ Events' = [i \in 1..n |-> Events'[i]]
      BY <2>2 DEF Events
    <3>3. Events \in Seq(Consumers!Event)
      BY <3>2, EventsTyped DEF EventsFit
    <3>4. /\ Append(Events, e) \in Seq(Consumers!Event) /\ Len(Append(Events, e)) = n
          /\ \A i \in 1..Len(uplinks) : Append(Events, e)[i] = Events[i]
          /\ Append(Events, e)[n] = e
      BY <2>3, <3>3, AppendProperties
    <3>5. ASSUME NEW i \in 1..n
          PROVE  Events'[i] = Append(Events, e)[i] /\ Events'[i] \in Consumers!Event
      <4>1. CASE i \in 1..Len(uplinks)
        BY <3>1, <3>4, <4>1, EventsTyped DEF EventsFit
      <4>2. CASE i = n
        <5>1. Append(Events, e)[i] = e /\ Events'[i] = e
          BY <2>4, <3>4, <4>2, Zenon
        <5> QED
          BY <5>1
      <4>3. i \in 1..Len(uplinks) \/ i = n
        BY <2>2
      <4> QED
        BY <4>1, <4>2, <4>3, Zenon
    <3>6. Events' \in Seq(Consumers!Event)
      BY <2>2, <3>2, <3>5
    <3> QED
      BY <2>3, <3>4, <3>5, <3>6, SeqEqual
  <2>6. Consumers!Receive(Len(Events) + 1)
    BY <1>6, <2>2, <2>3
  <2>7. Consumers!Publish(e)
    BY <1>6, <2>2, <2>3, <2>5, <2>6, BoundAssumption DEF Consumers!Publish, Consumers!rowVars
  <2> QED
    BY <2>7 DEF Consumers!Next
<1> QED
  BY <1>4, <1>5, <1>6, UplinksGrow DEF PipelineNext, consumerVars, vars


\* The events stand for stored uplinks, in order, and the consumers serve them
\* as UplinkConsumers says.
LEMMA PipelineInitInv == PipelineInit => PInv
<1> SUFFICES ASSUME PipelineInit PROVE PInv
  OBVIOUS
<1>1. Fed
  BY DEF PipelineInit, Fed
<1>2. Served!Inv
  BY SameInit, ServedInit DEF PipelineInit
<1> QED
  BY <1>1, <1>2, InitInv DEF PipelineInit, PInv

LEMMA PipelineNextInv ==
    ASSUME PInv, PipelineNext \/ UNCHANGED <<vars, uplinks, consumerVars>>
    PROVE  PInv'
<1>1. IInv'
  BY NextInv DEF PInv, PipelineNext
<1>2. Fed'
  BY FedStep DEF PInv
<1>3. Served!Inv'
  BY PipelineFeeds, SameStep, ServedNext DEF PInv
<1> QED
  BY <1>1, <1>2, <1>3 DEF PInv

\* The invariant of the pipeline.
LEMMA TrafficInvariant == TrafficSpec => []PInv
<1>1. TrafficInit => PInv
  BY PipelineInitInv DEF TrafficInit
<1>2. ASSUME PInv, [TrafficNext]_trafficVars
      PROVE  PInv'
  BY <1>2, PipelineNextInv DEF TrafficNext, trafficVars, lorawanPart
<1> QED
  BY <1>1, <1>2, PTL DEF TrafficSpec

\* The invariant contains what is claimed.
LEMMA CallsFollow == PInv => CallsFollowFrames
<1> SUFFICES ASSUME PInv PROVE CallsFollowFrames
  OBVIOUS
<1>1. Served!RefersToEvents /\ Served!TenantsKeptApart /\ Served!CallsInOrder
  BY DEF PInv, Served!Inv, Served!Ordered
<1>2. ASSUME NEW i \in 1..Len(calls)
      PROVE  /\ calls[i].event \in 1..Len(uplinks)
             /\ uplinks[calls[i].event].tenant = OwnerOf[calls[i].id]
  <2>1. calls[i].event \in 1..Len(uplinks)
    BY <1>1, EventsTyped DEF Served!RefersToEvents, Served!Events, PInv, EventsFit
  <2>2. OwnerOf[calls[i].id] = Events[calls[i].event].tenant
    BY <1>1 DEF Served!TenantsKeptApart
  <2> QED
    BY <2>1, <2>2 DEF Events
<1>3. CallsRestOnFrames
  <2> SUFFICES ASSUME NEW i \in 1..Len(calls)
               PROVE  [msg |-> uplinks[calls[i].event].msg, tenant |-> OwnerOf[calls[i].id]]
                      \in frames
    BY DEF CallsRestOnFrames
  <2>1. PICK e : e = uplinks[calls[i].event]
    OBVIOUS
  <2>2. e \in Entry /\ e \in frames /\ e.tenant = OwnerOf[calls[i].id]
    BY <1>2, <2>1 DEF PInv, Fed, Stored
  <2>3. e = [msg |-> e.msg, tenant |-> e.tenant]
    BY <2>2 DEF Entry
  <2> QED
    BY <2>1, <2>2, <2>3
<1>4. EndToEndOrder
  BY <1>1, <1>2 DEF EndToEndOrder, Served!CallsInOrder, PInv, Fed
<1> QED
  BY <1>3, <1>4 DEF CallsFollowFrames

-----------------------------------------------------------------------------
(* The members of a tenant *)

MemberSteps == {"idle", "find", "create", "role", "invite", "insert", "created", "refused"}

MembersTypeInv ==
    /\ call \in [Request -> [at : MemberSteps, tenant : Tenant \cup {None},
                            email : Email \cup {None}, role : Role \cup {None},
                            invite : BOOLEAN]]
    /\ account = [c \in Request |-> account[c]]

AccountOf(c, r) ==
    [email |-> call[c].email, network |-> NetworkOf[call[c].tenant], role |-> r]

Asked ==
    \A c \in Request : call[c].at # "idle" =>
        call[c].tenant \in Tenant /\ call[c].email \in Email /\ call[c].role \in Role

MembersProgress ==
    \A c \in Request :
      /\ call[c].at \in {"idle", "find", "create"} => account[c] = None
      /\ call[c].at = "role" => account[c] = AccountOf(c, None)
      /\ call[c].at \in {"invite", "insert", "created"} => account[c] = AccountOf(c, call[c].role)
      /\ call[c].at = "refused" =>
            account[c] = None \/ (c \in spoilt /\ account[c].email = call[c].email)

RowsFromCalls ==
    \A m \in member :
      /\ m.user \in Request /\ call[m.user].at = "created"
      /\ m = [tenant |-> call[m.user].tenant, user |-> m.user,
              email |-> call[m.user].email, role |-> call[m.user].role]

Recording ==
    /\ \A m \in member : m.tenant \in tenants
    /\ \A c \in Request : call[c].at = "created" =>
          \/ \E m \in member : m.user = c
          \/ call[c].tenant \notin tenants
          \/ c \in spoilt

MembersInv ==
    /\ MembersTypeInv /\ Asked /\ MembersProgress /\ RowsFromCalls /\ Recording
    /\ Members!OneAccountPerEmail

(* The inductive invariant contains what is claimed.                       *)
LEMMA MembersMatch == MembersInv => Members!MembersMatchAccounts
<1> SUFFICES ASSUME MembersInv PROVE Members!MembersMatchAccounts
  OBVIOUS
<1> USE DEF MembersInv
<1>1. Members!RowsDescribeAccounts
  <2> SUFFICES ASSUME NEW m \in member
      PROVE /\ m.tenant \in tenants
            /\ account[m.user] =
                 [email |-> m.email, network |-> NetworkOf[m.tenant], role |-> m.role]
    BY DEF Members!RowsDescribeAccounts
  <2>1. m.tenant \in tenants
    BY DEF Recording
  <2>2. /\ m.user \in Request /\ call[m.user].at = "created"
        /\ m.tenant = call[m.user].tenant /\ m.email = call[m.user].email
        /\ m.role = call[m.user].role
    BY DEF RowsFromCalls
  <2>3. account[m.user] = AccountOf(m.user, call[m.user].role)
    BY <2>2 DEF MembersProgress
  <2> QED
    BY <2>1, <2>2, <2>3 DEF AccountOf
<1>2. Members!CreatedIsComplete
  BY DEF Members!CreatedIsComplete, Members!Complete, MembersProgress, Recording, AccountOf
<1>3. Members!NoAccountAdrift
  <2> SUFFICES ASSUME NEW c \in Request, account[c] # None
      PROVE \/ \E m \in member : m.user = c
            \/ call[c].at \in {"role", "invite", "insert"}
            \/ call[c].tenant \notin tenants
            \/ c \in spoilt
    BY DEF Members!NoAccountAdrift
  <2>1. call[c].at \in MemberSteps
    BY DEF MembersTypeInv
  <2>2. CASE call[c].at = "created"
    BY <2>2 DEF Recording
  <2> QED
    BY <2>1, <2>2 DEF MemberSteps, MembersProgress
<1> QED
  BY <1>1, <1>2, <1>3 DEF Members!MembersMatchAccounts

(* At first nobody has asked.                                              *)
LEMMA MembersInitInv == Members!MembersInit => MembersInv
  BY DEF Members!MembersInit, Members!NotAsked, MembersInv, MembersTypeInv, MemberSteps, Asked,
       MembersProgress, AccountOf, RowsFromCalls,
         Recording, Members!OneAccountPerEmail

(* A step of one request that leaves the rows alone moves only that        *)
(* request and its account.                                                *)
LEMMA MemberRequestStep ==
  ASSUME MembersInv, NEW c \in Request, NEW at \in MemberSteps,
         call[c].at \notin {"idle", "created"},
         call' = [call EXCEPT ![c].at = at],
         \A b \in Request \ {c} : account'[b] = account[b],
         account' = [b \in Request |-> account'[b]],
         UNCHANGED <<tenants, member>>, spoilt \subseteq spoilt',
         at # "created",
         at \in {"find", "create"} => account'[c] = None,
         at = "role" => account'[c] = AccountOf(c, None),
         at \in {"invite", "insert"} => account'[c] = AccountOf(c, call[c].role),
         at = "refused" =>
             account'[c] = None \/ (c \in spoilt' /\ account'[c].email = call[c].email),
         at # "idle",
         account'[c] # None => \A b \in Request \ {c} :
             account[b] # None => account[b].email # account'[c].email
  PROVE  MembersInv'
<1> USE DEF MembersInv
<1>1. MembersTypeInv'
  BY DEF MembersTypeInv
<1>2. /\ \A b \in Request : b # c => call'[b] = call[b]
      /\ call'[c].at = at /\ call'[c].tenant = call[c].tenant
      /\ call'[c].email = call[c].email /\ call'[c].role = call[c].role
  BY DEF MembersTypeInv
<1>3. MembersProgress'
  <2> SUFFICES ASSUME NEW b \in Request
      PROVE /\ call'[b].at \in {"idle", "find", "create"} => account'[b] = None
            /\ call'[b].at = "role" => account'[b] = AccountOf(b, None)'
            /\ call'[b].at \in {"invite", "insert", "created"} =>
                  account'[b] = AccountOf(b, call[b].role)'
            /\ call'[b].at = "refused" =>
                  account'[b] = None \/ (b \in spoilt' /\ account'[b].email = call'[b].email)
    BY DEF MembersProgress
  <2>1. CASE b = c
    BY <1>2, <2>1 DEF AccountOf
  <2>2. CASE b # c
    BY <1>2, <2>2 DEF MembersProgress, AccountOf
  <2> QED
    BY <2>1, <2>2
<1>4. RowsFromCalls'
  <2> SUFFICES ASSUME NEW m \in member
      PROVE /\ m.user \in Request /\ call'[m.user].at = "created"
            /\ m = [tenant |-> call'[m.user].tenant, user |-> m.user,
                    email |-> call'[m.user].email, role |-> call'[m.user].role]
    BY DEF RowsFromCalls
  <2>1. m.user \in Request /\ call[m.user].at = "created"
    BY DEF RowsFromCalls
  <2>2. call'[m.user] = call[m.user]
    BY <2>1, <1>2
  <2> QED
    BY <2>1, <2>2 DEF RowsFromCalls
<1>5. Recording'
  BY <1>2 DEF Recording
<1>6. Members!OneAccountPerEmail'
  BY DEF Members!OneAccountPerEmail
<1>7. Asked'
  BY <1>2 DEF Asked, MembersProgress
<1> QED
  BY <1>1, <1>3, <1>4, <1>5, <1>6, <1>7

(* Every step keeps the invariant.                                         *)
LEMMA MembersStepInv ==
  ASSUME Members!NoneIsNoAccount, MembersInv, [Members!MembersNext]_(Members!memberVars)
  PROVE  MembersInv'
<1> USE DEF MembersInv
<1>1. ASSUME NEW c \in Request, Members!AskMember(c) PROVE MembersInv'
  <2>1. PICK t \in Tenant, e \in Email, r \in Role, i \in BOOLEAN :
          /\ call[c].at = "idle"
          /\ call' = [call EXCEPT ![c] =
               [at |-> IF t \in tenants /\ NetworkOf[t] # None THEN "find" ELSE "refused",
                tenant |-> t, email |-> e, role |-> r, invite |-> i]]
          /\ UNCHANGED <<tenants, account, member>> /\ Members!Well
    BY <1>1 DEF Members!AskMember
  <2> USE DEF Members!Well
  <2>2. account[c] = None
    BY <2>1 DEF MembersProgress
  <2>3. MembersTypeInv'
    BY <2>1 DEF MembersTypeInv, MemberSteps
  <2>4. /\ \A b \in Request : b # c => call'[b] = call[b]
        /\ call'[c].at \in {"find", "refused"}
    BY <2>1 DEF MembersTypeInv
  <2>5. MembersProgress'
    BY <2>1, <2>2, <2>4 DEF MembersProgress, AccountOf
  <2>6. RowsFromCalls'
    BY <2>1, <2>4 DEF RowsFromCalls
  <2>7. Recording' /\ Members!OneAccountPerEmail'
    BY <2>1, <2>4 DEF Recording, Members!OneAccountPerEmail
  <2>8. call'[c].tenant = t /\ call'[c].email = e /\ call'[c].role = r
    BY <2>1 DEF MembersTypeInv
  <2>9. Asked'
    BY <2>4, <2>8 DEF Asked
  <2> QED
    BY <2>3, <2>5, <2>6, <2>7, <2>9
<1>2. ASSUME NEW c \in Request, Members!FindUser(c) PROVE MembersInv'
  <2>1. PICK at \in {"create", "refused"} : Members!Moves(c, "find", at)
    BY <1>2 DEF Members!FindUser
  <2>2. account[c] = None
    BY <2>1 DEF MembersProgress, Members!Moves
  <2>3. spoilt \subseteq spoilt' /\ UNCHANGED <<tenants, account, member>>
    BY <1>2 DEF Members!FindUser, Members!Well, Members!Spoil
  <2> QED
    BY <2>1, <2>2, <2>3, MemberRequestStep DEF Members!Moves, MemberSteps, MembersTypeInv
<1>3. ASSUME NEW c \in Request, Members!CreateUser(c) PROVE MembersInv'
  <2>1. PICK at \in {"role", "refused"} : Members!Moves(c, "create", at)
    BY <1>3 DEF Members!CreateUser
  <2>2. account[c] = None
    BY <2>1 DEF MembersProgress, Members!Moves
  <2>3. spoilt \subseteq spoilt' /\ UNCHANGED <<tenants, member>>
    BY <1>3 DEF Members!CreateUser, Members!Well, Members!Spoil
  <2>4. CASE UNCHANGED account /\ Members!Moves(c, "create", "refused")
    BY <2>2, <2>3, <2>4, MemberRequestStep DEF Members!Moves, MemberSteps, MembersTypeInv
  <2>5. CASE /\ ~Members!Held(call[c].email) /\ Members!Opened(c)
             /\ \/ Members!Moves(c, "create", "role")
                \/ Members!Moves(c, "create", "refused") /\ c \in spoilt'
    <3>1. account' = [account EXCEPT ![c] = AccountOf(c, None)]
      BY <2>5 DEF Members!Opened, AccountOf
    <3>2. /\ account'[c] = AccountOf(c, None) /\ account'[c].email = call[c].email
          /\ \A b \in Request \ {c} : account'[b] = account[b]
          /\ account' = [b \in Request |-> account'[b]]
      BY <3>1 DEF MembersTypeInv, AccountOf
    <3>3. \A b \in Request \ {c} : account[b] # None => account[b].email # account'[c].email
      BY <2>5, <3>2 DEF Members!Held
    <3>4. CASE Members!Moves(c, "create", "role")
      BY <2>3, <3>2, <3>3, <3>4, MemberRequestStep DEF Members!Moves, MemberSteps
    <3>5. CASE Members!Moves(c, "create", "refused") /\ c \in spoilt'
      BY <2>3, <3>2, <3>3, <3>5, MemberRequestStep DEF Members!Moves, MemberSteps
    <3> QED
      BY <2>5, <3>4, <3>5
  <2> QED
    BY <1>3, <2>4, <2>5 DEF Members!CreateUser, Members!Spoil
<1>4. ASSUME NEW c \in Request, Members!AssignRealmRole(c) PROVE MembersInv'
  <2>1. call[c].at = "role" /\ account[c] = AccountOf(c, None)
    BY <1>4 DEF Members!AssignRealmRole, Members!Moves, MembersProgress
  <2>2. /\ call[c].tenant \in Tenant \/ call[c].tenant = None
        /\ Members!AfterRole(c) \in {"invite", "insert"}
    BY DEF MembersTypeInv, Members!AfterRole
  <2>3. spoilt \subseteq spoilt' /\ UNCHANGED <<tenants, member>>
    BY <1>4 DEF Members!AssignRealmRole, Members!Well, Members!Spoil
  <2>4. CASE UNCHANGED account /\ Members!Moves(c, "role", "refused") /\ c \in spoilt'
    <3>1. account[c].email = call[c].email
      BY <2>1 DEF AccountOf
    <3> QED
      BY <2>1, <2>3, <2>4, <3>1, MemberRequestStep DEF Members!Moves, MemberSteps,
           MembersTypeInv, Members!OneAccountPerEmail
  <2>5. CASE /\ Members!Mapped(c)
             /\ \/ Members!Moves(c, "role", Members!AfterRole(c))
                \/ Members!Moves(c, "role", "refused") /\ c \in spoilt'
    <3>1. [account[c] EXCEPT !.role = call[c].role] = AccountOf(c, call[c].role)
      BY <2>1 DEF AccountOf
    <3>2. /\ account'[c] = AccountOf(c, call[c].role) /\ account'[c].email = call[c].email
          /\ \A b \in Request \ {c} : account'[b] = account[b]
          /\ account' = [b \in Request |-> account'[b]]
      BY <2>5, <3>1 DEF Members!Mapped, MembersTypeInv, AccountOf
    <3>3. account[c] # None
      BY <2>1 DEF Asked, Members!NoneIsNoAccount, AccountOf
    <3>4. \A b \in Request \ {c} : account[b] # None => account[b].email # account'[c].email
      BY <2>1, <3>2, <3>3 DEF Members!OneAccountPerEmail, AccountOf
    <3>5. CASE Members!Moves(c, "role", Members!AfterRole(c))
      BY <2>1, <2>2, <2>3, <3>2, <3>4, <3>5, MemberRequestStep DEF Members!Moves, MemberSteps
    <3>6. CASE Members!Moves(c, "role", "refused") /\ c \in spoilt'
      BY <2>1, <2>3, <3>2, <3>4, <3>6, MemberRequestStep DEF Members!Moves, MemberSteps
    <3> QED
      BY <2>5, <3>5, <3>6
  <2> QED
    BY <1>4, <2>4, <2>5 DEF Members!AssignRealmRole, Members!Spoil
<1>5. ASSUME NEW c \in Request, Members!SendInvitationEmail(c) PROVE MembersInv'
  <2>1. Members!Moves(c, "invite", "insert") /\ UNCHANGED <<tenants, account, member>>
        /\ spoilt \subseteq spoilt'
    BY <1>5 DEF Members!SendInvitationEmail, Members!Well, Members!Spoil
  <2>2. account[c] = AccountOf(c, call[c].role)
    BY <2>1 DEF Members!Moves, MembersProgress
  <2> QED
    BY <2>1, <2>2, MemberRequestStep DEF Members!Moves, MemberSteps, MembersTypeInv,
         Members!OneAccountPerEmail
<1>6. ASSUME NEW c \in Request, Members!InsertMember(c) PROVE MembersInv'
  <2>1. /\ Members!Moves(c, "insert", "created") /\ UNCHANGED <<tenants, account>>
        /\ spoilt \subseteq spoilt'
        /\ \/ call[c].tenant \in tenants /\ Members!Recorded(c)
           \/ UNCHANGED member /\ (call[c].tenant \notin tenants \/ c \in spoilt')
    BY <1>6 DEF Members!InsertMember, Members!Well, Members!Spoil
  <2>2. /\ \A b \in Request : b # c => call'[b] = call[b]
        /\ call'[c].at = "created" /\ call'[c].tenant = call[c].tenant
        /\ call'[c].email = call[c].email /\ call'[c].role = call[c].role
    BY <2>1 DEF MembersTypeInv, Members!Moves
  <2>3. MembersTypeInv'
    BY <2>1 DEF MembersTypeInv, Members!Moves, MemberSteps
  <2>4. MembersProgress'
    BY <2>1, <2>2 DEF MembersProgress, AccountOf, Members!Moves
  <2>5. RowsFromCalls'
    <3> DEFINE new == [tenant |-> call[c].tenant, user |-> c,
                       email |-> call[c].email, role |-> call[c].role]
    <3>1. member' \subseteq member \cup {new}
      BY <2>1 DEF Members!Recorded
    <3>2. call[c].at = "insert"
      BY <2>1 DEF Members!Moves
    <3> SUFFICES ASSUME NEW m \in member'
        PROVE /\ m.user \in Request /\ call'[m.user].at = "created"
              /\ m = [tenant |-> call'[m.user].tenant, user |-> m.user,
                      email |-> call'[m.user].email, role |-> call'[m.user].role]
      BY DEF RowsFromCalls
    <3>3. CASE m \in member
      <4>1. m.user \in Request /\ call[m.user].at = "created"
        BY <3>3 DEF RowsFromCalls
      <4>2. call'[m.user] = call[m.user]
        BY <4>1, <3>2, <2>2
      <4> QED
        BY <4>1, <4>2, <3>3 DEF RowsFromCalls
    <3>4. CASE m = new
      BY <3>4, <2>2
    <3> QED
      BY <3>1, <3>3, <3>4
  <2>6. Recording'
    <3>1. CASE call[c].tenant \in tenants /\ Members!Recorded(c)
      <4>1. \E m \in member' : m.user = c
        <5> DEFINE new == [tenant |-> call[c].tenant, user |-> c,
                           email |-> call[c].email, role |-> call[c].role]
        <5>1. new \in member'
          BY <3>1 DEF Members!Recorded
        <5>2. new.user = c
          OBVIOUS
        <5> QED
          BY <5>1, <5>2
      <4>2. \A n \in member' : n \in member \/ n.tenant = call[c].tenant
        BY <3>1 DEF Members!Recorded
      <4>3. member \subseteq member'
        BY <3>1 DEF Members!Recorded
      <4> QED
        BY <2>1, <2>2, <3>1, <4>1, <4>2, <4>3 DEF Recording
    <3>2. CASE UNCHANGED member /\ (call[c].tenant \notin tenants \/ c \in spoilt')
      BY <2>1, <2>2, <3>2 DEF Recording
    <3> QED
      BY <2>1, <3>1, <3>2
  <2>7. Members!OneAccountPerEmail' /\ Asked'
    BY <2>1, <2>2 DEF Members!OneAccountPerEmail, Asked, Members!Moves
  <2> QED
    BY <2>3, <2>4, <2>5, <2>6, <2>7
<1>7. ASSUME NEW c \in Request, Members!CutShort(c) PROVE MembersInv'
  <2>1. /\ call[c].at \in {"find", "create", "role", "invite", "insert"}
        /\ call' = [call EXCEPT ![c].at = "refused"]
        /\ UNCHANGED <<tenants, account, member>>
        /\ spoilt \subseteq spoilt' /\ c \in spoilt'
    BY <1>7 DEF Members!CutShort, Members!Spoil
  <2>2. account[c] = None \/ account[c].email = call[c].email
    <3>1. \A r : AccountOf(c, r).email = call[c].email
      BY DEF AccountOf
    <3> QED
      BY <2>1, <3>1 DEF MembersProgress
  <2> QED
    BY <2>1, <2>2, MemberRequestStep DEF MemberSteps, MembersTypeInv, Members!OneAccountPerEmail
<1>8. ASSUME NEW t \in Tenant, Members!RemoveTenant(t) PROVE MembersInv'
  <2>1. /\ tenants' = tenants \ {t} /\ member' = {m \in member : m.tenant # t}
        /\ UNCHANGED <<call, account, spoilt>>
    BY <1>8 DEF Members!RemoveTenant, Members!Well
  <2>2. /\ MembersTypeInv' /\ Asked' /\ MembersProgress' /\ RowsFromCalls'
        /\ Members!OneAccountPerEmail'
    BY <2>1 DEF MembersTypeInv, Asked, MembersProgress, AccountOf, RowsFromCalls,
         Members!OneAccountPerEmail
  <2>3. Recording'
    <3>1. \A m \in member' : m.tenant \in tenants'
      BY <2>1 DEF Recording
    <3>2. ASSUME NEW c \in Request, call[c].at = "created", c \notin spoilt,
                 call[c].tenant \in tenants'
          PROVE \E m \in member' : m.user = c
      <4>1. PICK m \in member : m.user = c
        BY <2>1, <3>2 DEF Recording
      <4>2. m.tenant = call[c].tenant
        BY <4>1 DEF RowsFromCalls
      <4> QED
        BY <2>1, <3>2, <4>1, <4>2
    <3> QED
      BY <2>1, <3>1, <3>2 DEF Recording
  <2> QED
    BY <2>2, <2>3
<1>9. CASE UNCHANGED Members!memberVars
  BY <1>9 DEF Members!memberVars, MembersTypeInv, Asked, MembersProgress, AccountOf,
       RowsFromCalls, Recording, Members!OneAccountPerEmail
<1> QED
  BY <1>1, <1>2, <1>3, <1>4, <1>5, <1>6, <1>7, <1>8, <1>9 DEF Members!MembersNext

-----------------------------------------------------------------------------
(* The endpoints of the other devices *)

Filing == {"touch", "insert", "publish"}

Handling == [at : Filing \cup {"idle", "register", "report"}, n : Nat,
            row : IoT!Row \cup {None}, tenant : {d.tenant : d \in Gadget} \cup {None},
            due : IoT!Identity \cup {None}]

Letter == [n : Nat, row : IoT!Row \cup {None}, tenant : {d.tenant : d \in Gadget} \cup {None},
           due : IoT!Identity \cup {None}]

EndpointTypeInv ==
    /\ endpoint \in [IoT!Row -> IoT!Identity \cup {None}] /\ made \in Nat
    /\ \A r \in IoT!Row : endpoint[r] # None => r <= made
    /\ work \in [Gadget -> Handling]
    /\ link \in [Gadget -> IoT!Label \cup {None}]
    /\ telemetry \subseteq Letter
    /\ sent \in Nat

\* What is filed under row r for the tenant t is due to e, if anything.
Meant(r, t, e) == e # None => t = e.tenant /\ (endpoint[r] # None => endpoint[r] = e)

InHand ==
    \A d \in Gadget :
      /\ work[d].at \in {"register", "report"} => d.protocol = "lwm2m"
      /\ work[d].at = "report" => link[d] # None
      /\ work[d].at \in Filing =>
            work[d].row \in IoT!Row /\ work[d].row <= made
            /\ Meant(work[d].row, work[d].tenant, work[d].due)
      /\ link[d] # None => link[d].protocol = d.protocol /\ link[d].name = d.name

FiledRight ==
    \A m \in telemetry :
      /\ m.row # None => m.row <= made /\ endpoint[m.row] # None
      /\ m.due # None => m.tenant = m.due.tenant /\ (m.row # None => endpoint[m.row] = m.due)

Supported(e) == \E m \in telemetry : m.n = e.n /\ m.tenant = e.tenant /\ m.row \in {e.row, None}

ToldRight ==
    /\ \A e \in told : Supported(e)
    /\ \A d \in Gadget : work[d].at = "publish" => Supported(work[d])

EndpointInv == EndpointTypeInv /\ InHand /\ FiledRight /\ ToldRight

\* The invariant contains what is claimed.
LEMMA EndpointsInPlace == EndpointInv => IoT!TelemetryInPlace
BY DEF EndpointInv, FiledRight, ToldRight, Supported, IoT!TelemetryInPlace, IoT!FiledWhereMeant,
     IoT!EventsRestOnRows

LEMMA EndpointInitInv ==
    ASSUME IoT!DevicesAssumption, IoT!EndpointInit
    PROVE  EndpointInv
BY DEF IoT!DevicesAssumption, IoT!EndpointInit, IoT!AtRest, EndpointInv, EndpointTypeInv,
     Handling, InHand, FiledRight, ToldRight, Filing

\* The two forms of a name.
LEMMA OtherForm ==
    ASSUME NEW n \in IoT!Label
    PROVE  /\ IoT!Other(n) \in IoT!Label /\ IoT!Other(n).protocol = n.protocol
           /\ IoT!Other(n).name = n.name
           /\ IoT!Other(n).urn = ~n.urn /\ IoT!Other(IoT!Other(n)) = n
BY DEF IoT!Label, IoT!Other

\* Who finds a row by a name the device goes by finds what is due to it.
LEMMA FoundIsDue ==
    ASSUME IoT!DevicesAssumption, EndpointTypeInv, NEW d \in Gadget,
           NEW n \in IoT!Label, n.protocol = d.protocol, n.name = d.name,
           NEW r \in IoT!Row, endpoint[r] # None,
           \/ IoT!Name(endpoint[r]) = n
           \/ IoT!Named(n) = {} /\ IoT!Name(endpoint[r]) = IoT!Other(n),
           IoT!Due(d, n) # None
    PROVE  endpoint[r] = IoT!Due(d, n) /\ IoT!Due(d, n) \in IoT!Identity
<1> DEFINE meant == IF IoT!Named(IoT!Name(d)) # {} THEN IoT!Name(d) ELSE IoT!Other(IoT!Name(d))
           bearers == IoT!Named(IoT!Name(d)) \cup IoT!Named(IoT!Other(IoT!Name(d)))
<1>1. /\ n = meant \/ IoT!Named(n) = {}
      /\ \A b \in bearers : endpoint[b].tenant = d.tenant
      /\ IoT!Due(d, n) = [d EXCEPT !.urn = meant.urn]
  BY DEF IoT!Due
<1>2. d \in IoT!Identity /\ endpoint[r] \in IoT!Identity
  BY DEF IoT!DevicesAssumption, EndpointTypeInv
<1>3. n = IoT!Name(d) \/ n = IoT!Other(IoT!Name(d))
  BY <1>2 DEF IoT!Label, IoT!Name, IoT!Other, IoT!Identity
<1>4. IoT!Name(d) \in IoT!Label /\ IoT!Other(IoT!Other(IoT!Name(d))) = IoT!Name(d)
  <2>1. IoT!Name(d) \in IoT!Label
    BY <1>2 DEF IoT!Name, IoT!Identity, IoT!Label
  <2> QED
    BY <2>1, OtherForm
<1>5. r \in bearers /\ IoT!Name(endpoint[r]) = meant
  <2>1. CASE IoT!Name(endpoint[r]) = n
    <3>1. r \in IoT!Named(n)
      BY <2>1 DEF IoT!Named
    <3>2. n = meant
      BY <1>1, <3>1
    <3> QED
      BY <1>3, <2>1, <3>1, <3>2
  <2>2. CASE IoT!Named(n) = {} /\ IoT!Name(endpoint[r]) = IoT!Other(n)
    <3>1. r \in IoT!Named(IoT!Other(n))
      BY <2>2 DEF IoT!Named
    <3> QED
      BY <1>3, <1>4, <2>2, <3>1
  <2> QED
    BY <2>1, <2>2
<1>6. endpoint[r].tenant = d.tenant
  BY <1>1, <1>5
<1>7. meant \in IoT!Label /\ meant.protocol = d.protocol /\ meant.name = d.name
  BY <1>2 DEF IoT!Label, IoT!Name, IoT!Other, IoT!Identity
<1> HIDE DEF meant
<1>8. /\ IoT!Due(d, n) \in IoT!Identity /\ IoT!Due(d, n).tenant = d.tenant
      /\ IoT!Due(d, n).protocol = d.protocol
      /\ IoT!Due(d, n).name = d.name /\ IoT!Due(d, n).urn = meant.urn
  BY <1>1, <1>2, <1>7 DEF IoT!Identity, IoT!Label
<1>9. endpoint[r].protocol = d.protocol /\ endpoint[r].name = d.name /\ endpoint[r].urn = meant.urn
  BY <1>2, <1>5, <1>7 DEF IoT!Name
<1> QED
  BY <1>2, <1>6, <1>8, <1>9 DEF IoT!Identity

\* A step of the device d that leaves the endpoints alone.
LEMMA DeviceStep ==
    ASSUME EndpointInv, NEW d \in Gadget, NEW w \in Handling,
           work' = [work EXCEPT ![d] = w], UNCHANGED <<endpoint, made>>,
           NEW l \in IoT!Label \cup {None}, link' = [link EXCEPT ![d] = l],
           l # None => l.protocol = d.protocol /\ l.name = d.name,
           sent' \in Nat, telemetry \subseteq telemetry', telemetry' \subseteq Letter,
           w.at \in {"register", "report"} => d.protocol = "lwm2m",
           w.at = "report" => l # None,
           w.at \in Filing => w.row \in IoT!Row /\ w.row <= made /\ Meant(w.row, w.tenant, w.due),
           w.at = "publish" => Supported(w)',
           FiledRight', \A e \in told' : Supported(e)'
    PROVE  EndpointInv'
<1> USE DEF EndpointInv
<1>1. EndpointTypeInv'
  BY DEF EndpointTypeInv, Handling, Letter
<1>2. /\ work'[d] = w /\ link'[d] = l
      /\ \A e \in Gadget : e # d => work'[e] = work[e] /\ link'[e] = link[e]
  BY DEF EndpointTypeInv
<1>3. InHand'
  <2> SUFFICES ASSUME NEW e \in Gadget
               PROVE  /\ work'[e].at \in {"register", "report"} => e.protocol = "lwm2m"
                      /\ work'[e].at = "report" => link'[e] # None
                      /\ work'[e].at \in Filing =>
                            work'[e].row \in IoT!Row /\ work'[e].row <= made
                            /\ Meant(work'[e].row, work'[e].tenant, work'[e].due)
                      /\ link'[e] # None =>
                            link'[e].protocol = e.protocol /\ link'[e].name = e.name
    BY DEF InHand, Meant
  <2>1. CASE e = d
    BY <1>2, <2>1
  <2>2. CASE e # d
    BY <1>2, <2>2 DEF InHand
  <2> QED
    BY <2>1, <2>2
<1>4. ToldRight'
  <2> SUFFICES ASSUME NEW e \in Gadget, work'[e].at = "publish"
               PROVE  Supported(work[e])'
    BY DEF ToldRight, Supported
  <2>1. CASE e = d
    BY <1>2, <2>1 DEF Supported
  <2>2. CASE e # d
    BY <1>2, <2>2 DEF ToldRight, Supported
  <2> QED
    BY <2>1, <2>2
<1> QED
  BY <1>1, <1>3, <1>4

\* A row is found, and what the device sent is to be filed under it.
LEMMA HandlingStep ==
    ASSUME IoT!DevicesAssumption, EndpointInv, NEW d \in Gadget,
           NEW n \in IoT!Label, n.protocol = d.protocol, n.name = d.name,
           NEW r \in IoT!Row, endpoint[r] # None,
           IoT!Name(endpoint[r]) \in {n, IoT!Other(n)},
           NEW due, due # None => due = IoT!Due(d,
           n) /\ (IoT!Name(endpoint[r]) = n \/ IoT!Named(n) = {}),
           UNCHANGED <<endpoint, made, telemetry, told>>,
           NEW l \in IoT!Label \cup {None}, link' = [link EXCEPT ![d] = l],
           l # None => l.protocol = d.protocol /\ l.name = d.name,
           IoT!Handle(d, r, due)
    PROVE  EndpointInv'
<1> DEFINE w == [at |-> "touch", n |-> sent', row |-> r, tenant |-> endpoint[r].tenant,
                 due |-> due]
<1>1. endpoint[r] \in IoT!Identity /\ r <= made
  BY DEF EndpointInv, EndpointTypeInv
<1>2. due # None => endpoint[r] = due /\ due \in IoT!Identity
  BY FoundIsDue DEF EndpointInv
<1>3. w \in Handling /\ work' = [work EXCEPT ![d] = w] /\ sent' \in Nat
  BY <1>1, <1>2 DEF IoT!Handle, Handling, EndpointInv, EndpointTypeInv, IoT!Identity, Filing
<1>4. w.at = "touch" /\ w.row = r /\ w.tenant = endpoint[r].tenant /\ w.due = due
  OBVIOUS
<1>5. Meant(w.row, w.tenant, w.due)
  BY <1>2, <1>4 DEF Meant
<1>6. FiledRight' /\ (\A e \in told' : Supported(e)') /\ telemetry' \subseteq Letter
  BY DEF EndpointInv, FiledRight, ToldRight, Supported, EndpointTypeInv, Letter
<1> HIDE DEF w
<1> QED
  BY <1>1, <1>3, <1>4, <1>5, <1>6, DeviceStep

\* Nothing is found, or the device rests.
LEMMA MoveStep ==
    ASSUME EndpointInv, NEW d \in Gadget, NEW w \in Handling,
           work' = [work EXCEPT ![d] = w],
           UNCHANGED <<endpoint, made, telemetry, told, sent>>,
           NEW l \in IoT!Label \cup {None}, link' = [link EXCEPT ![d] = l],
           l # None => l.protocol = d.protocol /\ l.name = d.name,
           w.at \in {"register", "report"} => d.protocol = "lwm2m",
           w.at = "report" => l # None,
           w.at \notin Filing
    PROVE  EndpointInv'
<1>1. FiledRight' /\ (\A e \in told' : Supported(e)') /\ telemetry' \subseteq Letter
  BY DEF EndpointInv, FiledRight, ToldRight, Supported, EndpointTypeInv, Letter
<1> QED
  BY <1>1, DeviceStep DEF EndpointInv, EndpointTypeInv, Filing

\* What the device holds, and its request moved to another step.
LEMMA DeviceState ==
    ASSUME IoT!DevicesAssumption, EndpointTypeInv, NEW d \in Gadget
    PROVE  /\ link = [link EXCEPT ![d] = link[d]] /\ link[d] \in IoT!Label \cup {None}
           /\ work = [work EXCEPT ![d] = work[d]] /\ work[d] \in Handling
           /\ IoT!AtRest \in Handling /\ IoT!AtRest.at = "idle"
           /\ IoT!Name(d) \in IoT!Label /\ IoT!Name(d).protocol = d.protocol
           /\ IoT!Name(d).name = d.name
           /\ \A r \in IoT!Row : endpoint[r] # None =>
                endpoint[r] \in IoT!Identity /\ IoT!Name(endpoint[r]) \in IoT!Label
<1>1. link = [link EXCEPT ![d] = link[d]] /\ link[d] \in IoT!Label \cup {None}
  BY DEF EndpointTypeInv
<1>2. work = [work EXCEPT ![d] = work[d]] /\ work[d] \in Handling
  BY DEF EndpointTypeInv
<1>3. IoT!AtRest \in Handling /\ IoT!AtRest.at = "idle"
  BY DEF IoT!AtRest, Handling
<1>4. \A i \in IoT!Identity :
         IoT!Name(i) \in IoT!Label /\ IoT!Name(i).protocol = i.protocol /\ IoT!Name(i).name = i.name
  BY DEF IoT!Identity, IoT!Label, IoT!Name
<1>5. /\ d \in IoT!Identity
      /\ \A r \in IoT!Row : endpoint[r] # None => endpoint[r] \in IoT!Identity
  BY DEF IoT!DevicesAssumption, EndpointTypeInv
<1> QED
  BY <1>1, <1>2, <1>3, <1>4, <1>5

Becomes(d, w) == work' = [work EXCEPT ![d] = w]

\* A request that goes to its next step keeps what it knows.
LEMMA Moved ==
    ASSUME EndpointTypeInv, NEW d \in Gadget,
           NEW to \in Filing \cup {"idle", "register", "report"},
           IoT!Goes(d, to)
    PROVE  \E w \in Handling :
             /\ Becomes(d, w) /\ w.at = to
             /\ w.n = work[d].n /\ w.row = work[d].row /\ w.tenant = work[d].tenant
             /\ w.due = work[d].due
<1> DEFINE w == [work[d] EXCEPT !.at = to]
<1>1. ASSUME NEW q \in Handling
      PROVE  LET v == [q EXCEPT !.at = to]
             IN  /\ v \in Handling /\ v.at = to /\ v.n = q.n /\ v.row = q.row
                 /\ v.tenant = q.tenant /\ v.due = q.due
  BY DEF Handling
<1>2. work[d] \in Handling
  BY DEF EndpointTypeInv
<1>3. Becomes(d, w)
  BY DEF Becomes, IoT!Goes
<1> QED
  BY <1>1, <1>2, <1>3

\* A device whose request is over, or stays as it is.
LEMMA RestStep ==
    ASSUME IoT!DevicesAssumption, EndpointInv, NEW d \in Gadget, NEW w \in {IoT!AtRest, work[d]},
           work' = [work EXCEPT ![d] = w], w.at = "idle",
           UNCHANGED <<endpoint, made, link, sent, telemetry, told>>
    PROVE  EndpointInv'
<1>1. w \in Handling
  BY DeviceState DEF EndpointInv
<1>2. link' = [link EXCEPT ![d] = link[d]] /\ link[d] \in IoT!Label \cup {None}
  BY DeviceState DEF EndpointInv
<1>3. link[d] # None => link[d].protocol = d.protocol /\ link[d].name = d.name
  BY DEF EndpointInv, InHand
<1> QED
  BY <1>1, <1>2, <1>3, MoveStep DEF Filing

LEMMA SessionStep ==
    ASSUME IoT!DevicesAssumption, EndpointInv, NEW d \in Gadget, IoT!Connect(d) \/ IoT!Disconnect(d)
    PROVE  EndpointInv'
<1>1. /\ IoT!Idle(d) /\ UNCHANGED <<endpoint, made, work, sent, telemetry, told>>
      /\ \E l \in {IoT!Name(d), None} : link' = [link EXCEPT ![d] = l]
  BY DEF IoT!Connect, IoT!Disconnect, IoT!registry, IoT!traffic
<1>2. PICK l \in {IoT!Name(d), None} : link' = [link EXCEPT ![d] = l]
  BY <1>1
<1>3. work' = [work EXCEPT ![d] = work[d]] /\ work[d] \in Handling /\ work[d].at = "idle"
  BY <1>1, DeviceState DEF EndpointInv, IoT!Idle
<1>4. l \in IoT!Label \cup {None} /\ (l # None => l.protocol = d.protocol /\ l.name = d.name)
  BY DeviceState DEF EndpointInv
<1> QED
  BY <1>1, <1>2, <1>3, <1>4, MoveStep DEF Filing

\* A registration names the row that was found.
LEMMA LocationStep ==
    ASSUME IoT!DevicesAssumption, EndpointInv, NEW d \in Gadget,
           NEW n, n = IoT!Name(d), NEW r \in IoT!Row, endpoint[r] # None,
           IoT!Name(endpoint[r]) \in {n, IoT!Other(n)},
           NEW due, due # None => due = IoT!Due(d,
           n) /\ (IoT!Name(endpoint[r]) = n \/ IoT!Named(n) = {}),
           UNCHANGED <<endpoint, made, telemetry, told>>,
           IoT!GiveLocation(d, r, due)
    PROVE  EndpointInv'
<1> DEFINE l == IoT!Name(endpoint[r])
<1>1. /\ IoT!Name(d) \in IoT!Label /\ IoT!Name(d).protocol = d.protocol /\ IoT!Name(d).name = d.name
      /\ l \in IoT!Label /\ IoT!AtRest \in Handling /\ IoT!AtRest.at = "idle"
  BY DeviceState DEF EndpointInv
<1>2. l.protocol = d.protocol /\ l.name = d.name
  BY <1>1, OtherForm
<1>3. link' = [link EXCEPT ![d] = l]
  BY DEF IoT!GiveLocation
<1> HIDE DEF l
<1>4. CASE IoT!Handle(d, r, due)
  BY <1>1, <1>2, <1>3, <1>4, HandlingStep
<1>5. CASE IoT!Done(d) /\ UNCHANGED sent
  BY <1>1, <1>2, <1>3, <1>5, MoveStep DEF IoT!Done, Filing
<1> QED
  BY <1>4, <1>5 DEF IoT!GiveLocation

\* What is found by the first form of a name, and by the second, is due.
LEMMA RegisterStep ==
    ASSUME IoT!DevicesAssumption, EndpointInv, NEW d \in Gadget, IoT!Register(d)
    PROVE  EndpointInv'
<1>1. UNCHANGED <<endpoint, made, telemetry, told>> /\ d.protocol = "lwm2m"
  BY DEF IoT!Register, IoT!registry, IoT!traffic
<1>2. IoT!First(IoT!Name(d)) = IoT!Named(IoT!Name(d))
  BY <1>1 DEF IoT!First, IoT!Candidates, IoT!Name
<1>3. ASSUME NEW r \in IoT!First(IoT!Name(d)), IoT!GiveLocation(d, r, IoT!Due(d, IoT!Name(d)))
      PROVE  EndpointInv'
  <2>1. r \in IoT!Row /\ endpoint[r] # None /\ IoT!Name(endpoint[r]) = IoT!Name(d)
    BY <1>2 DEF IoT!Named
  <2> QED
    BY <1>1, <1>3, <2>1, LocationStep
<1>4. CASE IoT!Goes(d, "register") /\ UNCHANGED <<link, sent>>
  <2>1. link' = [link EXCEPT ![d] = link[d]] /\ link[d] \in IoT!Label \cup {None}
    BY <1>4, DeviceState DEF EndpointInv
  <2>2. link[d] # None => link[d].protocol = d.protocol /\ link[d].name = d.name
    BY DEF EndpointInv, InHand
  <2>3. PICK w \in Handling : Becomes(d, w) /\ w.at = "register"
    BY <1>4, Moved DEF EndpointInv
  <2> QED
    BY <1>1, <1>4, <2>1, <2>2, <2>3, MoveStep DEF Filing, Becomes
<1> QED
  BY <1>3, <1>4 DEF IoT!Register

LEMMA RegisterSecondStep ==
    ASSUME IoT!DevicesAssumption, EndpointInv, NEW d \in Gadget, IoT!RegisterSecond(d)
    PROVE  EndpointInv'
<1> DEFINE n == IoT!Name(d)
<1>1. UNCHANGED <<endpoint, made, telemetry, told>> /\ d.protocol = "lwm2m"
  BY DEF IoT!RegisterSecond, IoT!registry, IoT!traffic, EndpointInv, InHand
<1>2. IoT!Candidates(n)[2] = IoT!Other(n)
  BY <1>1 DEF IoT!Candidates, IoT!Name
<1>3. ASSUME NEW r \in IoT!Named(IoT!Other(n)), IoT!GiveLocation(d, r, IoT!DueLate(d, n))
      PROVE  EndpointInv'
  <2>1. r \in IoT!Row /\ endpoint[r] # None /\ IoT!Name(endpoint[r]) = IoT!Other(n)
    BY DEF IoT!Named
  <2>2. IoT!DueLate(d, n) # None => IoT!DueLate(d, n) = IoT!Due(d, n) /\ IoT!Named(n) = {}
    BY DEF IoT!DueLate
  <2> QED
    BY <1>1, <1>3, <2>1, <2>2, LocationStep
<1>4. CASE IoT!Done(d) /\ UNCHANGED <<link, sent>>
  BY <1>1, <1>4, RestStep, DeviceState DEF IoT!Done, EndpointInv
<1> QED
  BY <1>2, <1>3, <1>4 DEF IoT!RegisterSecond

LEMMA ReportStep ==
    ASSUME IoT!DevicesAssumption, EndpointInv, NEW d \in Gadget, IoT!Report(d)
    PROVE  EndpointInv'
<1> DEFINE n == link[d]
<1>1. UNCHANGED <<endpoint, made, link, telemetry, told>> /\ n # None
  BY DEF IoT!Report, IoT!registry, IoT!traffic
<1>2. n \in IoT!Label /\ n.protocol = d.protocol /\ n.name = d.name
  BY <1>1, DeviceState DEF EndpointInv, InHand
<1>3. IoT!First(n) = IoT!Named(n)
  BY DEF IoT!First, IoT!Candidates
<1>4. link' = [link EXCEPT ![d] = n]
  BY <1>1, DeviceState DEF EndpointInv
<1>5. ASSUME NEW r \in IoT!First(n), IoT!Handle(d, r, IoT!Due(d, n))
      PROVE  EndpointInv'
  <2>1. r \in IoT!Row /\ endpoint[r] # None /\ IoT!Name(endpoint[r]) = n
    BY <1>3 DEF IoT!Named
  <2> QED
    BY <1>1, <1>2, <1>4, <1>5, <2>1, HandlingStep
<1>6. CASE d.protocol = "lwm2m" /\ IoT!Goes(d, "report") /\ UNCHANGED sent
  <2>1. PICK w \in Handling : Becomes(d, w) /\ w.at = "report"
    BY <1>6, Moved DEF EndpointInv
  <2> QED
    BY <1>1, <1>2, <1>4, <1>6, <2>1, MoveStep DEF Filing, Becomes
<1> QED
  BY <1>5, <1>6 DEF IoT!Report

LEMMA ReportSecondStep ==
    ASSUME IoT!DevicesAssumption, EndpointInv, NEW d \in Gadget, IoT!ReportSecond(d)
    PROVE  EndpointInv'
<1> DEFINE n == link[d]
<1>1. /\ UNCHANGED <<endpoint, made, link, telemetry, told>> /\ d.protocol = "lwm2m"
      /\ n # None
  BY DEF IoT!ReportSecond, IoT!registry, IoT!traffic, EndpointInv, InHand
<1>2. n \in IoT!Label /\ n.protocol = d.protocol /\ n.name = d.name
  BY <1>1, DeviceState DEF EndpointInv, InHand
<1>3. IoT!Candidates(n)[2] = IoT!Other(n)
  BY <1>1, <1>2 DEF IoT!Candidates
<1>4. link' = [link EXCEPT ![d] = n]
  BY <1>1, DeviceState DEF EndpointInv
<1>5. ASSUME NEW r \in IoT!Named(IoT!Other(n)), IoT!Handle(d, r, IoT!DueLate(d, n))
      PROVE  EndpointInv'
  <2>1. r \in IoT!Row /\ endpoint[r] # None /\ IoT!Name(endpoint[r]) = IoT!Other(n)
    BY DEF IoT!Named
  <2>2. IoT!DueLate(d, n) # None => IoT!DueLate(d, n) = IoT!Due(d, n) /\ IoT!Named(n) = {}
    BY DEF IoT!DueLate
  <2> QED
    BY <1>1, <1>2, <1>4, <1>5, <2>1, <2>2, HandlingStep
<1>6. CASE IoT!Done(d) /\ UNCHANGED sent
  BY <1>1, <1>6, RestStep, DeviceState DEF IoT!Done, EndpointInv
<1> QED
  BY <1>3, <1>5, <1>6 DEF IoT!ReportSecond

\* Between the look-up and the event.
LEMMA TouchStep ==
    ASSUME IoT!DevicesAssumption, EndpointInv, NEW d \in Gadget, IoT!TouchLastSeen(d)
    PROVE  EndpointInv'
<1>1. /\ UNCHANGED <<endpoint, made, link, sent, telemetry, told>>
      /\ work[d].at = "touch" /\ IoT!Goes(d, "insert")
  BY DEF IoT!TouchLastSeen, IoT!registry
<1>2. PICK w \in Handling :
        /\ Becomes(d, w) /\ w.at = "insert"
        /\ w.row = work[d].row /\ w.tenant = work[d].tenant /\ w.due = work[d].due
  BY <1>1, Moved DEF Filing, EndpointInv
<1>3. link' = [link EXCEPT ![d] = link[d]] /\ link[d] \in IoT!Label \cup {None}
  BY <1>1, DeviceState DEF EndpointInv
<1>4. /\ link[d] # None => link[d].protocol = d.protocol /\ link[d].name = d.name
      /\ w.row \in IoT!Row /\ w.row <= made /\ Meant(w.row, w.tenant, w.due)
  BY <1>1, <1>2 DEF EndpointInv, InHand, Filing
<1>5. /\ FiledRight' /\ (\A e \in told' : Supported(e)') /\ telemetry' \subseteq Letter
      /\ telemetry \subseteq telemetry' /\ sent' \in Nat
  BY <1>1 DEF EndpointInv, FiledRight, ToldRight, Supported, EndpointTypeInv
<1> QED
  BY <1>1, <1>2, <1>3, <1>4, <1>5, DeviceStep DEF Becomes

\* A message is stored under the row that was found, if that is still there.
LEMMA InsertTelemetryStep ==
    ASSUME IoT!DevicesAssumption, EndpointInv, NEW d \in Gadget, IoT!InsertTelemetry(d)
    PROVE  EndpointInv'
<1> DEFINE m == IoT!Message(d)
<1>1. /\ UNCHANGED <<endpoint, made, link, sent, told>> /\ work[d].at = "insert"
      /\ \/ telemetry' = telemetry /\ IoT!Done(d)
         \/ /\ telemetry' = telemetry \cup {m} /\ endpoint[work[d].row] # None
            /\ IoT!Done(d) \/ IoT!Goes(d, "publish")
  BY DEF IoT!InsertTelemetry, IoT!registry
<1>2. /\ m \in Letter /\ m.n = work[d].n /\ m.row = work[d].row /\ m.tenant = work[d].tenant
      /\ m.due = work[d].due /\ work[d] \in Handling
  BY DeviceState DEF IoT!Message, Letter, Handling, EndpointInv
<1> HIDE DEF m
<1>3. m.row \in IoT!Row /\ m.row <= made /\ Meant(m.row, m.tenant, m.due)
  BY <1>1, <1>2 DEF EndpointInv, InHand, Filing
<1>4. CASE telemetry' = telemetry /\ IoT!Done(d)
  BY <1>1, <1>4, RestStep, DeviceState DEF IoT!Done, EndpointInv
<1>5. CASE /\ telemetry' = telemetry \cup {m} /\ endpoint[work[d].row] # None
           /\ IoT!Done(d) \/ IoT!Goes(d, "publish")
  <2> DEFINE v == [work[d] EXCEPT !.at = "publish"]
  <2>1. /\ v \in Handling /\ v.at = "publish" /\ v.n = m.n /\ v.row = m.row
        /\ v.tenant = m.tenant /\ v.due = m.due
    BY <1>2, DeviceState DEF EndpointInv, Handling, Filing
  <2>2. PICK w \in {IoT!AtRest, v} : work' = [work EXCEPT ![d] = w]
    BY <1>2, <1>5 DEF IoT!Done, IoT!Goes, EndpointInv, EndpointTypeInv, Handling
  <2> HIDE DEF v
  <2>3. w \in Handling /\ w.at \in {"idle", "publish"} /\ (w.at = "publish" => w = v)
    BY <2>1, <2>2, DeviceState DEF EndpointInv
  <2>4. FiledRight'
    BY <1>1, <1>2, <1>3, <1>5 DEF EndpointInv, FiledRight, Meant
  <2>5. /\ \A e \in told' : Supported(e)'
        /\ telemetry' \subseteq Letter /\ telemetry \subseteq telemetry' /\ sent' \in Nat
    BY <1>1, <1>2, <1>5 DEF EndpointInv, ToldRight, Supported, EndpointTypeInv
  <2>6. w.at = "publish" => Supported(w)'
    BY <1>5, <2>1, <2>3 DEF Supported
  <2>7. link' = [link EXCEPT ![d] = link[d]] /\ link[d] \in IoT!Label \cup {None}
    BY <1>1, DeviceState DEF EndpointInv
  <2>8. link[d] # None => link[d].protocol = d.protocol /\ link[d].name = d.name
    BY DEF EndpointInv, InHand
  <2>9. w.at \in Filing => w.row \in IoT!Row /\ w.row <= made /\ Meant(w.row, w.tenant, w.due)
    BY <1>3, <2>1, <2>3 DEF Filing
  <2>10. w.at \notin {"register", "report"}
    BY <2>3
  <2> QED
    BY <1>1, <2>2, <2>3, <2>4, <2>5, <2>6, <2>7, <2>8, <2>9, <2>10, DeviceStep
<1> QED
  BY <1>1, <1>4, <1>5

\* What is told was stored.
LEMMA PublishStep ==
    ASSUME IoT!DevicesAssumption, EndpointInv, NEW d \in Gadget, IoT!PublishTelemetry(d)
    PROVE  EndpointInv'
<1>1. /\ UNCHANGED <<endpoint, made, link, sent, telemetry>> /\ work[d].at = "publish"
      /\ work' = [work EXCEPT ![d] = IoT!AtRest]
      /\ told' = told \/ IoT!Tell(d)
  BY DEF IoT!PublishTelemetry, IoT!registry, IoT!Done
<1>2. IoT!AtRest \in Handling /\ IoT!AtRest.at = "idle"
  BY DeviceState DEF EndpointInv
<1>3. \A e \in told' : Supported(e)'
  <2>1. Supported(work[d])
    BY <1>1 DEF EndpointInv, ToldRight
  <2> QED
    BY <1>1, <2>1 DEF EndpointInv, ToldRight, Supported, IoT!Tell
<1>4. link' = [link EXCEPT ![d] = link[d]] /\ link[d] \in IoT!Label \cup {None}
  BY <1>1, DeviceState DEF EndpointInv
<1>5. link[d] # None => link[d].protocol = d.protocol /\ link[d].name = d.name
  BY DEF EndpointInv, InHand
<1>6. FiledRight' /\ telemetry' \subseteq Letter /\ telemetry \subseteq telemetry' /\ sent' \in Nat
  BY <1>1 DEF EndpointInv, FiledRight, EndpointTypeInv
<1> QED
  BY <1>1, <1>2, <1>3, <1>4, <1>5, <1>6, DeviceStep DEF Filing

\* A new row is newer than every row that something refers to.
LEMMA CreateEndpointStep ==
    ASSUME IoT!DevicesAssumption, EndpointInv, IoT!CreateEndpoint
    PROVE  EndpointInv'
<1> USE DEF EndpointInv
<1>1. PICK d \in Gadget, u \in BOOLEAN :
        LET i == [d EXCEPT !.urn = u] IN
        made < MaxRows /\ made' = made + 1 /\ endpoint' = [endpoint EXCEPT ![made'] = i]
  BY DEF IoT!CreateEndpoint, IoT!Forms
<1>2. UNCHANGED <<link, work, sent, telemetry, told>>
  BY DEF IoT!CreateEndpoint, IoT!traffic
<1> DEFINE i == [d EXCEPT !.urn = u]
<1>3. i \in IoT!Identity
  BY DEF IoT!DevicesAssumption, IoT!Identity
<1>4. endpoint' = [endpoint EXCEPT ![made'] = i] /\ made' = made + 1 /\ made < MaxRows
  BY <1>1
<1> HIDE DEF i
<1>5. /\ made \in Nat /\ made' \in IoT!Row
      /\ \A r \in IoT!Row : r # made' => endpoint'[r] = endpoint[r]
      /\ endpoint'[made'] = i
  BY <1>4 DEF EndpointTypeInv, IoT!DevicesAssumption, IoT!Row
<1>6. EndpointTypeInv'
  BY <1>2, <1>3, <1>4, <1>5 DEF EndpointTypeInv, IoT!Row
<1>7. \A r \in IoT!Row : r <= made => endpoint'[r] = endpoint[r] /\ r <= made'
  BY <1>4, <1>5 DEF IoT!Row
<1>8. InHand'
  BY <1>2, <1>7 DEF InHand, Meant
<1>9. FiledRight'
  <2> SUFFICES ASSUME NEW m \in telemetry
               PROVE  /\ m.row # None => m.row <= made' /\ endpoint'[m.row] # None
                      /\ m.due # None =>
                            m.tenant = m.due.tenant /\ (m.row # None => endpoint'[m.row] = m.due)
    BY <1>2 DEF FiledRight
  <2>1. m.row \in IoT!Row \cup {None}
    BY DEF EndpointTypeInv, Letter
  <2> QED
    BY <1>7, <2>1 DEF FiledRight
<1>10. ToldRight'
  BY <1>2 DEF ToldRight, Supported
<1> QED
  BY <1>6, <1>8, <1>9, <1>10

\* A row that goes takes its name off the telemetry.
LEMMA DeleteEndpointStep ==
    ASSUME IoT!DevicesAssumption, EndpointInv, NEW r \in IoT!Row, IoT!DeleteEndpoint(r)
    PROVE  EndpointInv'
<1> USE DEF EndpointInv
<1> DEFINE Cut(m) == [m EXCEPT !.row = IF m.row = r THEN None ELSE m.row]
<1>1. /\ endpoint' = [endpoint EXCEPT ![r] = None] /\ UNCHANGED <<made, link, work, sent, told>>
      /\ telemetry' = {Cut(m) : m \in telemetry}
  BY DEF IoT!DeleteEndpoint
<1>2. \A q \in IoT!Row : q # r => endpoint'[q] = endpoint[q]
  BY <1>1 DEF EndpointTypeInv
<1>3. endpoint'[r] = None
  BY <1>1 DEF EndpointTypeInv
<1>4. ASSUME NEW m \in telemetry
      PROVE  /\ Cut(m) \in Letter /\ Cut(m).n = m.n /\ Cut(m).tenant = m.tenant
             /\ Cut(m).due = m.due /\ Cut(m).row = IF m.row = r THEN None ELSE m.row
             /\ m.row \in IoT!Row \cup {None}
  BY DEF EndpointTypeInv, Letter
<1> HIDE DEF Cut
<1>5. EndpointTypeInv'
  BY <1>1, <1>2, <1>3, <1>4 DEF EndpointTypeInv
<1>6. InHand'
  BY <1>1, <1>2, <1>3 DEF InHand, Meant
<1>7. FiledRight'
  <2> SUFFICES ASSUME NEW m \in telemetry
               PROVE  /\ Cut(m).row # None => Cut(m).row <= made /\ endpoint'[Cut(m).row] # None
                      /\ Cut(m).due # None =>
                            /\ Cut(m).tenant = Cut(m).due.tenant
                            /\ Cut(m).row # None => endpoint'[Cut(m).row] = Cut(m).due
    BY <1>1 DEF FiledRight
  <2> QED
    BY <1>2, <1>4 DEF FiledRight
<1>8. \A e : Supported(e) => Supported(e)'
  <2> SUFFICES ASSUME NEW e, Supported(e)
               PROVE  Supported(e)'
    OBVIOUS
  <2>1. PICK m \in telemetry : m.n = e.n /\ m.tenant = e.tenant /\ m.row \in {e.row, None}
    BY DEF Supported
  <2>2. Cut(m) \in telemetry'
    BY <1>1
  <2> QED
    BY <1>4, <2>1, <2>2 DEF Supported
<1>9. ToldRight'
  <2>1. \A e \in told' : Supported(e)'
    BY <1>1, <1>8 DEF ToldRight
  <2>2. ASSUME NEW d \in Gadget, work'[d].at = "publish"
        PROVE  Supported(work[d])'
    <3>1. PICK w : w = work[d]
      OBVIOUS
    <3>2. Supported(w)'
      BY <1>1, <1>8, <2>2, <3>1 DEF ToldRight
    <3> QED
      BY <1>1, <3>1, <3>2 DEF Supported
  <2> QED
    BY <2>1, <2>2 DEF ToldRight
<1> QED
  BY <1>5, <1>6, <1>7, <1>9

LEMMA RestartStep ==
    ASSUME IoT!DevicesAssumption, EndpointInv, IoT!RestartService
    PROVE  EndpointInv'
<1>1. /\ UNCHANGED <<endpoint, made, sent, telemetry, told>>
      /\ work' = [d \in Gadget |-> IoT!AtRest]
      /\ link' = [d \in Gadget |-> IF d.protocol = "mqtt" THEN None ELSE link[d]]
  BY DEF IoT!RestartService, IoT!registry, IoT!traffic
<1>2. IoT!AtRest \in Handling /\ IoT!AtRest.at = "idle"
  BY DEF IoT!AtRest, Handling
<1> HIDE DEF IoT!AtRest
<1>3. EndpointTypeInv'
  BY <1>1, <1>2 DEF EndpointInv, EndpointTypeInv
<1>4. InHand'
  BY <1>1, <1>2 DEF EndpointInv, InHand, Filing
<1>5. FiledRight' /\ ToldRight'
  BY <1>1, <1>2 DEF EndpointInv, FiledRight, ToldRight, Supported
<1> QED
  BY <1>3, <1>4, <1>5 DEF EndpointInv

\* Every step keeps the invariant.
LEMMA EndpointStepInv ==
    ASSUME IoT!DevicesAssumption, EndpointInv, [IoT!EndpointNext]_(IoT!endpointVars)
    PROVE  EndpointInv'
<1>1. ASSUME NEW d \in Gadget, IoT!Provision(d)
      PROVE  EndpointInv'
  BY <1>1 DEF IoT!Provision, IoT!traffic, EndpointInv, EndpointTypeInv, InHand, Meant,
       FiledRight, ToldRight, Supported
<1>2. CASE UNCHANGED IoT!endpointVars
  BY <1>2 DEF IoT!endpointVars, IoT!registry, IoT!traffic, EndpointInv, EndpointTypeInv, InHand,
       Meant, FiledRight,
     ToldRight, Supported
<1> QED
  BY <1>1, <1>2, CreateEndpointStep, RestartStep, DeleteEndpointStep, SessionStep, RegisterStep,
     RegisterSecondStep, ReportStep, ReportSecondStep, TouchStep, InsertTelemetryStep, PublishStep
     DEF IoT!EndpointNext

-----------------------------------------------------------------------------
(* The applications *)

AppSteps == {"idle", "scope", "call", "make", "owner", "file", "ended"}

AppJob == [at : AppSteps, kind : Apps!Kinds, user : [tenant : Network \cup {None},
chosen : Tenant \cup {None}],
        net : Network \cup {None}, todo : SUBSET Application, owner : Tenant \cup {None},
        sound : BOOLEAN]

AppsTypeInv ==
    /\ net \in [Tenant -> Network \cup {None, "new", "gone"}]
    /\ networks \subseteq Network
    /\ app \in [Application -> Network \cup {None, "gone"}]
    /\ filed \in [Application -> Tenant \cup {None}]
    /\ job \in [Request -> AppJob]
    /\ booted \subseteq Request \X Application

\* ChirpStack has no application without its tenant, and what is filed was made.
Placed ==
    /\ \A x \in Apps!Living : app[x] \in networks
    /\ \A x \in Application : filed[x] # None => app[x] # None

Dead(n) == n \in Network \ networks

\* What request j works on: applications of its network; and while it is sound,
\* this is the network of the tenant it acts for, or gone with its applications.
Fits(j) ==
    /\ j.at \in {"owner", "file"} =>
          \A x \in j.todo : app[x] # None /\ (j.net # None => app[x] \in {j.net, "gone"})
    /\ j.at \in {"call", "make", "owner", "file"} /\ j.user.chosen = None =>
          \/ j.net = j.user.tenant
          \/ j.net = DefaultNetwork /\ j.user.tenant # None /\ DefaultNetwork # None
    /\ j.at \in {"call", "make", "owner"} /\ j.sound =>
          \/ Dead(j.net)
          \/ j.user.chosen = None /\ j.net = Apps!EffectiveTenantID(j.user)
          \/ j.user.chosen # None /\ j.net # None /\ net[j.user.chosen] = j.net
    /\ j.at = "file" => j.owner \in Tenant
    /\ j.at = "file" /\ j.sound => Dead(j.net) \/ (j.net # None /\ net[j.owner] = j.net)

\* Request j will list x, or has it to file.
Covers(j, x) ==
    /\ j.net = app[x]
    /\ \/ j.at = "call" /\ j.kind = "list"
       \/ j.at \in {"owner", "file"} /\ x \in j.todo

Pending ==
    \A x \in Apps!Living : filed[x] = None =>
        Apps!Bearers(app[x]) = {} \/ x \in doubted \/ \E a \in Request : Covers(job[a], x)

Runs(j) == j.at \notin {"idle", "ended"} /\ j.kind = "bootstrap"

\* Bootstraps that run at the same time are noticed, and one that is about to
\* make an application has seen none that another made before.
Alone ==
    /\ \A a, b \in Request : a # b /\ Runs(job[a]) /\ Runs(job[b]) => {a, b} \subseteq met
    /\ \A p \in booted : job[p[1]].at \in {"owner", "file", "ended"} /\ app[p[2]] # None
    /\ \A p \in booted, b \in Request :
          /\ Runs(job[b]) /\ job[b].at = "make"
          /\ p[2] \in Apps!Living /\ app[p[2]] = job[b].net
          => {p[1], b} \subseteq met

AppsInv ==
    /\ AppsTypeInv /\ Placed /\ (\A a \in Request : Fits(job[a]))
    /\ Apps!FiledAtHome /\ Pending /\ Alone /\ Apps!OneIsEnough

\* The invariant contains what is claimed.
LEMMA AppsInPlace == AppsInv => Apps!ApplicationsInPlace
<1> SUFFICES ASSUME AppsInv
             PROVE  Apps!NoneUnfiled
  BY DEF AppsInv, Apps!ApplicationsInPlace
<1>1. ASSUME NEW a \in Request, NEW x, Covers(job[a], x)
      PROVE  Apps!Busy(a) /\ job[a].net = app[x]
  BY <1>1 DEF Covers, Apps!Busy
<1> QED
  BY <1>1 DEF AppsInv, Pending, Apps!NoneUnfiled

LEMMA AppsInitInv ==
    ASSUME Apps!AppsAssumption, Apps!AppsInit
    PROVE  AppsInv
<1>1. Apps!Unasked \in AppJob /\ Apps!Unasked.at = "idle"
  BY DEF Apps!Unasked, AppJob, AppSteps, Apps!Kinds
<1>2. AppsTypeInv
  BY <1>1 DEF Apps!AppsAssumption, Apps!AppsInit, AppsTypeInv
<1>3. Apps!Living = {}
  BY DEF Apps!AppsAssumption, Apps!AppsInit, Apps!Living
<1>4. \A a \in Request : job[a].at = "idle"
  BY <1>1 DEF Apps!AppsInit
<1>5. Placed /\ Apps!FiledAtHome /\ Pending /\ Apps!OneIsEnough
  BY <1>3 DEF Apps!AppsInit, Placed, Apps!FiledAtHome, Pending, Apps!OneIsEnough
<1>6. (\A a \in Request : Fits(job[a])) /\ Alone
  BY <1>4 DEF Apps!AppsInit, Fits, Alone, Runs
<1> QED
  BY <1>2, <1>5, <1>6 DEF AppsInv

\* A step of request a that leaves the tables alone.
LEMMA AppRequestStep ==
    ASSUME AppsInv, NEW a \in Request, NEW j \in AppJob, job' = [job EXCEPT ![a] = j],
           UNCHANGED <<net, networks, app, filed, booted>>,
           doubted \subseteq doubted', met \subseteq met',
           Fits(j),
           \A x \in Apps!Living : Covers(job[a], x) =>
              Covers(j, x) \/ x \in doubted' \/ Apps!Bearers(app[x]) = {} \/ filed[x] # None,
           Runs(j) => \A b \in Request \ {a} : Runs(job[b]) => {a, b} \subseteq met',
           job[a].at \in {"owner", "file", "ended"} => j.at \in {"owner", "file", "ended"},
           Runs(j) /\ j.at = "make" => Apps!Of(j.net) = {}
    PROVE  AppsInv'
<1> USE DEF AppsInv
<1>1. job'[a] = j /\ \A b \in Request : b # a => job'[b] = job[b]
  BY DEF AppsTypeInv
<1>2. AppsTypeInv' /\ Placed' /\ Apps!Living' = Apps!Living
  BY DEF AppsTypeInv, Placed, Apps!Living
<1>3. \A t, u : /\ Apps!Bearers(t)' = Apps!Bearers(t)
                /\ Apps!EffectiveTenantID(u)' = Apps!EffectiveTenantID(u)
  BY DEF Apps!Bearers, Apps!EffectiveTenantID, Apps!ByToken, Apps!Linked, Apps!Present
<1>4. ASSUME NEW k PROVE Fits(k)' <=> Fits(k)
  BY DEF Fits, Dead, Apps!EffectiveTenantID, Apps!ByToken, Apps!Linked, Apps!Present, Apps!Bearers
<1>5. \A b \in Request : Fits(job[b])'
  <2> SUFFICES ASSUME NEW b \in Request PROVE Fits(job[b])'
    OBVIOUS
  <2>1. PICK k : k = job'[b]
    OBVIOUS
  <2>2. Fits(k)
    BY <1>1, <2>1
  <2>3. Fits(k)'
    BY <1>4, <2>2
  <2> QED
    BY <2>1, <2>3
<1>6. Apps!FiledAtHome'
  BY <1>2 DEF Apps!FiledAtHome
<1>7. Pending'
  <2> SUFFICES ASSUME NEW x \in Apps!Living, filed[x] = None,
                      Apps!Bearers(app[x]) # {}, x \notin doubted'
               PROVE  \E b \in Request : Covers(job'[b], x)
    BY <1>2, <1>3 DEF Pending, Covers
  <2>1. PICK b \in Request : Covers(job[b], x)
    BY DEF Pending
  <2> QED
    BY <1>1, <2>1
<1>8. Alone' /\ Apps!OneIsEnough'
  <2>1. Apps!OneIsEnough'
    BY <1>2 DEF Apps!OneIsEnough
  <2>2. ASSUME NEW b \in Request, NEW c \in Request, b # c, Runs(job'[b]), Runs(job'[c])
        PROVE  {b, c} \subseteq met'
    BY <1>1, <2>2 DEF Alone
  <2>3. \A p \in booted' : job'[p[1]].at \in {"owner", "file", "ended"} /\ app'[p[2]] # None
    BY <1>1 DEF Alone
  <2>4. ASSUME NEW p \in booted', NEW b \in Request, Runs(job'[b]), job'[b].at = "make",
               p[2] \in Apps!Living', app'[p[2]] = job'[b].net
        PROVE  {p[1], b} \subseteq met'
    BY <1>1, <1>2, <2>4 DEF Alone, Apps!Of
  <2> QED
    BY <2>1, <2>2, <2>3, <2>4 DEF Alone, Runs
<1> QED
  BY <1>2, <1>5, <1>6, <1>7, <1>8

\* v is the request q with these fields.
Turned(v, q, at, n, todo, owner, sound) ==
    /\ v \in AppJob /\ v.kind = q.kind /\ v.user = q.user
    /\ v.at = at /\ v.net = n /\ v.todo = todo /\ v.owner = owner /\ v.sound = sound

\* The ways in which requests are rewritten.
LEMMA JobTurns ==
    ASSUME NEW q \in AppJob, NEW at \in AppSteps
    PROVE  /\ Turned([q EXCEPT !.at = at], q, at, q.net, q.todo, q.owner, q.sound)
           /\ Turned([q EXCEPT !.at = at, !.sound = FALSE], q, at, q.net, q.todo, q.owner, FALSE)
           /\ \A todo \in SUBSET Application :
                /\ Turned([[q EXCEPT !.at = at] EXCEPT !.todo = todo],
                          q, at, q.net, todo, q.owner, q.sound)
                /\ Turned([q EXCEPT !.todo = todo], q, q.at, q.net, todo, q.owner, q.sound)
           /\ \A t \in Tenant :
                /\ Turned([[q EXCEPT !.at = at] EXCEPT !.owner = t],
                          q, at, q.net, q.todo, t, q.sound)
                /\ Turned([[q EXCEPT !.at = at, !.sound = FALSE] EXCEPT !.owner = t],
                          q, at, q.net, q.todo, t, FALSE)
           /\ \A n \in Network \cup {None}, s \in BOOLEAN :
                Turned([q EXCEPT !.at = at, !.net = n, !.sound = s],
                       q, at, n, q.todo, q.owner, s)
BY DEF Turned, AppJob

\* A request begins.
LEMMA AskStep ==
    ASSUME Apps!AppsAssumption, AppsInv, NEW a \in Request, Apps!AskApps(a)
    PROVE  AppsInv'
<1>1. PICK u \in User, k \in Apps!Kinds :
        /\ job[a].at = "idle"
        /\ job' = [job EXCEPT ![a] = [Apps!Unasked EXCEPT !.at = "scope", !.kind = k, !.user = u]]
        /\ LET beside == {b \in Request \ {a} : Apps!Busy(b) /\ job[b].kind = "bootstrap"} IN
           met' = IF k = "bootstrap" /\ beside # {} THEN met \cup beside \cup {a} ELSE met
        /\ UNCHANGED <<net, networks, app, filed, booted, doubted>>
  BY DEF Apps!AskApps, Apps!Go, Apps!Tables, Apps!Sure
<1> DEFINE j == [Apps!Unasked EXCEPT !.at = "scope", !.kind = k, !.user = u]
<1>2. j \in AppJob /\ j.at = "scope" /\ j.kind = k
  BY DEF Apps!AppsAssumption, Apps!Unasked, AppJob, AppSteps, Apps!Kinds
<1>3. job' = [job EXCEPT ![a] = j]
  BY <1>1
<1> HIDE DEF j
<1>4. Fits(j)
  BY <1>2 DEF Fits
<1>5. ASSUME Runs(j), NEW b \in Request \ {a}, Runs(job[b])
      PROVE  {a, b} \subseteq met'
  BY <1>1, <1>2, <1>5 DEF Runs, Apps!Busy
<1>6. \A x \in Apps!Living : ~Covers(job[a], x)
  BY <1>1 DEF Covers
<1>7. met \subseteq met'
  BY <1>1
<1> QED
  BY <1>1, <1>2, <1>3, <1>4, <1>5, <1>6, <1>7, AppRequestStep

\* The same, once the request has been asked: nobody else's bootstrap is new.
LEMMA TurnStep ==
    ASSUME AppsInv, NEW a \in Request, NEW j \in AppJob, job' = [job EXCEPT ![a] = j],
           UNCHANGED <<net, networks, app, filed, booted, met>>,
           doubted \subseteq doubted', Fits(j),
           job[a].at \in {"scope", "call", "owner", "make", "file"}, j.kind = job[a].kind,
           \A x \in Apps!Living : Covers(job[a], x) =>
              Covers(j, x) \/ x \in doubted' \/ Apps!Bearers(app[x]) = {} \/ filed[x] # None,
           job[a].at \in {"owner", "file"} => j.at \in {"owner", "file", "ended"},
           j.at = "make" => Apps!Of(j.net) = {}
    PROVE  AppsInv'
<1>1. Runs(j) => \A b \in Request \ {a} : Runs(job[b]) => {a, b} \subseteq met'
  BY DEF AppsInv, Alone, Runs
<1> QED
  BY <1>1, AppRequestStep

\* A request that ends with a fault gives its applications an excuse.
LEMMA GiveUpStep ==
    ASSUME AppsInv, NEW a \in Request, job' = [job EXCEPT ![a] = Apps!At(a, "ended")],
           UNCHANGED <<net, networks, app, filed, booted, met>>,
           job[a].at \in {"scope", "call", "owner", "make", "file"},
           doubted \subseteq doubted',
           \A x \in Apps!Living : Covers(job[a], x) =>
              x \in doubted' \/ Apps!Bearers(app[x]) = {} \/ filed[x] # None
    PROVE  AppsInv'
<1> DEFINE j == Apps!At(a, "ended")
<1>1. Turned(j, job[a], "ended", job[a].net, job[a].todo, job[a].owner, job[a].sound)
  BY JobTurns DEF AppsInv, AppsTypeInv, Apps!At, AppSteps
<1>2. j \in AppJob /\ j.at = "ended" /\ j.kind = job[a].kind
  BY <1>1 DEF Turned
<1>3. job' = [job EXCEPT ![a] = j]
  OBVIOUS
<1> HIDE DEF j
<1>4. Fits(j)
  BY <1>2 DEF Fits
<1> QED
  BY <1>2, <1>3, <1>4, TurnStep

\* A fault ends a request.
LEMMA DoubtfulEnd ==
    ASSUME AppsInv, NEW a \in Request, job' = [job EXCEPT ![a] = Apps!At(a, "ended")],
           UNCHANGED <<net, networks, app, filed, booted, met>>,
           job[a].at \in {"scope", "call", "owner", "make", "file"},
           Apps!Doubt(a)
    PROVE  AppsInv'
BY GiveUpStep DEF Apps!Doubt, Covers, Apps!Of

\* The first look-up: unless it fails, it finds the network of the tenant chosen.
LEMMA ScopeStep ==
    ASSUME Apps!AppsAssumption, AppsInv, NEW a \in Request, Apps!Scope(a)
    PROVE  AppsInv'
<1> DEFINE u == job[a].user
<1>1. /\ job[a] \in AppJob /\ job[a].at = "scope"
      /\ u \in [tenant : Network \cup {None}, chosen : Tenant \cup {None}]
  BY DEF Apps!Scope, Apps!Go, AppsInv, AppsTypeInv, AppJob
<1>2. \E n \in {Apps!EffectiveTenantID(u), Apps!EffectiveOnError(u)}, s \in BOOLEAN :
        /\ s => n = Apps!EffectiveTenantID(u) /\ Apps!Agrees(u)
        /\ job' = [job EXCEPT ![a] = [job[a] EXCEPT !.at = "call", !.net = n, !.sound = s]]
        /\ UNCHANGED <<net, networks, app, filed, booted, met, doubted>>
  <2>1. Apps!Agrees(u) \in BOOLEAN
    BY DEF Apps!Agrees, Apps!Linked
  <2> QED
    BY <2>1 DEF Apps!Scope, Apps!Go, Apps!Tables, Apps!Sure
<1>3. PICK n \in {Apps!EffectiveTenantID(u), Apps!EffectiveOnError(u)}, s \in BOOLEAN :
        /\ s => n = Apps!EffectiveTenantID(u) /\ Apps!Agrees(u)
        /\ job' = [job EXCEPT ![a] = [job[a] EXCEPT !.at = "call", !.net = n, !.sound = s]]
        /\ UNCHANGED <<net, networks, app, filed, booted, met, doubted>>
  BY <1>2
<1>4. \A t \in Tenant \cup {None} : Apps!Linked(t) => t # None /\ t \in Tenant /\ net[t] \in Network
  BY DEF Apps!Linked, Apps!Present, Apps!AppsAssumption
<1>5. n \in Network \cup {None}
  BY <1>1, <1>4 DEF Apps!EffectiveTenantID, Apps!EffectiveOnError, Apps!ByToken, Apps!AppsAssumption
<1> DEFINE j == [job[a] EXCEPT !.at = "call", !.net = n, !.sound = s]
<1>6. Turned(j, job[a], "call", n, job[a].todo, job[a].owner, s)
  BY <1>1, <1>5, JobTurns DEF AppSteps
<1>7. /\ j \in AppJob /\ j.at = "call" /\ j.net = n
      /\ j.sound = s /\ j.user = u /\ j.kind = job[a].kind
  BY <1>6 DEF Turned
<1>8. job' = [job EXCEPT ![a] = j]
  BY <1>3
<1> HIDE DEF j
<1>9. u.chosen = None =>
         /\ n \in {u.tenant, DefaultNetwork}
         /\ n # u.tenant => u.tenant # None /\ DefaultNetwork # None
  BY <1>4 DEF Apps!EffectiveTenantID, Apps!EffectiveOnError, Apps!ByToken
<1>10. s => \/ u.chosen = None /\ n = Apps!EffectiveTenantID(u)
            \/ u.chosen # None /\ n # None /\ net[u.chosen] = n
  <2>1. CASE s /\ u.chosen # None
    <3>1. Apps!Linked(u.chosen)
      BY <1>3, <2>1 DEF Apps!Agrees
    <3>2. n = net[u.chosen] /\ n # None
      BY <1>3, <2>1, <3>1 DEF Apps!EffectiveTenantID, Apps!Linked
    <3> QED
      BY <2>1, <3>2
  <2> QED
    BY <1>3, <2>1
<1>11. Fits(j)
  BY <1>7, <1>9, <1>10 DEF Fits
<1>12. \A x \in Apps!Living : ~Covers(job[a], x)
  BY <1>1 DEF Covers
<1> QED
  BY <1>1, <1>3, <1>7, <1>8, <1>11, <1>12, TurnStep

\* A list that ChirpStack answers holds all that the request will file.
LEMMA ListStep ==
    ASSUME Apps!AppsAssumption, AppsInv, NEW a \in Request, Apps!ListApplications(a)
    PROVE  AppsInv'
<1>1. /\ job[a] \in AppJob /\ job[a].kind = "list" /\ job[a].at = "call"
      /\ UNCHANGED <<net, networks, app, filed, booted, met>>
  BY DEF Apps!ListApplications, Apps!Go, AppsInv, AppsTypeInv, Apps!Tables
<1>2. CASE job' = [job EXCEPT ![a] = Apps!At(a, "ended")] /\ Apps!Doubt(a)
  BY <1>1, <1>2, DoubtfulEnd
<1>3. CASE /\ job' = [job EXCEPT ![a] =
                [Apps!At(a, "owner") EXCEPT !.todo = Apps!Listed(job[a].net)]]
           /\ UNCHANGED doubted
  <2> DEFINE todo == Apps!Listed(job[a].net)
             j == [Apps!At(a, "owner") EXCEPT !.todo = todo]
  <2>1. /\ todo \in SUBSET Application
        /\ \A x \in todo : app[x] # None /\ (job[a].net # None => app[x] = job[a].net)
        /\ \A x \in Apps!Living : app[x] = job[a].net => x \in todo
    BY DEF Apps!Listed, Apps!Living, Apps!Of, Apps!AppsAssumption
  <2> HIDE DEF todo
  <2>2. Turned(j, job[a], "owner", job[a].net, todo, job[a].owner, job[a].sound)
    BY <1>1, <2>1, JobTurns DEF Apps!At, AppSteps
  <2>3. /\ j \in AppJob /\ j.at = "owner" /\ j.net = job[a].net /\ j.todo = todo
        /\ j.sound = job[a].sound /\ j.user = job[a].user /\ j.kind = job[a].kind
    BY <2>2 DEF Turned
  <2>4. job' = [job EXCEPT ![a] = j]
    BY <1>3 DEF todo
  <2> HIDE DEF j
  <2>5. Fits(j)
    BY <1>1, <2>1, <2>3 DEF Fits, AppsInv
  <2>6. \A x \in Apps!Living : Covers(job[a], x) => Covers(j, x)
    BY <1>1, <2>1, <2>3 DEF Covers
  <2> QED
    BY <1>1, <1>3, <2>3, <2>4, <2>5, <2>6, TurnStep
<1> QED
  BY <1>2, <1>3 DEF Apps!ListApplications, Apps!Go, Apps!Sure

\* The assistant goes on to make an application only where there is none.
LEMMA BootstrapStep ==
    ASSUME Apps!AppsAssumption, AppsInv, NEW a \in Request, Apps!Bootstrap(a)
    PROVE  AppsInv'
<1>1. /\ job[a] \in AppJob /\ job[a].kind = "bootstrap" /\ job[a].at = "call"
      /\ UNCHANGED <<net, networks, app, filed, booted, met>>
  BY DEF Apps!Bootstrap, Apps!Go, AppsInv, AppsTypeInv, Apps!Tables
<1>2. \A x \in Apps!Living : ~Covers(job[a], x)
  BY <1>1 DEF Covers
<1>3. CASE job' = [job EXCEPT ![a] = Apps!At(a, "ended")] /\ doubted \subseteq doubted'
  BY <1>1, <1>2, <1>3, GiveUpStep
<1>4. CASE /\ job' = [job EXCEPT ![a] = Apps!At(a, "make")] /\ UNCHANGED doubted
           /\ Apps!Of(job[a].net) = {}
  <2> DEFINE j == Apps!At(a, "make")
  <2>1. Turned(j, job[a], "make", job[a].net, job[a].todo, job[a].owner, job[a].sound)
    BY <1>1, JobTurns DEF Apps!At, AppSteps
  <2>2. /\ j \in AppJob /\ j.at = "make" /\ j.net = job[a].net
        /\ j.sound = job[a].sound /\ j.user = job[a].user /\ j.kind = job[a].kind
    BY <2>1 DEF Turned
  <2>3. job' = [job EXCEPT ![a] = j]
    BY <1>4
  <2> HIDE DEF j
  <2>4. Fits(j)
    BY <1>1, <2>2 DEF Fits, AppsInv
  <2> QED
    BY <1>1, <1>2, <1>4, <2>2, <2>3, <2>4, TurnStep
<1> QED
  BY <1>3, <1>4 DEF Apps!Bootstrap, Apps!Go, Apps!Sure, Apps!Doubt

\* Whoever acts for nobody leaves nothing that has an owner.
LEMMA NoOwner ==
    ASSUME Apps!AppsAssumption, AppsInv, NEW a \in Request, job[a].at = "owner",
           Apps!PlatformTenantID(job[a].user, Apps!EffectiveTenantID(job[a].user)) = {}
    PROVE  Apps!Bearers(job[a].net) = {}
<1> DEFINE u == job[a].user
<1>1. u.chosen = None /\ Apps!Bearers(Apps!EffectiveTenantID(u)) = {}
  BY DEF Apps!PlatformTenantID
<1>2. ~Apps!Linked(None)
  BY DEF Apps!Linked, Apps!Present, Apps!AppsAssumption
<1>3. Apps!EffectiveTenantID(u) = Apps!ByToken(u, Apps!Bearers(u.tenant) # {})
  BY <1>1, <1>2 DEF Apps!EffectiveTenantID
<1>4. Apps!Bearers(u.tenant) = {}
  BY <1>1, <1>3 DEF Apps!ByToken
<1>5. \/ job[a].net = u.tenant
      \/ job[a].net = DefaultNetwork /\ u.tenant # None /\ DefaultNetwork # None
  BY <1>1 DEF AppsInv, Fits
<1>6. CASE job[a].net = u.tenant
  BY <1>4, <1>6
<1>7. CASE job[a].net = DefaultNetwork /\ u.tenant # None /\ DefaultNetwork # None
  BY <1>1, <1>3, <1>4, <1>7 DEF Apps!ByToken
<1> QED
  BY <1>5, <1>6, <1>7

\* The second look-up: while the request is sound, it finds the same tenant.
LEMMA OwnerStep ==
    ASSUME Apps!AppsAssumption, AppsInv, NEW a \in Request, Apps!Owner(a)
    PROVE  AppsInv'
<1> DEFINE u == job[a].user
           owners == Apps!PlatformTenantID(u, Apps!EffectiveTenantID(u))
<1>1. /\ job[a] \in AppJob /\ job[a].at = "owner"
      /\ UNCHANGED <<net, networks, app, filed, booted, met>>
      /\ u \in [tenant : Network \cup {None}, chosen : Tenant \cup {None}]
  BY DEF Apps!Owner, Apps!Go, AppsInv, AppsTypeInv, Apps!Tables, AppJob
<1>2. CASE job' = [job EXCEPT ![a] = Apps!At(a, "ended")] /\ Apps!Doubt(a)
  BY <1>1, <1>2, DoubtfulEnd
<1>3. CASE owners = {} /\ job' = [job EXCEPT ![a] = Apps!At(a, "ended")] /\ UNCHANGED doubted
  BY <1>1, <1>3, NoOwner, GiveUpStep DEF Covers
<1>4. ASSUME NEW j \in AppJob, NEW t \in Tenant, NEW s \in BOOLEAN,
             Turned(j, job[a], "file", job[a].net, job[a].todo, t, s),
             job' = [job EXCEPT ![a] = j], doubted \subseteq doubted',
             s => job[a].sound /\ t \in owners
      PROVE  AppsInv'
  <2>1. /\ j.at = "file" /\ j.net = job[a].net /\ j.todo = job[a].todo /\ j.owner = t
        /\ j.sound = s /\ j.user = u /\ j.kind = job[a].kind
    BY <1>4 DEF Turned
  <2>2. s => Dead(j.net) \/ (j.net # None /\ net[t] = j.net)
    <3> SUFFICES ASSUME s, ~Dead(j.net)
                 PROVE  j.net # None /\ net[t] = j.net
      OBVIOUS
    <3>1. CASE u.chosen = None /\ j.net = Apps!EffectiveTenantID(u)
      BY <1>4, <3>1 DEF Apps!PlatformTenantID, Apps!Bearers
    <3>2. CASE u.chosen # None /\ j.net # None /\ net[u.chosen] = j.net
      BY <1>4, <3>2 DEF Apps!PlatformTenantID
    <3> QED
      BY <1>1, <1>4, <2>1, <3>1, <3>2 DEF AppsInv, Fits
  <2>3. Fits(j)
    BY <1>1, <2>1, <2>2 DEF Fits, AppsInv
  <2>4. \A x \in Apps!Living : Covers(job[a], x) => Covers(j, x)
    BY <1>1, <2>1 DEF Covers
  <2> QED
    BY <1>1, <1>4, <2>1, <2>3, <2>4, TurnStep
<1>5. \A n : Apps!PlatformTenantID(u, n) \subseteq Tenant
  BY <1>1 DEF Apps!PlatformTenantID, Apps!Bearers, Apps!Present
<1>6. ASSUME NEW t \in owners, job' = [job EXCEPT ![a] = [Apps!At(a, "file") EXCEPT !.owner = t]],
             UNCHANGED doubted
      PROVE  AppsInv'
  <2> DEFINE j == [Apps!At(a, "file") EXCEPT !.owner = t]
  <2>1. Turned(j, job[a], "file", job[a].net, job[a].todo, t, job[a].sound)
    BY <1>1, <1>5, JobTurns DEF Apps!At, AppSteps
  <2>2. j \in AppJob /\ job[a].sound \in BOOLEAN /\ job' = [job EXCEPT ![a] = j] /\ t \in Tenant
    BY <1>1, <1>5, <1>6, <2>1 DEF Turned, AppJob
  <2> HIDE DEF j
  <2> QED
    BY <1>4, <1>6, <2>1, <2>2
<1>7. ASSUME NEW t \in Apps!PlatformTenantID(u, Apps!EffectiveOnError(u)),
             job' = [job EXCEPT ![a] = [Apps!AtDoubting(a, "file") EXCEPT !.owner = t]],
             Apps!Doubt(a)
      PROVE  AppsInv'
  <2> DEFINE j == [Apps!AtDoubting(a, "file") EXCEPT !.owner = t]
  <2>1. Turned(j, job[a], "file", job[a].net, job[a].todo, t, FALSE)
    BY <1>1, <1>5, JobTurns DEF Apps!AtDoubting, AppSteps
  <2>2. j \in AppJob /\ job' = [job EXCEPT ![a] = j] /\ t \in Tenant /\ doubted \subseteq doubted'
    BY <1>5, <1>7, <2>1 DEF Turned, Apps!Doubt
  <2> HIDE DEF j
  <2> QED
    BY <1>4, <1>7, <2>1, <2>2
<1> QED
  BY <1>2, <1>3, <1>6, <1>7 DEF Apps!Owner, Apps!Go, Apps!Sure

\* An application is made; whoever made it has it to file, or it has an excuse.
LEMMA MadeStep ==
    ASSUME Apps!AppsAssumption, AppsInv, NEW a \in Request, NEW x \in Application,
           job[a].kind \in {"create", "bootstrap"}, Apps!Making(a), job[a].net \in networks,
           app[x] = None, app' = [app EXCEPT ![x] = job[a].net],
           booted' = IF job[a].kind = "bootstrap" THEN booted \cup {<<a, x>>} ELSE booted,
           UNCHANGED <<net, networks, filed, met>>,
           NEW j \in AppJob, job' = [job EXCEPT ![a] = j], j.kind = job[a].kind,
           doubted \subseteq doubted',
           \/ j.at = "ended" /\ x \in doubted'
           \/ /\ j.at = "owner" /\ j.todo = {x} /\ j.net = job[a].net
              /\ j.sound = job[a].sound /\ j.user = job[a].user
    PROVE  AppsInv'
<1> USE DEF AppsInv
<1>1. job'[a] = j /\ \A b \in Request : b # a => job'[b] = job[b]
  BY DEF AppsTypeInv
<1>2. /\ job[a].net \in Network /\ app'[x] = job[a].net
      /\ \A y \in Application : y # x => app'[y] = app[y]
      /\ x \notin Apps!Living /\ Apps!Living' = Apps!Living \cup {x} /\ filed[x] = None
  BY DEF AppsTypeInv, Apps!Living, Placed, Apps!AppsAssumption
<1>3. /\ job[a].at \in {"call", "make"} /\ (job[a].kind = "bootstrap" <=> job[a].at = "make")
  BY DEF Apps!Making
<1>4. AppsTypeInv'
  BY <1>2 DEF AppsTypeInv
<1>5. Placed'
  BY <1>2 DEF Placed, Apps!Living
<1>6. \A n, u : /\ Apps!Bearers(n)' = Apps!Bearers(n)
                /\ Apps!EffectiveTenantID(u)' = Apps!EffectiveTenantID(u)
  BY DEF Apps!Bearers, Apps!EffectiveTenantID, Apps!ByToken, Apps!Linked, Apps!Present
<1>7. ASSUME NEW k, Fits(k)
      PROVE  Fits(k)'
  <2>1. j.todo \subseteq Application
    BY DEF AppJob
  <2>2. ASSUME k.at \in {"owner", "file"}, NEW y \in k.todo
        PROVE  app'[y] # None /\ (k.net # None => app'[y] \in {k.net, "gone"})
    <3>1. app[y] # None /\ (k.net # None => app[y] \in {k.net, "gone"})
      BY <1>7, <2>2 DEF Fits
    <3>2. app'[y] = app[y]
      BY <3>1 DEF AppsTypeInv
    <3> QED
      BY <3>1, <3>2
  <2> QED
    BY <1>6, <1>7, <2>2 DEF Fits, Dead
<1>8. Fits(j)'
  <2>1. CASE j.at = "ended"
    BY <2>1 DEF Fits
  <2>2. CASE /\ j.at = "owner" /\ j.todo = {x} /\ j.net = job[a].net
             /\ j.sound = job[a].sound /\ j.user = job[a].user
    <3>1. app'[x] # None /\ app'[x] = j.net
      BY <1>2, <2>2 DEF Apps!AppsAssumption
    <3>2. Fits(job[a])
      OBVIOUS
    <3> QED
      BY <1>3, <1>6, <2>2, <3>1, <3>2 DEF Fits, Dead
  <2> QED
    BY <2>1, <2>2
<1>9. \A b \in Request : Fits(job[b])'
  <2> SUFFICES ASSUME NEW b \in Request PROVE Fits(job[b])'
    OBVIOUS
  <2>1. PICK k : k = job'[b]
    OBVIOUS
  <2>2. Fits(k)'
    BY <1>1, <1>7, <1>8, <2>1
  <2> QED
    BY <2>1, <2>2
<1>10. Apps!FiledAtHome'
  BY <1>2 DEF Apps!FiledAtHome
<1>11. Pending'
  <2> SUFFICES ASSUME NEW y \in Apps!Living', filed[y] = None, y \notin doubted',
                      (Apps!Bearers(app[y]) # {})'
               PROVE  \E b \in Request : Covers(job[b], y)'
    BY <1>2 DEF Pending
  <2>1. CASE y = x
    BY <1>1, <1>2, <2>1 DEF Covers
  <2>2. CASE y # x
    <3>1. y \in Apps!Living /\ app'[y] = app[y]
      BY <1>2, <2>2 DEF Apps!Living
    <3>2. Apps!Bearers(app[y]) # {}
      BY <3>1 DEF Apps!Bearers, Apps!Present
    <3>3. PICK b \in Request : Covers(job[b], y)
      BY <3>1, <3>2 DEF Pending
    <3>4. b # a
      BY <1>3, <3>3 DEF Covers
    <3> QED
      BY <1>1, <3>1, <3>3, <3>4 DEF Covers
  <2> QED
    BY <2>1, <2>2
<1>12. /\ \A p \in booted : p[1] # a /\ p[2] # x /\ p[1] \in Request /\ p[2] \in Application
       /\ \A p \in booted' : p \in booted \/ (p = <<a, x>> /\ Runs(job[a]) /\ job[a].at = "make")
  <2>1. \A p \in booted : p[1] # a /\ p[2] # x
    BY <1>3 DEF Alone
  <2>2. \A p \in booted : p[1] \in Request /\ p[2] \in Application
    BY DEF AppsTypeInv
  <2> QED
    BY <1>3, <2>1, <2>2 DEF Runs
<1>13. Alone'
  <2>1. ASSUME NEW b \in Request, NEW c \in Request, b # c, Runs(job'[b]), Runs(job'[c])
        PROVE  {b, c} \subseteq met'
    <3>1. Runs(j) => Runs(job[a])
      BY <1>3 DEF Runs
    <3> QED
      BY <1>1, <2>1, <3>1 DEF Alone
  <2>2. ASSUME NEW p \in booted'
        PROVE  job'[p[1]].at \in {"owner", "file", "ended"} /\ app'[p[2]] # None
    <3>1. CASE p \in booted
      BY <1>1, <1>2, <1>12, <3>1 DEF Alone
    <3>2. CASE p = <<a, x>>
      BY <1>1, <1>2, <3>2 DEF Apps!AppsAssumption
    <3> QED
      BY <1>12, <3>1, <3>2
  <2>3. ASSUME NEW p \in booted', NEW b \in Request, Runs(job'[b]), job'[b].at = "make",
               p[2] \in Apps!Living', app'[p[2]] = job'[b].net
        PROVE  {p[1], b} \subseteq met'
    <3>1. b # a /\ job'[b] = job[b]
      BY <1>1, <2>3
    <3>2. CASE p \in booted
      <4>1. p[2] \in Apps!Living /\ app'[p[2]] = app[p[2]]
        BY <1>2, <1>12, <2>3, <3>2
      <4> QED
        BY <2>3, <3>1, <3>2, <4>1 DEF Alone
    <3>3. CASE p = <<a, x>> /\ Runs(job[a])
      BY <2>3, <3>1, <3>3 DEF Alone
    <3> QED
      BY <1>12, <3>2, <3>3
  <2> QED
    BY <2>1, <2>2, <2>3 DEF Alone, Runs
<1>14. Apps!OneIsEnough'
  <2> SUFFICES ASSUME NEW p \in booted', NEW q \in booted',
                      p # q, p[2] \in Apps!Living', app'[p[2]] = app'[q[2]]
               PROVE  {p[1], q[1]} \subseteq met
    BY DEF Apps!OneIsEnough
  <2>1. ASSUME NEW r \in booted, app'[r[2]] \in Network
        PROVE  r[2] \in Apps!Living /\ app[r[2]] = app'[r[2]]
    BY <1>2, <1>12, <2>1 DEF Apps!Living
  <2>2. app'[p[2]] \in Network
    BY DEF Apps!Living
  <2>3. CASE p \in booted /\ q \in booted
    BY <2>1, <2>2, <2>3 DEF Apps!OneIsEnough
  <2>4. CASE p = <<a, x>> /\ q \in booted /\ Runs(job[a]) /\ job[a].at = "make"
    BY <1>2, <2>1, <2>2, <2>4 DEF Alone
  <2>5. CASE q = <<a, x>> /\ p \in booted /\ Runs(job[a]) /\ job[a].at = "make"
    BY <1>2, <2>1, <2>2, <2>5 DEF Alone
  <2> QED
    BY <1>12, <2>3, <2>4, <2>5
<1> QED
  BY <1>4, <1>5, <1>9, <1>10, <1>11, <1>13, <1>14

\* ChirpStack makes an application, or refuses.
LEMMA CreateApplicationStep ==
    ASSUME Apps!AppsAssumption, AppsInv, NEW a \in Request, Apps!CreateApplication(a)
    PROVE  AppsInv'
<1>1. /\ job[a] \in AppJob /\ job[a].kind \in {"create", "bootstrap"} /\ Apps!Making(a)
      /\ job[a].at \in {"call", "make"} /\ UNCHANGED <<net, networks, filed, met>>
  BY DEF Apps!CreateApplication, AppsInv, AppsTypeInv, Apps!Making
<1>2. ASSUME job' = [job EXCEPT ![a] = Apps!At(a, "ended")], UNCHANGED <<app, booted>>,
             doubted \subseteq doubted'
      PROVE  AppsInv'
  <2>1. \A x \in Apps!Living : ~Covers(job[a], x)
    BY <1>1 DEF Covers
  <2> QED
    BY <1>1, <1>2, <2>1, GiveUpStep
<1>3. ASSUME NEW x \in Application, job[a].net \in networks, app[x] = None,
             app' = [app EXCEPT ![x] = job[a].net],
             booted' = IF job[a].kind = "bootstrap" THEN booted \cup {<<a, x>>} ELSE booted,
             \/ job' = [job EXCEPT ![a] = [Apps!At(a, "owner") EXCEPT !.todo = {x}]] /\ Apps!Sure
             \/ /\ job' = [job EXCEPT ![a] = Apps!At(a, "ended")]
                /\ doubted' = doubted \cup {x}
      PROVE  AppsInv'
  <2>1. CASE job' = [job EXCEPT ![a] = Apps!At(a, "ended")] /\ doubted' = doubted \cup {x}
    <3> DEFINE j == Apps!At(a, "ended")
    <3>1. Turned(j, job[a], "ended", job[a].net, job[a].todo, job[a].owner, job[a].sound)
      BY <1>1, JobTurns DEF Apps!At, AppSteps
    <3>2. /\ j \in AppJob /\ j.at = "ended" /\ j.kind = job[a].kind
          /\ job' = [job EXCEPT ![a] = j] /\ doubted \subseteq doubted' /\ x \in doubted'
      BY <2>1, <3>1 DEF Turned
    <3> HIDE DEF j
    <3> QED
      BY <1>1, <1>3, <3>2, MadeStep
  <2>2. CASE job' = [job EXCEPT ![a] = [Apps!At(a, "owner") EXCEPT !.todo = {x}]] /\ Apps!Sure
    <3> DEFINE j == [Apps!At(a, "owner") EXCEPT !.todo = {x}]
    <3>1. Turned(j, job[a], "owner", job[a].net, {x}, job[a].owner, job[a].sound)
      BY <1>1, JobTurns DEF Apps!At, AppSteps
    <3>2. /\ j \in AppJob /\ j.at = "owner" /\ j.kind = job[a].kind
          /\ j.todo = {x} /\ j.net = job[a].net
          /\ j.sound = job[a].sound /\ j.user = job[a].user
          /\ job' = [job EXCEPT ![a] = j] /\ doubted \subseteq doubted'
      BY <2>2, <3>1 DEF Turned, Apps!Sure
    <3> HIDE DEF j
    <3> QED
      BY <1>1, <1>3, <3>2, MadeStep
  <2> QED
    BY <1>3, <2>1, <2>2
<1> QED
  BY <1>2, <1>3 DEF Apps!CreateApplication, Apps!Sure, Apps!Doubt

\* A row is written: while the request is sound, under the application's tenant.
LEMMA UpsertStep ==
    ASSUME Apps!AppsAssumption, AppsInv, NEW a \in Request, NEW x \in job[a].todo,
           job[a].at = "file", job[a].owner \in Apps!Present,
           job' = [job EXCEPT ![a] = [job[a] EXCEPT !.todo = @ \ {x}]],
           Apps!UpsertApplication(x, job[a].owner),
           doubted' = IF job[a].sound THEN doubted \ {x} ELSE doubted \cup {x},
           UNCHANGED <<net, networks, app, booted, met>>
    PROVE  AppsInv'
<1> USE DEF AppsInv
<1> DEFINE t == job[a].owner
           j == [job[a] EXCEPT !.todo = job[a].todo \ {x}]
<1>1. job[a] \in AppJob /\ job[a].todo \subseteq Application /\ t \in Tenant /\ Fits(job[a])
  BY DEF AppsTypeInv, AppJob, Apps!Present
<1>2. /\ x \in Application /\ app[x] # None
      /\ job[a].net # None => app[x] \in {job[a].net, "gone"}
  BY <1>1 DEF Fits
<1>3. Turned(j, job[a], "file", job[a].net, job[a].todo \ {x}, t, job[a].sound)
  <2>1. job[a].todo \ {x} \in SUBSET Application
    BY <1>1
  <2> QED
    BY <1>1, <2>1, JobTurns DEF AppSteps
<1>4. /\ j \in AppJob /\ j.kind = job[a].kind /\ j.user = job[a].user /\ j.at = "file"
      /\ j.net = job[a].net /\ j.todo = job[a].todo \ {x} /\ j.owner = t
      /\ j.sound = job[a].sound
  BY <1>3 DEF Turned
<1>5. job' = [job EXCEPT ![a] = j]
  OBVIOUS
<1> HIDE DEF j
<1>6. job'[a] = j /\ \A b \in Request : b # a => job'[b] = job[b]
  BY <1>5 DEF AppsTypeInv
<1>7. filed'[x] = t /\ \A y \in Application : y # x => filed'[y] = filed[y]
  BY <1>2 DEF Apps!UpsertApplication, AppsTypeInv
<1>8. AppsTypeInv'
  BY <1>1, <1>4, <1>5 DEF AppsTypeInv, Apps!UpsertApplication
<1>9. Placed' /\ Apps!Living' = Apps!Living
  BY <1>2, <1>7 DEF Placed, Apps!Living
<1>10. \A b \in Request : Fits(job[b])'
  <2>1. ASSUME NEW k PROVE Fits(k)' <=> Fits(k)
    BY DEF Fits, Dead, Apps!EffectiveTenantID, Apps!ByToken, Apps!Linked, Apps!Present, Apps!Bearers
  <2>2. Fits(j)
    BY <1>1, <1>4 DEF Fits
  <2> SUFFICES ASSUME NEW b \in Request PROVE Fits(job[b])'
    OBVIOUS
  <2>3. PICK k : k = job'[b]
    OBVIOUS
  <2>4. Fits(k)
    BY <1>6, <2>2, <2>3
  <2>5. Fits(k)'
    BY <2>1, <2>4
  <2> QED
    BY <2>3, <2>5
<1>11. Apps!FiledAtHome'
  <2> SUFFICES ASSUME NEW y \in Apps!Living, filed'[y] # None, y \notin doubted'
               PROVE  net[filed'[y]] = app[y]
    BY <1>9 DEF Apps!FiledAtHome
  <2>1. CASE y # x
    BY <1>7, <2>1 DEF Apps!FiledAtHome, Apps!Living
  <2>2. CASE y = x
    <3>1. job[a].sound /\ app[x] \in networks /\ app[x] # "gone"
      BY <2>2 DEF Placed, Apps!Living, Apps!AppsAssumption
    <3>2. Dead(job[a].net) \/ (job[a].net # None /\ net[t] = job[a].net)
      BY <1>1, <3>1 DEF Fits
    <3>3. ~Dead(job[a].net)
      BY <1>2, <3>1 DEF Dead, Apps!AppsAssumption
    <3> QED
      BY <1>2, <1>7, <2>2, <3>1, <3>2, <3>3
  <2> QED
    BY <2>1, <2>2
<1>12. Pending'
  <2> SUFFICES ASSUME NEW y \in Apps!Living, filed'[y] = None, y \notin doubted',
                      Apps!Bearers(app[y]) # {}
               PROVE  \E b \in Request : Covers(job'[b], y)
    BY <1>9 DEF Pending, Covers, Apps!Bearers, Apps!Present
  <2>1. y # x /\ filed[y] = None /\ y \notin doubted
    BY <1>1, <1>7 DEF Apps!Living, Apps!AppsAssumption
  <2>2. PICK b \in Request : Covers(job[b], y)
    BY <2>1 DEF Pending
  <2>3. b = a => Covers(j, y)
    BY <1>4, <2>1, <2>2 DEF Covers
  <2> QED
    BY <1>6, <2>2, <2>3
<1>13. Alone' /\ Apps!OneIsEnough'
  <2>1. \A b \in Request :
           job'[b].at = job[b].at /\ job'[b].kind = job[b].kind /\ job'[b].net = job[b].net
    BY <1>4, <1>6
  <2>2. Apps!OneIsEnough'
    BY <1>9 DEF Apps!OneIsEnough
  <2>3. \A b \in Request : Runs(job'[b]) <=> Runs(job[b])
    BY <2>1 DEF Runs
  <2>4. \A p \in booted : p[1] \in Request
    BY DEF AppsTypeInv
  <2>5. Alone'
    <3>1. ASSUME NEW b \in Request, NEW c \in Request, b # c, Runs(job'[b]), Runs(job'[c])
          PROVE  {b, c} \subseteq met
      BY <2>3, <3>1 DEF Alone
    <3>2. \A p \in booted : job'[p[1]].at \in {"owner", "file", "ended"} /\ app[p[2]] # None
      BY <2>1, <2>4 DEF Alone
    <3>3. ASSUME NEW p \in booted, NEW b \in Request, Runs(job'[b]), job'[b].at = "make",
                 p[2] \in Apps!Living, app[p[2]] = job'[b].net
          PROVE  {p[1], b} \subseteq met
      BY <2>1, <2>3, <3>3 DEF Alone
    <3> QED
      BY <1>9, <3>1, <3>2, <3>3 DEF Alone, Runs
  <2> QED
    BY <2>2, <2>5
<1> QED
  BY <1>8, <1>9, <1>10, <1>11, <1>12, <1>13

\* Rows are written one by one; when the tenant has gone, none is owed.
LEMMA SyncStep ==
    ASSUME Apps!AppsAssumption, AppsInv, NEW a \in Request, Apps!SyncApplications(a)
    PROVE  AppsInv'
<1>1. job[a].at = "file" /\ UNCHANGED <<net, networks, app, booted, met>>
  BY DEF Apps!SyncApplications, Apps!Go
<1>2. ASSUME NEW x \in job[a].todo, job[a].owner \in Apps!Present,
             job' = [job EXCEPT ![a] = [job[a] EXCEPT !.todo = @ \ {x}]],
             Apps!UpsertApplication(x, job[a].owner),
             doubted' = IF job[a].sound THEN doubted \ {x} ELSE doubted \cup {x}
      PROVE  AppsInv'
  BY <1>1, <1>2, UpsertStep
<1>3. CASE /\ job[a].todo = {} \/ job[a].owner \notin Apps!Present
           /\ job' = [job EXCEPT ![a] = Apps!At(a, "ended")]
           /\ doubted' = IF job[a].sound THEN doubted ELSE doubted \cup job[a].todo
           /\ UNCHANGED filed
  <2>1. ASSUME NEW x \in Apps!Living, Covers(job[a], x)
        PROVE  x \in doubted'
    <3>1. x \in job[a].todo /\ job[a].net = app[x] /\ job[a].owner \notin Apps!Present
      BY <1>1, <1>3, <2>1 DEF Covers
    <3>2. app[x] \in networks /\ app[x] \in Network
      BY DEF AppsInv, Placed, Apps!Living
    <3>3. CASE job[a].sound
      <4>1. job[a].owner \in Tenant /\ net[job[a].owner] = job[a].net
        BY <1>1, <3>1, <3>2, <3>3 DEF AppsInv, Fits, Dead
      <4> QED
        BY <3>1, <3>2, <4>1 DEF Apps!Present
    <3> QED
      BY <1>3, <3>1, <3>3
  <2>2. doubted \subseteq doubted'
    BY <1>3
  <2> QED
    BY <1>1, <1>3, <2>1, <2>2, GiveUpStep
<1>4. CASE job' = [job EXCEPT ![a] = Apps!At(a, "ended")] /\ Apps!Doubt(a) /\ UNCHANGED filed
  BY <1>1, <1>4, DoubtfulEnd
<1> QED
  BY <1>2, <1>3, <1>4 DEF Apps!SyncApplications, Apps!Go

\* k is the request q, in doubt perhaps.
Kept(k, q) ==
    /\ k \in AppJob /\ k.at = q.at /\ k.kind = q.kind /\ k.user = q.user /\ k.net = q.net
    /\ k.todo = q.todo /\ k.owner = q.owner /\ (k.sound => q.sound)

\* What tenants come and go leaves of the bootstraps' promise.
LEMMA BootsStay ==
    ASSUME Apps!AppsAssumption, AppsInv, UNCHANGED <<booted, met>>,
           \A b \in Request :
              \/ Kept(job'[b], job[b])
              \/ job[b].at = "idle" /\ job'[b].kind = "list",
           app' \in [Application -> Network \cup {None, "gone"}],
           \A x \in Application : app'[x] = app[x] \/ app'[x] = "gone"
    PROVE  Alone' /\ Apps!OneIsEnough'
<1> USE DEF AppsInv
<1>1. \A b \in Request : Runs(job'[b]) =>
         Runs(job[b]) /\ job'[b].at = job[b].at /\ job'[b].net = job[b].net
  BY DEF Runs, Kept
<1>2. \A p \in booted : p[1] \in Request /\ p[2] \in Application
  BY DEF AppsTypeInv
<1>3. \A x \in Application : app'[x] \in Network => x \in Apps!Living /\ app'[x] = app[x]
  BY DEF Apps!AppsAssumption, Apps!Living
<1>4. ASSUME NEW b \in Request, NEW c \in Request, b # c, Runs(job'[b]), Runs(job'[c])
      PROVE  {b, c} \subseteq met
  BY <1>1, <1>4 DEF Alone
<1>5. ASSUME NEW p \in booted
      PROVE  job'[p[1]].at \in {"owner", "file", "ended"} /\ app'[p[2]] # None
  <2>1. job[p[1]].at \in {"owner", "file", "ended"} /\ app[p[2]] # None
    BY DEF Alone
  <2>2. job'[p[1]].at = job[p[1]].at
    BY <1>2, <2>1 DEF Kept
  <2> QED
    BY <1>2, <2>1, <2>2 DEF Apps!AppsAssumption
<1>6. ASSUME NEW p \in booted, NEW b \in Request, Runs(job'[b]), job'[b].at = "make",
             app'[p[2]] \in Network, app'[p[2]] = job'[b].net
      PROVE  {p[1], b} \subseteq met
  BY <1>1, <1>2, <1>3, <1>6 DEF Alone
<1>7. Alone'
  BY <1>4, <1>5, <1>6 DEF Alone, Runs, Apps!Living
<1>8. Apps!OneIsEnough'
  BY <1>2, <1>3 DEF Apps!OneIsEnough, Apps!Living
<1> QED
  BY <1>7, <1>8

\* A new tenant lists the applications of the network it brings; users whose
\* token named this network were served for another until now.
LEMMA NewTenantStep ==
    ASSUME Apps!AppsAssumption, AppsInv, NEW a \in Request, Apps!CreateTenant(a)
    PROVE  AppsInv'
<1> USE DEF AppsInv
<1>1. PICK t \in Tenant, n \in networks \cup {None} :
        /\ net[t] = "new" /\ net' = [net EXCEPT ![t] = n]
        /\ job[a].at = "idle"
        /\ job' = [b \in Request |->
             IF b = a THEN [Apps!Unasked EXCEPT !.at = IF n = None THEN "ended" ELSE "call",
             !.net = n,
                                            !.user = [tenant |-> None, chosen |-> t]]
             ELSE IF Apps!Busy(b) /\ job[b].user.tenant = n
             THEN Apps!AtDoubting(b, job[b].at) ELSE job[b]]
        /\ UNCHANGED <<networks, app, filed, booted, met, doubted>>
  BY DEF Apps!CreateTenant, Apps!Sure
<1>2. /\ n \in Network \cup {None} /\ "new" \notin Network \cup {None}
      /\ net[t] \notin Network \cup {None}
  BY <1>1 DEF AppsTypeInv, Apps!AppsAssumption
<1>3. net'[t] = n /\ \A v \in Tenant : v # t => net'[v] = net[v]
  BY <1>1 DEF AppsTypeInv
<1> DEFINE mine == job'[a]
<1>4. /\ mine \in AppJob /\ mine.kind = "list" /\ mine.net = n
      /\ mine.at = (IF n = None THEN "ended" ELSE "call")
      /\ mine.user = [tenant |-> None, chosen |-> t]
  <2>1. PICK at \in AppSteps : at = IF n = None THEN "ended" ELSE "call"
    BY DEF AppSteps
  <2>2. mine = [Apps!Unasked EXCEPT !.at = at, !.net = n, !.user = [tenant |-> None, chosen |-> t]]
    BY <1>1, <2>1
  <2>3. [tenant |-> None, chosen |-> t] \in
           [tenant : Network \cup {None}, chosen : Tenant \cup {None}]
    OBVIOUS
  <2>4. /\ mine.kind = "list" /\ mine.net = n /\ mine.at = at
        /\ mine.user = [tenant |-> None, chosen |-> t]
        /\ mine = [at |-> at, kind |-> "list", user |-> [tenant |-> None, chosen |-> t],
                   net |-> n, todo |-> {}, owner |-> None, sound |-> TRUE]
    BY <2>2 DEF Apps!Unasked
  <2>5. mine \in AppJob
    BY <1>2, <2>3, <2>4 DEF AppJob, Apps!Kinds
  <2> QED
    BY <2>1, <2>4, <2>5
<1>5. ASSUME NEW b \in Request, b # a
      PROVE  /\ Kept(job'[b], job[b])
             /\ Apps!Busy(b) /\ job[b].user.tenant = n => ~job'[b].sound
  <2>1. job[b] \in AppJob /\ job[b].at \in AppSteps
    BY DEF AppsTypeInv, AppJob
  <2>2. CASE Apps!Busy(b) /\ job[b].user.tenant = n
    <3>1. job'[b] = Apps!AtDoubting(b, job[b].at)
      BY <1>1, <1>5, <2>2
    <3>2. Turned(Apps!AtDoubting(b, job[b].at), job[b], job[b].at, job[b].net, job[b].todo,
                 job[b].owner, FALSE)
      BY <2>1, JobTurns DEF Apps!AtDoubting
    <3> QED
      BY <3>1, <3>2 DEF Turned, Kept
  <2>3. CASE ~(Apps!Busy(b) /\ job[b].user.tenant = n)
    <3>1. job'[b] = job[b]
      BY <1>1, <1>5, <2>3
    <3> QED
      BY <2>1, <2>3, <3>1 DEF Kept
  <2> QED
    BY <2>2, <2>3
<1>6. AppsTypeInv'
  <2>1. job' \in [Request -> AppJob]
    <3>1. \A b \in Request : job'[b] \in AppJob
      BY <1>4, <1>5 DEF Kept
    <3>2. job' = [b \in Request |-> job'[b]]
      BY <1>1
    <3> QED
      BY <3>1, <3>2
  <2>2. net' \in [Tenant -> Network \cup {None, "new", "gone"}]
    BY <1>1, <1>2 DEF AppsTypeInv
  <2> QED
    BY <1>1, <2>1, <2>2 DEF AppsTypeInv
<1>7. Placed' /\ Apps!Living' = Apps!Living
  BY <1>1 DEF Placed, Apps!Living
<1>8. /\ \A v \in Tenant : v # t => (v \in Apps!Present' <=> v \in Apps!Present)
      /\ t \notin Apps!Present
  BY <1>2, <1>3 DEF Apps!Present
<1>9. \A m : m # n => (m \in Network \cup {None} => Apps!Bearers(m)' = Apps!Bearers(m))
  BY <1>2, <1>3, <1>8 DEF Apps!Bearers, Apps!Present
<1>10. ASSUME NEW b \in Request PROVE Fits(job[b])'
  <2>1. PICK k : k = job'[b]
    OBVIOUS
  <2>2. CASE b = a
    <3>1. t # None /\ k.user.chosen = t
      BY <1>4, <2>1, <2>2 DEF Apps!AppsAssumption
    <3>2. k.at \in {"call", "ended"} /\ (k.at = "call" => k.net = n /\ n # None)
      BY <1>4, <2>1, <2>2
    <3>3. Fits(k)'
      BY <1>3, <3>1, <3>2 DEF Fits
    <3> QED
      BY <2>1, <3>3
  <2>3. CASE b # a
    <3>1. /\ Kept(k, job[b]) /\ Fits(job[b]) /\ job[b] \in AppJob
          /\ k.sound /\ Apps!Busy(b) => k.user.tenant # n
      BY <1>5, <2>1, <2>3 DEF AppsTypeInv, Kept
    <3>2. k.net \in Network \cup {None} /\ k.user.tenant \in Network \cup {None}
          /\ k.user.chosen \in Tenant \cup {None} /\ k.owner \in Tenant \cup {None}
      BY <3>1 DEF Kept, AppJob
    <3>3. ASSUME k.at \in {"call", "make", "owner"}, k.sound
          PROVE  \/ Dead(k.net)
                 \/ k.user.chosen = None /\ k.net = Apps!EffectiveTenantID(k.user)'
                 \/ k.user.chosen # None /\ k.net # None /\ net'[k.user.chosen] = k.net
      <4>1. \/ Dead(k.net)
            \/ k.user.chosen = None /\ k.net = Apps!EffectiveTenantID(k.user)
            \/ k.user.chosen # None /\ k.net # None /\ net[k.user.chosen] = k.net
        BY <3>1, <3>3 DEF Fits, Kept
      <4>2. Apps!Bearers(k.user.tenant)' = Apps!Bearers(k.user.tenant)
        BY <1>9, <3>1, <3>2, <3>3 DEF Kept, Apps!Busy
      <4>3. ~Apps!Linked(None) /\ ~Apps!Linked(None)'
        BY DEF Apps!Linked, Apps!Present, Apps!AppsAssumption
      <4>4. k.user.chosen = None => Apps!EffectiveTenantID(k.user)' = Apps!EffectiveTenantID(k.user)
        BY <4>2, <4>3 DEF Apps!EffectiveTenantID, Apps!ByToken
      <4> QED
        BY <1>2, <1>3, <3>2, <4>1, <4>4
    <3>4. ASSUME k.at = "file", k.sound
          PROVE  Dead(k.net) \/ (k.net # None /\ net'[k.owner] = k.net)
      BY <1>2, <1>3, <3>1, <3>2, <3>4 DEF Fits, Kept
    <3>5. Fits(k)'
      <4>1. app' = app /\ Dead(k.net)' = Dead(k.net)
        BY <1>1 DEF Dead
      <4> QED
        BY <3>1, <3>3, <3>4, <4>1 DEF Fits, Kept
    <3> QED
      BY <2>1, <3>5
  <2> QED
    BY <2>2, <2>3
<1>11. Apps!FiledAtHome'
  BY <1>1, <1>2, <1>3, <1>7 DEF Apps!FiledAtHome, Apps!Living, AppsTypeInv
<1>12. Pending'
  <2> SUFFICES ASSUME NEW x \in Apps!Living', filed'[x] = None, x \notin doubted',
                      (Apps!Bearers(app[x]) # {})'
               PROVE  \E b \in Request : Covers(job[b], x)'
    BY DEF Pending
  <2>4. x \in Apps!Living /\ filed[x] = None /\ x \notin doubted
    BY <1>1, <1>7
  <2>1. app[x] \in Network /\ app' = app
    BY <1>1, <2>4 DEF Apps!Living
  <2>2. CASE app[x] = n
    BY <1>4, <2>1, <2>2 DEF Covers, Apps!AppsAssumption
  <2>3. CASE app[x] # n
    <3>1. Apps!Bearers(app[x]) # {}
      BY <1>9, <2>1, <2>3
    <3>2. PICK b \in Request : Covers(job[b], x)
      BY <2>4, <3>1 DEF Pending
    <3>3. b # a
      BY <1>1, <3>2 DEF Covers
    <3> QED
      BY <1>5, <2>1, <3>2, <3>3 DEF Covers, Kept
  <2> QED
    BY <2>2, <2>3
<1>13. Alone' /\ Apps!OneIsEnough'
  BY <1>1, <1>4, <1>5, BootsStay DEF AppsTypeInv
<1> QED
  BY <1>6, <1>7, <1>10, <1>11, <1>12, <1>13

\* A tenant goes, with its network and the applications there or without.
LEMMA DeleteTenantStep ==
    ASSUME Apps!AppsAssumption, AppsInv, NEW t \in Tenant, Apps!DeleteTenant(t)
    PROVE  AppsInv'
<1> USE DEF AppsInv
<1>0. PICK m : m = net[t]
  OBVIOUS
<1>1. /\ t \in Apps!Present /\ net' = [net EXCEPT ![t] = "gone"]
      /\ filed' = [x \in Application |-> IF filed[x] = t THEN None ELSE filed[x]]
      /\ UNCHANGED <<booted, met>>
      /\ \/ /\ networks' = networks \ {m}
            /\ app' = [x \in Application |-> IF x \in Apps!Of(m) THEN "gone" ELSE app[x]]
            /\ UNCHANGED <<doubted, job>>
         \/ /\ UNCHANGED <<networks, app>>
            /\ doubted' = doubted \cup Apps!Of(m)
            /\ job' = [b \in Request |->
                 IF job[b].net = m THEN Apps!AtDoubting(b, job[b].at) ELSE job[b]]
  BY <1>0 DEF Apps!DeleteTenant, Apps!AppFault, Apps!Sure
<1>2. m \in Network \cup {None} /\ "gone" \notin Network \cup {None} /\ t # None
  BY <1>0, <1>1 DEF Apps!Present, Apps!AppsAssumption
<1>3. net'[t] = "gone" /\ \A v \in Tenant : v # t => net'[v] = net[v]
  BY <1>1 DEF AppsTypeInv
<1>4. Apps!Present' = Apps!Present \ {t}
  BY <1>1, <1>2, <1>3 DEF Apps!Present
<1>5. \A n \in Network \cup {None} : Apps!Bearers(n)' = Apps!Bearers(n) \ {t}
  BY <1>2, <1>3, <1>4 DEF Apps!Bearers, Apps!Present
\* Either the network goes with what it has, or all that work on it doubt.
<1>6. /\ networks' \subseteq networks /\ app' \in [Application -> Network \cup {None, "gone"}]
      /\ \A x \in Application :
            /\ app'[x] = app[x] \/ (app'[x] = "gone" /\ x \in Apps!Living)
            /\ x \in Apps!Living' => app'[x] \in networks'
      /\ doubted \subseteq doubted'
      /\ m \in Network => m \notin networks' \/ Apps!Of(m) \subseteq doubted'
  BY <1>1, <1>2 DEF AppsTypeInv, Apps!Of, Apps!Living, Placed
<1>7. /\ \A x \in Apps!Living' : x \in Apps!Living /\ app'[x] = app[x]
      /\ \A x \in Apps!Living : filed[x] = t => x \in doubted \/ app[x] = m
  BY <1>0, <1>2, <1>6 DEF Apps!Living, Apps!FiledAtHome
<1>8. ASSUME NEW b \in Request
      PROVE  /\ Kept(job'[b], job[b])
             /\ m \in networks' /\ job[b].net = m => ~job'[b].sound
  <2>1. job[b] \in AppJob /\ job[b].at \in AppSteps
    BY DEF AppsTypeInv, AppJob
  <2>2. CASE UNCHANGED job /\ m \notin networks'
    BY <2>1, <2>2 DEF Kept
  <2>3. CASE job' = [c \in Request |->
               IF job[c].net = m THEN Apps!AtDoubting(c, job[c].at) ELSE job[c]]
    <3>1. Turned(Apps!AtDoubting(b, job[b].at), job[b], job[b].at, job[b].net, job[b].todo,
                 job[b].owner, FALSE)
      BY <2>1, JobTurns DEF Apps!AtDoubting
    <3>2. CASE job[b].net = m
      <4>1. job'[b] = Apps!AtDoubting(b, job[b].at)
        BY <2>3, <3>2
      <4> QED
        BY <3>1, <4>1 DEF Turned, Kept
    <3>3. CASE job[b].net # m
      <4>1. job'[b] = job[b]
        BY <2>3, <3>3
      <4> QED
        BY <2>1, <3>3, <4>1 DEF Kept
    <3> QED
      BY <3>2, <3>3
  <2> QED
    BY <1>1, <2>2, <2>3
<1>9. AppsTypeInv'
  <2>1. job' \in [Request -> AppJob]
    <3>1. \A b \in Request : job'[b] \in AppJob
      BY <1>8 DEF Kept
    <3>2. job' = [b \in Request |-> job'[b]]
      BY <1>1 DEF AppsTypeInv
    <3> QED
      BY <3>1, <3>2
  <2>2. /\ net' \in [Tenant -> Network \cup {None, "new", "gone"}]
        /\ filed' \in [Application -> Tenant \cup {None}]
    BY <1>1 DEF AppsTypeInv
  <2> QED
    BY <1>1, <1>6, <2>1, <2>2 DEF AppsTypeInv
<1>10. \A x \in Application : filed'[x] # None => filed'[x] = filed[x] /\ filed[x] # t
  BY <1>1
<1>11. Placed'
  BY <1>2, <1>6, <1>10 DEF Placed, Apps!Living, Apps!AppsAssumption
<1>12. ASSUME NEW b \in Request PROVE Fits(job[b])'
  <2>1. PICK k : k = job'[b]
    OBVIOUS
  <2>2. /\ Kept(k, job[b]) /\ Fits(job[b])
        /\ k.sound /\ k.net = m /\ m \in Network => Dead(m)'
    <3>1. Kept(k, job[b]) /\ (m \in networks' /\ job[b].net = m => ~k.sound)
      BY <1>8, <2>1
    <3>2. k.net = job[b].net
      BY <3>1 DEF Kept
    <3> QED
      BY <3>1, <3>2 DEF Dead
  <2>3. k.net \in Network \cup {None} /\ k.user.tenant \in Network \cup {None}
        /\ k.user.chosen \in Tenant \cup {None} /\ k.owner \in Tenant \cup {None}
        /\ k.todo \subseteq Application
    BY <2>2 DEF Kept, AppJob
  <2>4. Dead(k.net) => Dead(k.net)'
    BY <1>6 DEF Dead
  <2>5. ASSUME k.at \in {"owner", "file"}, NEW x \in k.todo
        PROVE  app'[x] # None /\ (k.net # None => app'[x] \in {k.net, "gone"})
    <3>1. app[x] # None /\ (k.net # None => app[x] \in {k.net, "gone"})
      BY <2>2, <2>5 DEF Fits, Kept
    <3> QED
      BY <1>2, <1>6, <2>3, <3>1
  <2>6. ASSUME k.at \in {"call", "make", "owner"}, k.sound
        PROVE  \/ Dead(k.net)'
               \/ k.user.chosen = None /\ k.net = Apps!EffectiveTenantID(k.user)'
               \/ k.user.chosen # None /\ k.net # None /\ net'[k.user.chosen] = k.net
    <3>1. \/ Dead(k.net)
          \/ k.user.chosen = None /\ k.net = Apps!EffectiveTenantID(k.user)
          \/ k.user.chosen # None /\ k.net # None /\ net[k.user.chosen] = k.net
      BY <2>2, <2>6 DEF Fits, Kept
    <3>2. CASE k.user.chosen = None /\ k.net = Apps!EffectiveTenantID(k.user)
      <4>1. ~Apps!Linked(None) /\ ~Apps!Linked(None)'
        BY DEF Apps!Linked, Apps!Present, Apps!AppsAssumption
      <4>2. k.net = Apps!ByToken(k.user, Apps!Bearers(k.user.tenant) # {})
        BY <3>2, <4>1 DEF Apps!EffectiveTenantID
      <4>3. CASE Apps!Bearers(k.user.tenant) # {} /\ Apps!Bearers(k.user.tenant)' = {}
        <5>1. t \in Apps!Bearers(k.user.tenant)
          BY <1>5, <2>3, <4>3
        <5>2. k.user.tenant = m /\ m # None
          BY <1>0, <5>1 DEF Apps!Bearers
        <5>3. k.net = m
          BY <4>2, <4>3, <5>2 DEF Apps!ByToken
        <5> QED
          BY <1>2, <2>2, <2>6, <5>2, <5>3
      <4>4. CASE Apps!Bearers(k.user.tenant) # {} <=> Apps!Bearers(k.user.tenant)' # {}
        <5>1. Apps!EffectiveTenantID(k.user)' = Apps!EffectiveTenantID(k.user)
          BY <3>2, <4>1, <4>4 DEF Apps!EffectiveTenantID, Apps!ByToken
        <5> QED
          BY <3>2, <5>1
      <4>5. Apps!Bearers(k.user.tenant)' # {} => Apps!Bearers(k.user.tenant) # {}
        BY <1>5, <2>3
      <4> QED
        BY <4>3, <4>4, <4>5
    <3>3. CASE k.user.chosen # None /\ k.net # None /\ net[k.user.chosen] = k.net
      BY <1>0, <1>2, <1>3, <2>2, <2>3, <2>6, <3>3
    <3> QED
      BY <2>4, <3>1, <3>2, <3>3
  <2>7. ASSUME k.at = "file", k.sound
        PROVE  Dead(k.net)' \/ (k.net # None /\ net'[k.owner] = k.net)
    <3>1. Dead(k.net) \/ (k.net # None /\ net[k.owner] = k.net /\ k.owner \in Tenant)
      BY <2>2, <2>7 DEF Fits, Kept
    <3> QED
      BY <1>0, <1>2, <1>3, <2>2, <2>3, <2>4, <2>7, <3>1
  <2>8. Fits(k)'
    BY <2>2, <2>5, <2>6, <2>7 DEF Fits, Kept
  <2> QED
    BY <2>1, <2>8
<1>13. Apps!FiledAtHome'
  <2> SUFFICES ASSUME NEW x \in Apps!Living', filed'[x] # None, x \notin doubted'
               PROVE  net'[filed'[x]] = app'[x]
    BY DEF Apps!FiledAtHome
  <2>1. x \in Application /\ x \in Apps!Living /\ app'[x] = app[x] /\ x \notin doubted
    BY <1>6, <1>7 DEF Apps!Living
  <2> QED
    BY <1>3, <1>10, <2>1 DEF Apps!FiledAtHome, AppsTypeInv
<1>14. Pending'
  <2> SUFFICES ASSUME NEW x \in Apps!Living', filed'[x] = None, x \notin doubted',
                      (Apps!Bearers(app[x]) # {})'
               PROVE  \E b \in Request : Covers(job[b], x)'
    BY DEF Pending
  <2>1. /\ x \in Application /\ x \in Apps!Living /\ app'[x] = app[x] /\ x \notin doubted
        /\ app[x] \in Network /\ app[x] \in networks'
    BY <1>6, <1>7 DEF Apps!Living
  <2>2. filed[x] = None
    <3>1. CASE filed[x] = t
      BY <1>6, <1>7, <2>1, <3>1 DEF Apps!Of
    <3> QED
      BY <1>1, <2>1, <3>1
  <2>3. Apps!Bearers(app[x]) # {}
    BY <1>5, <2>1
  <2>4. PICK b \in Request : Covers(job[b], x)
    BY <2>1, <2>2, <2>3 DEF Pending
  <2> QED
    BY <1>8, <2>1, <2>4 DEF Covers, Kept
<1>15. Alone' /\ Apps!OneIsEnough'
  BY <1>1, <1>6, <1>8, BootsStay
<1> QED
  BY <1>9, <1>11, <1>12, <1>13, <1>14, <1>15

\* Every step keeps the invariant.
LEMMA AppsStepInv ==
    ASSUME Apps!AppsAssumption, AppsInv, [Apps!AppsNext]_(Apps!appVars)
    PROVE  AppsInv'
<1>1. CASE UNCHANGED Apps!appVars
  <2>1. \A k : Fits(k)' <=> Fits(k)
    BY <1>1 DEF Apps!appVars, Fits, Dead, Apps!EffectiveTenantID, Apps!ByToken, Apps!Linked,
         Apps!Present, Apps!Bearers
  <2>2. \A a \in Request : Fits(job[a])'
    <3> SUFFICES ASSUME NEW a \in Request PROVE Fits(job[a])'
      OBVIOUS
    <3>1. PICK k : k = job'[a]
      OBVIOUS
    <3>2. Fits(k)
      BY <1>1, <3>1 DEF Apps!appVars, AppsInv
    <3>3. Fits(k)'
      BY <2>1, <3>2
    <3> QED
      BY <3>1, <3>3
  <2> QED
    BY <1>1, <2>2 DEF Apps!appVars, AppsInv, AppsTypeInv, Placed, Apps!Living, Apps!FiledAtHome,
         Pending, Alone,
       Apps!OneIsEnough, Covers, Runs, Apps!Bearers, Apps!Present
<1> QED
  BY <1>1, AskStep, ScopeStep, ListStep, BootstrapStep, CreateApplicationStep, OwnerStep, SyncStep,
     NewTenantStep, DeleteTenantStep DEF Apps!AppsNext

-----------------------------------------------------------------------------
(* The anomalies *)

DeviceTypes == {"silent_device", "weak_signal", "low_snr"}

\* Whose device is in trouble is told, unless the device sent for two.
DevicesTold(type) ==
    \A t \in Tenant, d \in Device : Alarms!Suspect(type, t, d) =>
        \E a \in anomalies : /\ a.type = type /\ a.of = d /\ hour - a.at <= 6
                             /\ a.tenant = t \/ Alarms!FramesOf(a.tenant, d) # {}

TenantsTold == \A t \in Tenant : Alarms!Spike(t) => Alarms!Told("traffic_spike", t)

\* The detections that are behind when this one is next.
Behind == [silent_device |-> {}, weak_signal |-> {"silent_device"},
           traffic_spike |-> {"silent_device", "weak_signal"},
           inserts |-> {"silent_device", "weak_signal"},
           low_snr |-> {"silent_device", "weak_signal"}]

NotRepeated ==
    \A a, b \in anomalies :
        a # b /\ a.type = b.type /\ a.of = b.of =>
            \/ a.at = b.at /\ a.tenant # b.tenant
            \/ a.at > b.at + 6 \/ b.at > a.at + 6

\* A device's anomaly is of a tenant for which it sent.
Dated ==
    /\ hour \in Nat /\ detecting \in DOMAIN Behind \cup {"none"}
    /\ \A a \in anomalies :
          /\ a.at \in Nat /\ a.at <= hour
          /\ a.type \in DeviceTypes => Alarms!FramesOf(a.tenant, a.of) # {}

\* While nothing happens, what the run has behind it is told.
SoFar ==
    quiet = "so_far" =>
        /\ detecting # "none"
        /\ \A type \in Behind[detecting] : DevicesTold(type)
        /\ detecting = "inserts" =>
              \A t \in Tenant :
                 Alarms!Spike(t) => t \in spiking \/ Alarms!Told("traffic_spike", t)
        /\ detecting = "low_snr" => TenantsTold

AtEnd ==
    quiet = "yes" =>
        /\ detecting = "none" /\ TenantsTold
        /\ \A type \in DeviceTypes : DevicesTold(type)

AnomaliesInv == NotRepeated /\ Dated /\ SoFar /\ AtEnd

\* The invariant contains what is claimed.
LEMMA AnomaliesInPlace == AnomaliesInv => Alarms!AnomaliesTold
BY DEF AnomaliesInv, Alarms!AnomaliesTold, NotRepeated, AtEnd, TenantsTold, DevicesTold, DeviceTypes

LEMMA DetectionInitInv == Alarms!DetectionInit => AnomaliesInv
BY DEF Alarms!DetectionInit, AnomaliesInv, NotRepeated, Dated, SoFar, AtEnd, Behind

\* The sum over no frames.
LEMMA NothingCounts == Alarms!CountOf({}) = 0
BY Zenon DEF Alarms!CountOf, Alarms!MapThenSumSet, Alarms!MapThenFoldSet

\* Only a device that sent for the tenant is suspected.
LEMMA SuspectSent ==
    ASSUME NEW type \in DeviceTypes, NEW t, NEW d, Alarms!Suspect(type, t, d)
    PROVE  Alarms!FramesOf(t, d) # {}
<1>1. ASSUME NEW field, NEW threshold, Alarms!Below(t, d, field, threshold)
      PROVE  Alarms!FramesOf(t, d) # {}
  <2>1. Alarms!FramesOf(t, d) = {} => {f \in Alarms!FramesOf(t, d) : f.time >= hour - 1} = {}
    OBVIOUS
  <2>2. ~(0 >= 3)
    OBVIOUS
  <2> QED
    BY <1>1, <2>1, <2>2, NothingCounts DEF Alarms!Below
<1>2. ASSUME Alarms!Silent(t, d)
      PROVE  Alarms!FramesOf(t, d) # {}
  BY <1>2 DEF Alarms!Silent
<1> QED
  BY <1>1, <1>2 DEF Alarms!Suspect, DeviceTypes

\* What is suspected depends on the frames and the hour.
LEMMA SuspectStays ==
    ASSUME UNCHANGED <<heard, hour>>, NEW type, NEW t, NEW d
    PROVE  Alarms!Suspect(type, t, d)' <=> Alarms!Suspect(type, t, d)
BY DEF Alarms!Suspect, Alarms!Silent, Alarms!Below, Alarms!FramesOf

LEMMA SpikeStays ==
    ASSUME UNCHANGED <<heard, hour>>, NEW t
    PROVE  Alarms!Spike(t)' <=> Alarms!Spike(t)
BY DEF Alarms!Spike

\* What is told stays so while nobody resolves it and no hour passes.
LEMMA ToldStays ==
    ASSUME UNCHANGED <<heard, hour>>, anomalies \subseteq anomalies'
    PROVE  /\ \A type : DevicesTold(type) => DevicesTold(type)'
           /\ \A t : Alarms!Told("traffic_spike", t) => Alarms!Told("traffic_spike", t)'
           /\ TenantsTold => TenantsTold'
<1>1. ASSUME NEW type, DevicesTold(type)
      PROVE  DevicesTold(type)'
  <2>1. \A t, d : Alarms!Suspect(type, t, d)' => Alarms!Suspect(type, t, d)
    BY SuspectStays
  <2>2. \A t, d : Alarms!FramesOf(t, d)' = Alarms!FramesOf(t, d)
    BY DEF Alarms!FramesOf
  <2> QED
    BY <1>1, <2>1, <2>2 DEF DevicesTold
<1>2. \A t : Alarms!Told("traffic_spike", t) => Alarms!Told("traffic_spike", t)'
  BY DEF Alarms!Told
<1>3. TenantsTold => TenantsTold'
  BY <1>2, SpikeStays DEF TenantsTold
<1> QED
  BY <1>1, <1>2, <1>3

\* New anomalies, which nobody was told of within six hours.
LEMMA NewsStep ==
    ASSUME AnomaliesInv, NEW type, NEW News,
           \A e \in News : e = Alarms!Event(type, e.tenant, e.of) /\ ~Alarms!Told(type, e.of),
           type \in DeviceTypes => \A e \in News : Alarms!FramesOf(e.tenant, e.of) # {},
           anomalies' = anomalies \cup News, UNCHANGED <<heard, hour>>,
           detecting' \in DOMAIN Behind \cup {"none"}
    PROVE  NotRepeated' /\ Dated'
<1> USE DEF AnomaliesInv
<1>1. \A e \in News : e.type = type /\ e.at = hour
  BY DEF Alarms!Event
<1>2. \A e \in News, f \in News : e # f /\ e.of = f.of => e.tenant # f.tenant
  BY DEF Alarms!Event
<1>3. ASSUME NEW e \in News, NEW a \in anomalies, a.type = type, a.of = e.of
      PROVE  e.at > a.at + 6
  <2>1. ~(a.at >= hour - 6) /\ a.at \in Nat /\ hour \in Nat
    BY <1>3 DEF Alarms!Told, Dated
  <2> QED
    BY <1>1, <2>1
<1>4. NotRepeated'
  <2> SUFFICES ASSUME NEW a \in anomalies', NEW b \in anomalies',
                      a # b, a.type = b.type, a.of = b.of
               PROVE  \/ a.at = b.at /\ a.tenant # b.tenant
                      \/ a.at > b.at + 6 \/ b.at > a.at + 6
    BY DEF NotRepeated
  <2>1. CASE a \in anomalies /\ b \in anomalies
    BY <2>1 DEF NotRepeated
  <2>2. CASE a \in News /\ b \in News
    BY <1>1, <1>2, <2>2
  <2>3. CASE a \in News /\ b \in anomalies
    BY <1>1, <1>3, <2>3
  <2>4. CASE a \in anomalies /\ b \in News
    BY <1>1, <1>3, <2>4
  <2> QED
    BY <2>1, <2>2, <2>3, <2>4
<1>5. Dated'
  BY <1>1 DEF Dated, Alarms!FramesOf
<1> QED
  BY <1>4, <1>5

\* A detection tells of every device it suspects that was not told of.
LEMMA DevicesStep ==
    ASSUME AnomaliesInv, Alarms!DetectDevices
    PROVE  AnomaliesInv'
<1> DEFINE type == detecting
           News == {Alarms!Event(type, p[1], p[2]) : p \in {q \in Tenant \X Device :
                       Alarms!Suspect(type, q[1], q[2]) /\ ~Alarms!Told(type, q[2])}}
<1>0. PICK was : was = detecting
  OBVIOUS
<1>1. /\ was \in DeviceTypes /\ anomalies' = anomalies \cup News
      /\ detecting' = Alarms!NextDetection[was]
      /\ quiet' = IF was = "low_snr" /\ quiet = "so_far" THEN "yes" ELSE quiet
      /\ UNCHANGED <<heard, spiking, hour>>
  BY <1>0 DEF Alarms!DetectDevices, DeviceTypes
<1>2. \A e \in News : /\ e = Alarms!Event(was, e.tenant, e.of) /\ ~Alarms!Told(was, e.of)
                      /\ Alarms!Suspect(was, e.tenant, e.of)
  BY <1>0 DEF Alarms!Event
<1>3. \A e \in News : Alarms!FramesOf(e.tenant, e.of) # {}
  BY <1>1, <1>2, SuspectSent
<1>4. \A t \in Tenant, d \in Device :
         Alarms!Suspect(was, t, d) /\ ~Alarms!Told(was, d) => Alarms!Event(was, t, d) \in News
  <2> SUFFICES ASSUME NEW t \in Tenant, NEW d \in Device,
                      Alarms!Suspect(was, t, d), ~Alarms!Told(was, d)
               PROVE  Alarms!Event(was, t, d) \in News
    OBVIOUS
  <2>1. <<t, d>> \in {q \in Tenant \X Device :
                        Alarms!Suspect(type, q[1], q[2]) /\ ~Alarms!Told(type, q[2])}
    BY <1>0
  <2> QED
    BY <1>0, <2>1
<1> HIDE DEF News
<1>5. /\ was = "silent_device" => detecting' = "weak_signal"
      /\ was = "weak_signal" => detecting' = "traffic_spike"
      /\ was = "low_snr" => detecting' = "none"
  BY <1>1 DEF Alarms!NextDetection
<1>6. NotRepeated' /\ Dated'
  BY <1>1, <1>2, <1>3, <1>5, NewsStep DEF Behind, DeviceTypes
<1>7. DevicesTold(was)'
  <2> SUFFICES ASSUME NEW t \in Tenant, NEW d \in Device, Alarms!Suspect(was, t, d)'
               PROVE  \E a \in anomalies' : /\ a.type = was /\ a.of = d /\ hour - a.at <= 6
                                            /\ a.tenant = t \/ Alarms!FramesOf(a.tenant, d)' # {}
    BY <1>1 DEF DevicesTold
  <2>1. Alarms!Suspect(was, t, d)
    BY <1>1, SuspectStays
  <2>2. CASE Alarms!Told(was, d)
    <3>1. PICK a \in anomalies : a.type = was /\ a.of = d /\ a.at >= hour - 6
      BY <2>2 DEF Alarms!Told
    <3>2. Alarms!FramesOf(a.tenant, d)' # {} /\ a.at \in Nat /\ hour \in Nat
      BY <1>1, <3>1 DEF AnomaliesInv, Dated, Alarms!FramesOf
    <3> QED
      BY <1>1, <3>1, <3>2
  <2>3. CASE ~Alarms!Told(was, d)
    <3>1. PICK e \in anomalies' : e = Alarms!Event(was, t, d)
      BY <1>1, <1>4, <2>1, <2>3
    <3>2. e.type = was /\ e.of = d /\ e.at = hour /\ e.tenant = t /\ hour \in Nat
      BY <3>1 DEF Alarms!Event, AnomaliesInv, Dated
    <3> QED
      BY <3>2
  <2> QED
    BY <2>2, <2>3
<1>8. /\ \A k : DevicesTold(k) => DevicesTold(k)'
      /\ TenantsTold => TenantsTold'
  BY <1>1, ToldStays
<1>9. ASSUME NEW k, k \in Behind[was] \cup {was}, quiet = "so_far"
      PROVE  DevicesTold(k)'
  BY <1>0, <1>7, <1>8, <1>9 DEF AnomaliesInv, SoFar
<1>10. quiet' = "so_far" \/ quiet' = "yes" => quiet = "so_far"
  BY <1>0, <1>1 DEF AnomaliesInv, AtEnd, DeviceTypes
<1>11. SoFar'
  <2>1. CASE was = "silent_device"
    BY <1>1, <1>5, <1>9, <1>10, <2>1 DEF SoFar, Behind
  <2>2. CASE was = "weak_signal"
    BY <1>1, <1>5, <1>9, <1>10, <2>2 DEF SoFar, Behind
  <2>3. CASE was = "low_snr"
    BY <1>1, <1>10, <2>3 DEF SoFar
  <2> QED
    BY <1>1, <2>1, <2>2, <2>3 DEF DeviceTypes
<1>12. AtEnd'
  <2> SUFFICES ASSUME quiet' = "yes" PROVE AtEnd'
    BY DEF AtEnd
  <2>1. was = "low_snr" /\ quiet = "so_far"
    BY <1>1, <1>10
  <2>2. TenantsTold'
    BY <1>0, <1>8, <2>1 DEF AnomaliesInv, SoFar
  <2>3. \A k \in DeviceTypes : k \in Behind[was] \cup {was}
    BY <2>1 DEF DeviceTypes, Behind
  <2> QED
    BY <1>5, <1>9, <2>1, <2>2, <2>3 DEF AtEnd
<1> QED
  BY <1>6, <1>11, <1>12 DEF AnomaliesInv

\* The tenants with a spike are noted, and told one by one.
LEMMA SpikesStep ==
    ASSUME AnomaliesInv, Alarms!DetectSpikes
    PROVE  AnomaliesInv'
<1>1. /\ detecting = "traffic_spike" /\ detecting' = "inserts"
      /\ spiking' = {t \in Tenant : Alarms!Spike(t)}
      /\ UNCHANGED <<heard, anomalies, hour, quiet>>
  BY DEF Alarms!DetectSpikes
<1>2. NotRepeated' /\ Dated'
  BY <1>1 DEF AnomaliesInv, NotRepeated, Dated, Alarms!FramesOf, Behind
<1>3. SoFar'
  BY <1>1, ToldStays, SpikeStays DEF AnomaliesInv, SoFar, Behind
<1> QED
  BY <1>1, <1>2, <1>3 DEF AnomaliesInv, AtEnd

LEMMA InsertSpikeStep ==
    ASSUME AnomaliesInv, NEW t \in Tenant, Alarms!InsertSpike(t)
    PROVE  AnomaliesInv'
<1>1. /\ detecting = "inserts" /\ spiking' = spiking \ {t}
      /\ UNCHANGED <<heard, detecting, hour, quiet>>
      /\ anomalies' = IF Alarms!Told("traffic_spike", t) THEN anomalies
                      ELSE anomalies \cup {Alarms!Event("traffic_spike", t, t)}
  BY DEF Alarms!InsertSpike
<1> DEFINE News == IF Alarms!Told("traffic_spike", t) THEN {}
                   ELSE {Alarms!Event("traffic_spike", t, t)}
<1>2. /\ anomalies' = anomalies \cup News
      /\ \A e \in News :
            /\ e = Alarms!Event("traffic_spike", e.tenant, e.of)
            /\ ~Alarms!Told("traffic_spike", e.of)
  BY <1>1 DEF Alarms!Event
<1> HIDE DEF News
<1>3. NotRepeated' /\ Dated'
  BY <1>1, <1>2, NewsStep DEF Behind, DeviceTypes
<1>4. Alarms!Told("traffic_spike", t)'
  <2>1. CASE Alarms!Told("traffic_spike", t)
    BY <1>1, <1>2, <2>1, ToldStays
  <2>2. CASE ~Alarms!Told("traffic_spike", t)
    <3>1. PICK e \in anomalies' : e = Alarms!Event("traffic_spike", t, t)
      BY <1>1, <2>2
    <3>2. e.type = "traffic_spike" /\ e.of = t /\ e.at = hour /\ hour \in Nat
      BY <3>1 DEF Alarms!Event, AnomaliesInv, Dated
    <3> QED
      BY <1>1, <3>2 DEF Alarms!Told
  <2> QED
    BY <2>1, <2>2
<1>5. SoFar'
  <2> SUFFICES ASSUME quiet' = "so_far" PROVE SoFar'
    BY DEF SoFar
  <2>1. \A k \in Behind["inserts"] : DevicesTold(k)'
    BY <1>1, <1>2, ToldStays DEF AnomaliesInv, SoFar
  <2>2. ASSUME NEW v \in Tenant, Alarms!Spike(v)'
        PROVE  v \in spiking' \/ Alarms!Told("traffic_spike", v)'
    <3>1. Alarms!Spike(v)
      BY <1>1, <2>2, SpikeStays
    <3>2. v \in spiking \/ Alarms!Told("traffic_spike", v)
      BY <1>1, <3>1 DEF AnomaliesInv, SoFar
    <3> QED
      BY <1>1, <1>2, <1>4, <3>2, ToldStays
  <2> QED
    BY <1>1, <2>1, <2>2 DEF SoFar
<1> QED
  BY <1>1, <1>3, <1>5 DEF AnomaliesInv, AtEnd

\* Every step keeps the invariant.
LEMMA DetectionStepInv ==
    ASSUME Alarms!GapsAssumption, AnomaliesInv, [Alarms!DetectionNext]_(Alarms!detectionVars)
    PROVE  AnomaliesInv'
<1>1. CASE Alarms!SpikesInserted
  <2>1. /\ detecting = "inserts" /\ spiking = {} /\ detecting' = "low_snr"
        /\ UNCHANGED <<heard, anomalies, spiking, hour, quiet>>
    BY <1>1 DEF Alarms!SpikesInserted
  <2>2. NotRepeated' /\ Dated'
    BY <2>1 DEF AnomaliesInv, NotRepeated, Dated, Alarms!FramesOf, Behind
  <2>3. SoFar'
    BY <2>1, ToldStays DEF AnomaliesInv, SoFar, Behind, TenantsTold
  <2> QED
    BY <2>1, <2>2, <2>3 DEF AnomaliesInv, AtEnd
<1>2. CASE Alarms!Run
  <2>1. /\ detecting' = "silent_device" /\ quiet' = "so_far"
        /\ UNCHANGED <<heard, anomalies, spiking, hour>>
    BY <1>2 DEF Alarms!Run
  <2>2. NotRepeated' /\ Dated'
    BY <2>1 DEF AnomaliesInv, NotRepeated, Dated, Alarms!FramesOf, Behind
  <2> QED
    BY <2>1, <2>2 DEF AnomaliesInv, SoFar, AtEnd, Behind
<1>3. ASSUME quiet' = "no", hour' \in Nat, hour' >= hour, anomalies' \subseteq anomalies,
             heard \subseteq heard', detecting' \in {detecting, "none"}
      PROVE  AnomaliesInv'
  <2>1. Dated'
    BY <1>3 DEF AnomaliesInv, Dated, Alarms!FramesOf
  <2> QED
    BY <1>3, <2>1 DEF AnomaliesInv, NotRepeated, SoFar, AtEnd
<1>4. hour \in Nat
  BY DEF AnomaliesInv, Dated
<1>5. CASE Alarms!RunFails
  BY <1>3, <1>4, <1>5 DEF Alarms!RunFails
<1>6. ASSUME NEW a \in anomalies, Alarms!Resolve(a) PROVE AnomaliesInv'
  BY <1>3, <1>4, <1>6 DEF Alarms!Resolve
<1>7. ASSUME NEW b \in Burst, Alarms!Receive(b) PROVE AnomaliesInv'
  BY <1>3, <1>4, <1>7 DEF Alarms!Receive
<1>8. ASSUME NEW gap \in Gap, Alarms!HoursPass(gap) PROVE AnomaliesInv'
  BY <1>3, <1>4, <1>8 DEF Alarms!HoursPass, Alarms!GapsAssumption
<1>9. CASE UNCHANGED Alarms!detectionVars
  <2>1. UNCHANGED <<heard, anomalies, detecting, spiking, hour, quiet>>
    BY <1>9 DEF Alarms!detectionVars
  <2>2. NotRepeated' /\ Dated'
    BY <2>1 DEF AnomaliesInv, NotRepeated, Dated, Alarms!FramesOf
  <2>3. SoFar' /\ AtEnd'
    BY <2>1, ToldStays, SpikeStays DEF AnomaliesInv, SoFar, AtEnd
  <2> QED
    BY <2>2, <2>3 DEF AnomaliesInv
<1> QED
  BY <1>1, <1>2, <1>5, <1>6, <1>7, <1>8, <1>9, DevicesStep, SpikesStep, InsertSpikeStep
     DEF Alarms!DetectionNext

-----------------------------------------------------------------------------
\* Every reachable state has the declared types.
THEOREM TypeCorrect == Spec => []TypeOK
  <1>1. IInv => TypeOK
    BY DEF IInv
  <1> QED
    BY InitInv, NextInv, <1>1, PTL DEF Spec

\* No uplink event, object or archive row exists without the row of
\* uplink_frames it stands for, whatever fails in the handler.
THEOREM EventsAreBacked == Spec => []EventBacked
  <1>1. IInv => EventBacked
    BY DEF IInv
  <1> QED
    BY InitInv, NextInv, <1>1, PTL DEF Spec

\* A message is stored at most once and attributed to one tenant.
THEOREM StoredOnce == Spec => []OneRow
  <1>1. IInv => OneRow
    BY DEF IInv
  <1> QED
    BY InitInv, NextInv, <1>1, PTL DEF Spec

\* The events on NATS follow the order of ChirpStack's messages, each at most
\* once.
THEOREM PublishedInOrder == Spec => []InOrder
  <1>1. IInv => InOrder
    BY DEF IInv
  <1> QED
    BY InitInv, NextInv, <1>1, PTL DEF Spec

\* However messages, faults, and the work of mqtt-ingestion, of the consumers
\* and of the administrators interleave, a call to an application stands for a
\* frame stored under its tenant, and the calls of a rule or a connector follow
\* the order in which the devices sent, each frame once.
THEOREM CallsFromEndToEnd == TrafficSpec => []CallsFollowFrames
BY TrafficInvariant, CallsFollow, PTL

\* Refinement: what mqtt-ingestion publishes drives the consumers exactly as
\* UplinkConsumers lets its environment do.
THEOREM PipelineRefines == TrafficSpec => ConsumersSpec
<1>1. TrafficInit => Consumers!Init
  BY DEF TrafficInit, PipelineInit
<1>2. ASSUME PInv, [TrafficNext]_trafficVars
      PROVE  [Consumers!Next]_(Consumers!vars)
  BY <1>2, PipelineFeeds DEF TrafficNext, trafficVars, lorawanPart, PInv
<1> QED
  BY <1>1, <1>2, TrafficInvariant, PTL DEF TrafficSpec, ConsumersSpec, Consumers!Spec


(* What the other components keep, each for itself. *)

RecordsInv == EndpointInv /\ MembersInv /\ AppsInv /\ AnomaliesInv

\* The components share no state: each step is a step of one of them.
LEMMA RecordsInvariant == TrafficSpec => []RecordsInv
<1>1. TrafficInit => RecordsInv
  BY EndpointInitInv, MembersInitInv, AppsInitInv, DetectionInitInv,
     GadgetsAssumption, NetworksAssumption DEF TrafficInit, RecordsInv
<1>2. ASSUME RecordsInv, [TrafficNext]_trafficVars
      PROVE  RecordsInv'
  <2>1. [IoT!EndpointNext]_(IoT!endpointVars)
    BY <1>2 DEF TrafficNext, trafficVars, endpointPart, IoT!endpointVars, IoT!registry, IoT!traffic
  <2>2. [Members!MembersNext]_(Members!memberVars)
    BY <1>2 DEF TrafficNext, trafficVars, memberPart, Members!memberVars
  <2>3. [Apps!AppsNext]_(Apps!appVars)
    BY <1>2 DEF TrafficNext, trafficVars, appPart, Apps!appVars
  <2>4. [Alarms!DetectionNext]_(Alarms!detectionVars)
    BY <1>2 DEF TrafficNext, trafficVars, anomalyPart, Alarms!detectionVars
  <2> QED
    BY <1>2, <2>1, <2>2, <2>3, <2>4, EndpointStepInv, MembersStepInv, AppsStepInv, DetectionStepInv,
       GadgetsAssumption, NoneIsNoAccount, NetworksAssumption, TimesAssumption DEF RecordsInv
<1> QED
  BY <1>1, <1>2, PTL DEF TrafficSpec

\* For any devices, tenants, members, applications and frames, and any number
\* of requests, faults and restarts: telemetry is filed under the endpoint that
\* is meant; directory and table of members agree; an application is filed under
\* a tenant of its own network, and no assistant makes a second one after the
\* first; an anomaly is told by the next run, and once in six hours.
THEOREM RecordsStayInPlace == TrafficSpec => []RecordsInPlace
<1>1. RecordsInv => RecordsInPlace
  BY EndpointsInPlace, MembersMatch, AppsInPlace, AnomaliesInPlace DEF RecordsInv, RecordsInPlace
<1> QED
  BY <1>1, RecordsInvariant, PTL
=============================================================================
