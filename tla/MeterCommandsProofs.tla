------------------------ MODULE MeterCommandsProofs ------------------------
(***************************************************************************)
(* Proofs about MeterCommands, for every set of devices, tenants and       *)
(* payloads and every bound.                                               *)
(***************************************************************************)
EXTENDS MeterCommandsMC, SequenceTheorems, TLAPS

\* A row that was inserted has a device, a tenant and a payload.
RowShape ==
    \A c \in Command : row[c].status # "none" =>
        row[c].device \in Device /\ row[c].tenant \in Tenant /\ row[c].payload \in Payload

\* What send_command knows of its own row at each of its steps, because no
\* other handler runs before it returns.
WorkerRow ==
    /\ worker.pc = "idle" => worker.cmd = 0
    /\ worker.pc \in {"inserted", "enqueued"} => row[worker.cmd].status = "pending"
    /\ worker.pc = "enqueued" => worker.cmd \in accepted
    /\ worker.pc = "error" => row[worker.cmd].status \in {"pending", "sent"}

Core == TypeOK /\ RowShape /\ WorkerRow

LEMMA CoreInit == Init => Core
  BY OwnerAssumption, NoneAssumption, BoundAssumption
     DEF Init, Core, TypeOK, RowShape, WorkerRow, Row, NoRow, Idle, Status,
         Command, Item, AckEvent

\* What update_command_status changes and what it leaves alone.
LEMMA UpdateStatusLemma ==
    ASSUME TypeOK, NEW c \in Command, NEW s \in Status, UpdateStatus(c, s)
    PROVE  /\ row' \in [Command -> Row]
           /\ clock' \in Nat
           /\ row'[c].status = s
           /\ row'[c].device = row[c].device
           /\ row'[c].tenant = row[c].tenant
           /\ row'[c].payload = row[c].payload
           /\ row'[c].fCntDown = row[c].fCntDown
           /\ \A b \in Command : b # c => row'[b] = row[b]
  <1>1. row[c] \in Row /\ clock \in Nat
    BY DEF TypeOK
  <1> DEFINE at == IF s = "sent" THEN clock + 1 ELSE row[c].sentAt
             new == [row[c] EXCEPT !.status = s, !.sentAt = at]
  <1>2. row' = [row EXCEPT ![c] = new]
    BY <1>1 DEF UpdateStatus, TypeOK, Row
  <1>3. clock' \in Nat
    BY <1>1 DEF UpdateStatus
  <1>4. at \in Nat
    BY <1>1 DEF Row
  <1> HIDE DEF at
  <1>5. new \in Row
    BY <1>1, <1>4 DEF Row
  <1>6. /\ new.status = s /\ new.device = row[c].device /\ new.tenant = row[c].tenant
        /\ new.payload = row[c].payload /\ new.fCntDown = row[c].fCntDown
    BY <1>1 DEF Row
  <1> HIDE DEF new
  <1> QED
    BY <1>2, <1>3, <1>5, <1>6 DEF TypeOK

\* What an ack event changes and what it leaves alone.
LEMMA AcknowledgeLemma ==
    ASSUME TypeOK, NEW n \in 1..Len(events), AcknowledgeCommand(n)
    PROVE  /\ row' \in [Command -> Row]
           /\ clock' = clock
           /\ \/ row' = row
              \/ \E c \in Candidates(events[n]) :
                    /\ row'[c] = [row[c] EXCEPT !.status = "acknowledged", !.fCntDown = n]
                    /\ \A b \in Command : b # c => row'[b] = row[b]
  <1>1. CASE UNCHANGED rowVars
    BY <1>1 DEF rowVars, TypeOK
  <1>2. CASE \E c \in Candidates(events[n]) :
               row' = [row EXCEPT ![c].status = "acknowledged", ![c].fCntDown = n]
    <2>1. PICK c \in Candidates(events[n]) :
             row' = [row EXCEPT ![c].status = "acknowledged", ![c].fCntDown = n]
      BY <1>2
    <2>2. c \in Command /\ row[c] \in Row /\ n \in Nat
      BY DEF Candidates, TypeOK
    <2>3. row' = [row EXCEPT ![c] =
                    [row[c] EXCEPT !.status = "acknowledged", !.fCntDown = n]]
      BY <2>1, <2>2 DEF TypeOK, Row
    <2>4. [row[c] EXCEPT !.status = "acknowledged", !.fCntDown = n] \in Row
      BY <2>2 DEF Row, Status
    <2>5. row' \in [Command -> Row]
      BY <2>2, <2>3, <2>4 DEF TypeOK
    <2>6. clock' = clock
      BY DEF AcknowledgeCommand, rowVars
    <2> QED
      BY <2>2, <2>3, <2>5, <2>6 DEF TypeOK
  <1> QED
    BY <1>1, <1>2 DEF AcknowledgeCommand

LEMMA PutOnQueueLemma ==
    ASSUME Core, BoundAssumption, NEW c \in Command, row[c].status # "none", PutOnQueue(c)
    PROVE  queue' \in [Device -> Seq(Item)] /\ accepted' \subseteq Command
  <1>1. row[c].device \in Device /\ row[c].payload \in Payload
    BY DEF Core, RowShape
  <1>2. [cmd |-> c, payload |-> row[c].payload] \in Item
    BY <1>1 DEF Item, Command
  <1>3. Append(queue[row[c].device], [cmd |-> c, payload |-> row[c].payload]) \in Seq(Item)
    BY <1>1, <1>2 DEF Core, TypeOK
  <1> QED
    BY <1>1, <1>3 DEF PutOnQueue, Core, TypeOK

LEMMA CoreStep == Core /\ [Next]_vars => Core'
  <1> SUFFICES ASSUME Core, [Next]_vars
               PROVE  Core'
    OBVIOUS
  <1> USE BoundAssumption DEF Core
  <1>1. CASE Request
    <2>1. PICK c \in Command, d \in Device, t \in Tenant, p \in Payload :
             SendCommand(c, d, t, p)
      BY <1>1 DEF Request
    <2> DEFINE new == [status |-> "pending", device |-> d, tenant |-> t,
                       payload |-> p, sentAt |-> 0, fCntDown |-> 0]
    <2>2. new.status = "pending" /\ new.device = d /\ new.tenant = t /\ new.payload = p
      OBVIOUS
    <2>3. new \in Row
      BY DEF Row, Status
    <2>4. row' = [row EXCEPT ![c] = new]
      BY <2>1 DEF SendCommand
    <2> HIDE DEF new
    <2>5. TypeOK'
      BY <2>1, <2>3, <2>4 DEF SendCommand, netVars, Command, TypeOK
    <2>6. RowShape'
      BY <2>2, <2>4 DEF RowShape, TypeOK
    <2>7. WorkerRow'
      BY <2>1, <2>2, <2>4 DEF SendCommand, WorkerRow, TypeOK
    <2> QED BY <2>5, <2>6, <2>7
  <1>2. ASSUME NEW c \in Command, EnqueueDownlink(c)
        PROVE  Core'
    <2>1. queue' \in [Device -> Seq(Item)] /\ accepted' \subseteq Command
      BY <1>2, PutOnQueueLemma DEF EnqueueDownlink, WorkerRow
    <2>2. TypeOK'
      BY <1>2, <2>1 DEF EnqueueDownlink, TypeOK, rowVars, Command
    <2> QED BY <1>2, <2>2 DEF EnqueueDownlink, RowShape, WorkerRow, rowVars, PutOnQueue
  <1>3. ASSUME NEW c \in Command, EnqueueReplyLost(c)
        PROVE  Core'
    <2>1. queue' \in [Device -> Seq(Item)] /\ accepted' \subseteq Command
      BY <1>3, PutOnQueueLemma DEF EnqueueReplyLost, WorkerRow
    <2>2. TypeOK'
      BY <1>3, <2>1 DEF EnqueueReplyLost, TypeOK, rowVars, Command, Fault
    <2> QED BY <1>3, <2>2 DEF EnqueueReplyLost, RowShape, WorkerRow, rowVars, PutOnQueue
  <1>4. ASSUME NEW c \in Command, EnqueueRefused(c)
        PROVE  Core'
    BY <1>4 DEF EnqueueRefused, TypeOK, RowShape, WorkerRow, rowVars, netVars, Command
  <1>5. ASSUME NEW c \in Command, MarkSent(c)
        PROVE  Core'
    <2>1. "sent" \in Status /\ UpdateStatus(c, "sent")
      BY <1>5 DEF MarkSent, Status
    <2>2. TypeOK'
      BY <1>5, <2>1, UpdateStatusLemma DEF MarkSent, TypeOK, Idle, netVars
    <2>3. RowShape'
      BY <1>5, <2>1, UpdateStatusLemma DEF MarkSent, RowShape, WorkerRow
    <2> QED BY <1>5, <2>2, <2>3 DEF MarkSent, WorkerRow, Idle
  <1>6. ASSUME NEW c \in Command, MarkSentFails(c)
        PROVE  Core'
    <2>1. CASE UpdateStatus(c, "sent")
      <3>1. "sent" \in Status
        BY DEF Status
      <3>2. TypeOK'
        BY <1>6, <2>1, <3>1, UpdateStatusLemma
           DEF MarkSentFails, TypeOK, netVars, Fault, Command
      <3>3. RowShape'
        BY <1>6, <2>1, <3>1, UpdateStatusLemma DEF MarkSentFails, RowShape, WorkerRow
      <3>4. WorkerRow'
        BY <1>6, <2>1, <3>1, UpdateStatusLemma DEF MarkSentFails, WorkerRow
      <3> QED BY <3>2, <3>3, <3>4
    <2>2. CASE UNCHANGED rowVars
      BY <1>6, <2>2 DEF MarkSentFails, TypeOK, RowShape, WorkerRow, rowVars, netVars,
                        Fault, Command
    <2> QED BY <1>6, <2>1, <2>2 DEF MarkSentFails
  <1>7. ASSUME NEW c \in Command, MarkFailed(c)
        PROVE  Core'
    <2>1. "failed" \in Status /\ UpdateStatus(c, "failed")
      BY <1>7 DEF MarkFailed, Status
    <2>2. TypeOK'
      BY <1>7, <2>1, UpdateStatusLemma DEF MarkFailed, TypeOK, Idle, netVars
    <2>3. RowShape'
      BY <1>7, <2>1, UpdateStatusLemma DEF MarkFailed, RowShape, WorkerRow
    <2> QED BY <1>7, <2>2, <2>3 DEF MarkFailed, WorkerRow, Idle
  <1>8. ASSUME NEW c \in Command, MarkFailedFails(c)
        PROVE  Core'
    BY <1>8 DEF MarkFailedFails, TypeOK, RowShape, WorkerRow, rowVars, netVars, Idle, Fault
  <1>9. CASE Crash
    BY <1>9 DEF Crash, TypeOK, RowShape, WorkerRow, rowVars, netVars, Idle, Fault
  <1>10. CASE Generic
    <2>1. PICK d \in Device, p \in Payload : GenericDownlink(d, p)
      BY <1>10 DEF Generic
    <2>2. [cmd |-> 0, payload |-> p] \in Item
      BY DEF Item
    <2>3. Append(queue[d], [cmd |-> 0, payload |-> p]) \in Seq(Item)
      BY <2>2 DEF TypeOK
    <2>4. queue' \in [Device -> Seq(Item)] /\ generic' \in Nat
      BY <2>1, <2>3 DEF GenericDownlink, TypeOK
    <2> QED BY <2>1, <2>4 DEF GenericDownlink, TypeOK, RowShape, WorkerRow, rowVars
  <1>11. CASE Flush
    BY <1>11 DEF Flush, FlushQueue, TypeOK, RowShape, WorkerRow, rowVars
  <1>12. CASE Answer
    <2>0. PICK d \in Device, ok \in BOOLEAN :
             \E t \in {Owner[d], None} : DeviceAnswers(d, ok, t)
      BY <1>12 DEF Answer
    <2>1. PICK t \in {Owner[d], None} : DeviceAnswers(d, ok, t)
      BY <2>0
    <2>2. queue[d] \in Seq(Item) /\ queue[d] # <<>>
      BY <2>1 DEF DeviceAnswers, TypeOK
    <2>3. Head(queue[d]) \in Item /\ Tail(queue[d]) \in Seq(Item)
      BY <2>2
    <2>4. t \in Tenant \cup {None}
      BY OwnerAssumption DEF OwnerAssumption
    <2> DEFINE e == [device |-> d, cmd |-> Head(queue[d]).cmd, acknowledged |-> ok,
                     tenant |-> t, payload |-> IF AckHasPayload THEN Head(queue[d]).payload
                                               ELSE None]
    <2>5. e \in AckEvent
      BY <2>3, <2>4 DEF AckEvent, Item
    <2>6. events' = Append(events, e) /\ queue' = [queue EXCEPT ![d] = Tail(@)]
      BY <2>1 DEF DeviceAnswers
    <2> HIDE DEF e
    <2>7. events' \in Seq(AckEvent) /\ Len(events') = Len(events) + 1
      BY <2>5, <2>6 DEF TypeOK
    <2>8. queue' \in [Device -> Seq(Item)]
      BY <2>3, <2>6 DEF TypeOK
    <2> QED BY <2>1, <2>7, <2>8 DEF DeviceAnswers, TypeOK, RowShape, WorkerRow, rowVars
  <1>13. CASE LoseAck
    BY <1>13 DEF LoseAck, TypeOK, RowShape, WorkerRow, rowVars, netVars
  <1>14. CASE HandleDownlinkAck
    <2>1. CASE UNCHANGED rowVars
      BY <1>14, <2>1 DEF HandleDownlinkAck, TypeOK, RowShape, WorkerRow, rowVars, netVars
    <2>2. CASE AcknowledgeCommand(consumed + 1)
      <3>1. consumed + 1 \in 1..Len(events)
        BY <1>14 DEF HandleDownlinkAck, TypeOK
      <3>a. row' \in [Command -> Row] /\ clock' = clock
        BY <2>2, <3>1, AcknowledgeLemma
      <3>b. consumed' \in 0..Len(events)
        BY <1>14, <3>1 DEF HandleDownlinkAck, TypeOK
      <3>2. TypeOK'
        BY <1>14, <3>a, <3>b DEF HandleDownlinkAck, TypeOK, netVars
      <3>3. CASE row' = row
        BY <1>14, <3>2, <3>3 DEF HandleDownlinkAck, RowShape, WorkerRow, netVars
      <3>4. ASSUME NEW c \in Candidates(events[consumed + 1]),
                   row'[c] = [row[c] EXCEPT !.status = "acknowledged",
                                            !.fCntDown = consumed + 1],
                   \A b \in Command : b # c => row'[b] = row[b]
            PROVE  Core'
        <4>1. c \in Command /\ row[c] \in Row /\ row[c].status = "sent"
          BY DEF Candidates, TypeOK
        <4>2. RowShape'
          BY <3>4, <4>1 DEF RowShape, Row
        <4>3. WorkerRow'
          BY <1>14 DEF HandleDownlinkAck, WorkerRow, netVars
        <4> QED BY <3>2, <4>2, <4>3
      <3> QED BY <2>2, <3>1, <3>3, <3>4, AcknowledgeLemma
    <2> QED BY <1>14, <2>1, <2>2 DEF HandleDownlinkAck
  <1>15. CASE UNCHANGED vars
    BY <1>15 DEF vars, TypeOK, RowShape, WorkerRow
  <1> QED
    BY <1>1, <1>2, <1>3, <1>4, <1>5, <1>6, <1>7, <1>8, <1>9, <1>10, <1>11, <1>12,
       <1>13, <1>14, <1>15 DEF Next, SendStep

\* Every reachable state has the declared types: the table, the queues, the
\* event stream and the program counter of send_command.
THEOREM TypeCorrect == Spec => []TypeOK
  <1>1. Core => TypeOK
    BY DEF Core
  <1> QED
    BY CoreInit, CoreStep, <1>1, PTL DEF Spec

-----------------------------------------------------------------------------
(* The steps by what they do to the table, and what they never take back. *)

RowMove(c, from, to) ==
    /\ row[c].status \in from
    /\ row'[c].status = to
    /\ \A b \in Command : b # c => row'[b] = row[b]

AckMove(c) ==
    LET n == consumed + 1 IN
    /\ n \in 1..Len(events)
    /\ consumed' = n
    /\ events[n].acknowledged
    /\ c \in Candidates(events[n])
    /\ row'[c] = [row[c] EXCEPT !.status = "acknowledged", !.fCntDown = n]
    /\ RowMove(c, {"sent"}, "acknowledged")

\* Each step leaves the table alone or moves one row along the life of a
\* command; only a consumed positive ack event acknowledges one.
LEMMA RowSteps ==
    ASSUME Core, [Next]_vars
    PROVE  \/ row' = row
           \/ \E c \in Command : RowMove(c, {"none"}, "pending")
           \/ \E c \in Command : RowMove(c, {"pending"}, "sent") /\ c \in accepted
           \/ \E c \in Command : RowMove(c, {"pending", "sent"}, "failed")
           \/ \E c \in Command : AckMove(c)
  <1> USE DEF Core
  <1>1. CASE Request
    BY <1>1 DEF Request, SendCommand, NewCommand, RowMove, TypeOK
  <1>2. ASSUME NEW c \in Command, SendStep(c)
        PROVE  \/ row' = row
               \/ RowMove(c, {"pending"}, "sent") /\ c \in accepted
               \/ RowMove(c, {"pending", "sent"}, "failed")
    <2>1. {"sent", "failed"} \subseteq Status
      BY DEF Status
    <2>2. CASE UpdateStatus(c, "sent") /\ worker = [pc |-> "enqueued", cmd |-> c]
      BY <2>1, <2>2, UpdateStatusLemma DEF RowMove, WorkerRow
    <2>3. CASE UpdateStatus(c, "failed") /\ worker = [pc |-> "error", cmd |-> c]
      BY <2>1, <2>3, UpdateStatusLemma DEF RowMove, WorkerRow
    <2>4. CASE UNCHANGED rowVars
      BY <2>4 DEF rowVars
    <2> QED
      BY <1>2, <2>2, <2>3, <2>4
         DEF SendStep, EnqueueDownlink, EnqueueRefused, EnqueueReplyLost, MarkSent,
             MarkSentFails, MarkFailed, MarkFailedFails, rowVars
  <1>3. CASE Crash \/ Generic \/ Flush \/ Answer \/ LoseAck \/ UNCHANGED vars
    BY <1>3 DEF Crash, Generic, GenericDownlink, Flush, FlushQueue, Answer,
                DeviceAnswers, LoseAck, vars, rowVars
  <1>4. CASE HandleDownlinkAck
    <2>1. CASE UNCHANGED rowVars
      BY <2>1 DEF rowVars
    <2>2. CASE events[consumed + 1].acknowledged /\ AcknowledgeCommand(consumed + 1)
      <3>1. consumed + 1 \in 1..Len(events)
        BY <1>4 DEF HandleDownlinkAck, TypeOK
      <3>2. CASE row' = row
        BY <3>2
      <3>3. ASSUME NEW c \in Candidates(events[consumed + 1]),
                   row'[c] = [row[c] EXCEPT !.status = "acknowledged",
                                            !.fCntDown = consumed + 1],
                   \A b \in Command : b # c => row'[b] = row[b]
            PROVE  c \in Command /\ AckMove(c)
        <4>1. c \in Command /\ row[c].status = "sent" /\ row[c] \in Row
          BY DEF Candidates, TypeOK
        <4>2. RowMove(c, {"sent"}, "acknowledged")
          BY <3>3, <4>1 DEF RowMove, Row
        <4> QED
          BY <1>4, <2>2, <3>1, <3>3, <4>1, <4>2 DEF AckMove, HandleDownlinkAck
      <3> QED
        BY <2>2, <3>1, <3>2, <3>3, AcknowledgeLemma
    <2> QED
      BY <1>4, <2>1, <2>2 DEF HandleDownlinkAck
  <1> QED
    BY <1>1, <1>2, <1>3, <1>4 DEF Next

\* ChirpStack's acceptances, the ack events and their consumption only grow.
LEMMA Monotone ==
    ASSUME Core, [Next]_vars
    PROVE  /\ accepted \subseteq accepted'
           /\ Len(events) <= Len(events')
           /\ \A n \in 1..Len(events) : events'[n] = events[n]
           /\ consumed <= consumed'
  <1> USE DEF Core
  <1>1. CASE Answer
    <2>1. PICK d \in Device, ok \in BOOLEAN :
             \E t \in {Owner[d], None} : DeviceAnswers(d, ok, t)
      BY <1>1 DEF Answer
    <2>2. PICK t \in {Owner[d], None} : DeviceAnswers(d, ok, t)
      BY <2>1
    <2>3. PICK e : events' = Append(events, e)
      BY <2>2 DEF DeviceAnswers
    <2>4. Len(events') = Len(events) + 1 /\ \A n \in 1..Len(events) : events'[n] = events[n]
      BY <2>3 DEF TypeOK
    <2> QED
      BY <2>2, <2>4 DEF DeviceAnswers, TypeOK
  <1>2. CASE LoseAck \/ HandleDownlinkAck
    BY <1>2 DEF LoseAck, HandleDownlinkAck, TypeOK, netVars
  <1>3. CASE Request \/ Crash \/ Generic \/ Flush \/ UNCHANGED vars
    <2>1. accepted' = accepted /\ events' = events /\ consumed' = consumed
      BY <1>3 DEF Request, SendCommand, Crash, Generic, GenericDownlink, Flush,
                  FlushQueue, vars, netVars
    <2>2. Len(events) \in Nat /\ consumed \in Nat
      BY DEF TypeOK
    <2> QED BY <2>1, <2>2
  <1>4. ASSUME NEW c \in Command, SendStep(c)
        PROVE  /\ accepted \subseteq accepted'
               /\ Len(events) <= Len(events')
               /\ \A n \in 1..Len(events) : events'[n] = events[n]
               /\ consumed <= consumed'
    BY <1>4 DEF SendStep, EnqueueDownlink, EnqueueRefused, EnqueueReplyLost, MarkSent,
                MarkSentFails, MarkFailed, MarkFailedFails, PutOnQueue, netVars, TypeOK
  <1> QED
    BY <1>1, <1>2, <1>3, <1>4 DEF Next

-----------------------------------------------------------------------------
\* No step of the worker, in any order, rewrites a row that says
\* 'acknowledged' or 'failed'.
THEOREM StatusTerminal == Spec => TerminalStatus
  <1>1. Core /\ [Next]_vars =>
           [\A c \in Command :
               row[c].status \in {"acknowledged", "failed"} => row'[c] = row[c]]_vars
    BY RowSteps DEF RowMove, AckMove
  <1> QED
    BY CoreInit, CoreStep, <1>1, PTL DEF Spec, TerminalStatus

\* A command that reads 'sent' or 'acknowledged' did reach ChirpStack, through
\* every exception and crash of send_command.
THEOREM SentMeansAccepted == Spec => []SentReachedQueue
  <1>1. Init => SentReachedQueue
    BY DEF Init, SentReachedQueue, NoRow
  <1>2. Core /\ SentReachedQueue /\ [Next]_vars => SentReachedQueue'
    BY RowSteps, Monotone DEF SentReachedQueue, RowMove, AckMove
  <1> QED
    BY CoreInit, CoreStep, <1>1, <1>2, PTL DEF Spec

\* While nothing has failed, send_command leaves no row 'pending' when it
\* returns, whichever way it returns.
THEOREM NothingForgotten == Spec => []NoForgottenCommand
  <1>1. Init => NoForgottenCommand
    BY DEF Init, NoForgottenCommand, NoRow
  <1>2. Core /\ NoForgottenCommand /\ [Next]_vars => NoForgottenCommand'
    <2> SUFFICES ASSUME Core, NoForgottenCommand, [Next]_vars,
                        NEW c \in Command, row'[c].status = "pending"
                 PROVE  faults' > 0 \/ worker'.cmd = c
      BY DEF NoForgottenCommand
    <2> USE DEF Core
    <2>1. faults \in Nat
      BY DEF TypeOK
    <2>2. row[c].status = "pending" => faults > 0 \/ worker.cmd = c
      BY DEF NoForgottenCommand
    <2>3. CASE Request
      <3>1. PICK b \in Command, d \in Device, t \in Tenant, p \in Payload :
               SendCommand(b, d, t, p)
        BY <2>3 DEF Request
      <3>2. /\ worker.pc = "idle" /\ worker'.cmd = b /\ faults' = faults
            /\ b # c => row'[c] = row[c]
        BY <3>1 DEF SendCommand, TypeOK
      <3>3. worker.cmd # c
        BY <3>2 DEF WorkerRow, Command
      <3> QED
        BY <2>2, <3>2, <3>3
    <2>4. ASSUME NEW b \in Command, SendStep(b)
          PROVE  faults' > 0 \/ worker'.cmd = c
      <3>1. CASE EnqueueDownlink(b) \/ EnqueueRefused(b)
        BY <2>2, <3>1 DEF EnqueueDownlink, EnqueueRefused, rowVars
      <3>2. CASE MarkSent(b) \/ MarkFailed(b)
        <4>1. PICK s \in {"sent", "failed"} : UpdateStatus(b, s)
          BY <3>2 DEF MarkSent, MarkFailed
        <4>2. worker.cmd = b /\ faults' = faults
          BY <3>2 DEF MarkSent, MarkFailed
        <4>3. row'[b].status = s /\ \A e \in Command : e # b => row'[e] = row[e]
          BY <4>1, UpdateStatusLemma DEF Status
        <4> QED
          BY <2>2, <4>2, <4>3
      <3>3. CASE Fault
        BY <2>1, <3>3 DEF Fault
      <3> QED
        BY <2>4, <3>1, <3>2, <3>3 DEF SendStep, EnqueueReplyLost, MarkSentFails, MarkFailedFails
    <2>5. CASE Crash
      BY <2>1, <2>5 DEF Crash, Fault
    <2>6. CASE Generic \/ Flush \/ Answer \/ LoseAck \/ UNCHANGED vars
      BY <2>2, <2>6 DEF Generic, GenericDownlink, Flush, FlushQueue, Answer, DeviceAnswers,
                        LoseAck, rowVars, vars
    <2>7. CASE HandleDownlinkAck
      <3>1. worker' = worker /\ faults' = faults
        BY <2>7 DEF HandleDownlinkAck
      <3>2. row'[c] = row[c]
        <4>1. CASE UNCHANGED rowVars
          BY <4>1 DEF rowVars
        <4>2. CASE AcknowledgeCommand(consumed + 1)
          <5>1. consumed + 1 \in 1..Len(events)
            BY <2>7 DEF HandleDownlinkAck, TypeOK
          <5>2. \A b \in Candidates(events[consumed + 1]) :
                    [row[b] EXCEPT !.status = "acknowledged", !.fCntDown = consumed + 1].status
                        = "acknowledged"
            BY DEF Candidates, TypeOK, Row
          <5> QED
            BY <4>2, <5>1, <5>2, AcknowledgeLemma, Zenon
        <4> QED
          BY <2>7, <4>1, <4>2 DEF HandleDownlinkAck
      <3> QED
        BY <2>2, <3>1, <3>2
    <2> QED
      BY <2>3, <2>4, <2>5, <2>6, <2>7 DEF Next
  <1> QED
    BY CoreInit, CoreStep, <1>1, <1>2, PTL DEF Spec

\* Every acknowledgement in the history rests on a consumed positive ack event
\* of the same device that no other command rests on.
THEOREM AckJustified == Spec => []AckOneToOne
  <1>1. Init => AckOneToOne
    BY DEF Init, AckOneToOne, Acknowledged, NoRow
  <1>2. Core /\ AckOneToOne /\ [Next]_vars => AckOneToOne'
    <2> SUFFICES ASSUME Core, AckOneToOne, [Next]_vars
                 PROVE  AckOneToOne'
      OBVIOUS
    <2> DEFINE Old(c) == row'[c] = row[c] /\ c \in Acknowledged
    <2>1. ASSUME NEW c \in Command, Old(c)
          PROVE  Justified(c)'
      <3>1. row[c].fCntDown \in 1..consumed /\ Proves(row[c].fCntDown, c)
        BY <2>1 DEF AckOneToOne, Justified
      <3>2. row[c].fCntDown \in 1..Len(events)
        BY <3>1 DEF Core, TypeOK
      <3>3. consumed' \in Nat /\ consumed <= consumed'
        BY CoreStep, Monotone DEF Core, TypeOK
      <3> QED
        BY <2>1, <3>1, <3>2, <3>3, Monotone DEF Justified, Proves, Core, TypeOK
    <2>2. CASE \A c \in Acknowledged' : Old(c)
      <3>1. \A c \in Acknowledged' : Justified(c)'
        BY <2>1, <2>2 DEF Acknowledged
      <3> QED
        BY <2>2, <3>1 DEF AckOneToOne
    <2>3. ASSUME NEW a \in Command, AckMove(a)
          PROVE  AckOneToOne'
      <3>1. row[a] \in Row /\ row'[a].fCntDown = consumed + 1
        BY <2>3 DEF AckMove, Core, TypeOK, Row
      <3>2. Justified(a)'
        <4>1. events'[consumed + 1] = events[consumed + 1]
          BY <2>3, Monotone DEF AckMove
        <4>2. /\ row'[a].device = row[a].device
              /\ row'[a].payload = row[a].payload
              /\ row'[a].tenant = row[a].tenant
          BY <2>3, <3>1 DEF AckMove, Row
        <4>3. consumed' = consumed + 1 /\ consumed + 1 \in 1..(consumed + 1)
          BY <2>3 DEF AckMove, Core, TypeOK
        <4> QED
          BY <2>3, <3>1, <4>1, <4>2, <4>3 DEF AckMove, Justified, Proves, Candidates
      <3>3. \A c \in Acknowledged' : c # a => Old(c)
        BY <2>3 DEF AckMove, RowMove, Acknowledged
      <3>4. \A c \in Acknowledged : row[c].fCntDown # consumed + 1
        BY DEF AckOneToOne, Justified, Core, TypeOK
      <3>5. \A c \in Acknowledged' : Justified(c)'
        BY <2>1, <3>2, <3>3 DEF Acknowledged
      <3>6. \A b, c \in Acknowledged' : row'[b].fCntDown = row'[c].fCntDown => b = c
        BY <3>1, <3>3, <3>4 DEF AckOneToOne
      <3> QED
        BY <3>5, <3>6 DEF AckOneToOne
    <2>4. CASE row' = row
      BY <2>2, <2>4 DEF Acknowledged
    <2>5. ASSUME NEW a \in Command, RowMove(a, {"none", "pending", "sent"}, row'[a].status),
                 row'[a].status # "acknowledged"
          PROVE  AckOneToOne'
      BY <2>2, <2>5 DEF RowMove, Acknowledged
    <2> QED
      BY <2>3, <2>4, <2>5, RowSteps DEF RowMove
  <1> QED
    BY CoreInit, CoreStep, <1>1, <1>2, PTL DEF Spec

-----------------------------------------------------------------------------
(* Refinement of CommandLedger. *)

\* An ack event is emitted in a step that leaves the table alone.
LEMMA EventSteps ==
    ASSUME Core, [Next]_vars
    PROVE  \/ events' = events
           \/ /\ row' = row
              /\ Len(events) < MaxEvents
              /\ \E e : events' = Append(events, e)
  <1> USE DEF Core
  <1>1. CASE Answer
    BY <1>1 DEF Answer, DeviceAnswers, rowVars
  <1>2. CASE Request \/ Crash \/ Generic \/ Flush \/ LoseAck \/ HandleDownlinkAck
             \/ UNCHANGED vars
    BY <1>2 DEF Request, SendCommand, Crash, Generic, GenericDownlink, Flush, FlushQueue,
                LoseAck, HandleDownlinkAck, vars, netVars
  <1>3. ASSUME NEW c \in Command, SendStep(c)
        PROVE  events' = events
    BY <1>3 DEF SendStep, EnqueueDownlink, EnqueueRefused, EnqueueReplyLost, MarkSent,
                MarkSentFails, MarkFailed, MarkFailedFails, netVars
  <1> QED
    BY <1>1, <1>2, <1>3 DEF Next

\* A row that moves is a ledger entry that moves.
LEMMA LedgerMove ==
    ASSUME Core, NEW c \in Command, NEW from, NEW to, RowMove(c, from, to)
    PROVE  Ledger!Move(c, from, to)
  BY DEF RowMove, Ledger!Move

\* The statuses that an operator reads, with the positive ack events that no
\* row has used, behave as CommandLedger specifies.
THEOREM ImplementsLedger == Spec => LedgerSpec
  <1>1. Init => Ledger!Init
    BY DEF Init, NoRow, Ledger!Init, Receipts, Acknowledged
  <1>2. Core /\ AckOneToOne /\ [Next]_vars => [Ledger!Next]_(Ledger!ledgerVars)
    <2> SUFFICES ASSUME Core, AckOneToOne, [Next]_vars
                 PROVE  Ledger!Next \/ UNCHANGED Ledger!ledgerVars
      BY DEF Ledger!Next, Ledger!ledgerVars
    <2>1. ASSUME events' = events, Acknowledged' = Acknowledged,
                 \A c \in Acknowledged : row'[c] = row[c]
          PROVE  Receipts' = Receipts
      BY <2>1 DEF Receipts
    <2>2. CASE events' = events /\ row' = row
      BY <2>1, <2>2 DEF Acknowledged, Ledger!ledgerVars
    <2>3. CASE row' = row /\ Len(events) < MaxEvents /\ \E e : events' = Append(events, e)
      <3>1. PICK e : events' = Append(events, e)
        BY <2>3
      <3> DEFINE n == Len(events) + 1
      <3>2. /\ Len(events') = n /\ events'[n] = e /\ n \in 1..MaxEvents
            /\ \A m \in 1..Len(events) : events'[m] = events[m]
        BY <2>3, <3>1, BoundAssumption DEF Core, TypeOK, BoundAssumption
      <3>3. Acknowledged' = Acknowledged
        BY <2>3 DEF Acknowledged
      <3>4. \A c \in Acknowledged : row[c].fCntDown # n
        BY DEF AckOneToOne, Justified, Core, TypeOK
      <3>5. 1..n = (1..Len(events)) \cup {n} /\ n \notin 1..Len(events)
        BY DEF Core, TypeOK
      <3>6. Receipts' = IF e.acknowledged THEN Receipts \cup {n} ELSE Receipts
        BY <2>3, <3>2, <3>3, <3>4, <3>5 DEF Receipts
      <3>7. n \notin Receipts
        BY <3>5 DEF Receipts
      <3> HIDE DEF n
      <3>8. CASE e.acknowledged
        BY <2>3, <3>2, <3>6, <3>7, <3>8 DEF Ledger!Next, Ledger!Receive
      <3>9. CASE ~e.acknowledged
        BY <2>3, <3>6, <3>9 DEF Ledger!ledgerVars
      <3> QED BY <3>8, <3>9
    <2>4. ASSUME NEW c \in Command, events' = events,
                 RowMove(c, {"none", "pending", "sent"}, row'[c].status),
                 row'[c].status # "acknowledged"
          PROVE  Receipts' = Receipts
      BY <2>1, <2>4 DEF RowMove, Acknowledged
    <2>5. ASSUME NEW c \in Command, events' = events, RowMove(c, {"none"}, "pending")
          PROVE  Ledger!Next
      <3>1. Receipts' = Receipts
        BY <2>4, <2>5 DEF RowMove
      <3> QED BY <2>5, <3>1, LedgerMove DEF Ledger!Next, Ledger!Issue
    <2>6. ASSUME NEW c \in Command, events' = events, RowMove(c, {"pending"}, "sent")
          PROVE  Ledger!Next
      <3>1. Receipts' = Receipts
        BY <2>4, <2>6 DEF RowMove
      <3> QED BY <2>6, <3>1, LedgerMove DEF Ledger!Next, Ledger!Send
    <2>7. ASSUME NEW c \in Command, events' = events,
                 RowMove(c, {"pending", "sent"}, "failed")
          PROVE  Ledger!Next
      <3>1. Receipts' = Receipts
        BY <2>4, <2>7 DEF RowMove
      <3> QED BY <2>7, <3>1, LedgerMove DEF Ledger!Next, Ledger!Fail
    <2>8. ASSUME NEW c \in Command, events' = events, AckMove(c)
          PROVE  Ledger!Next
      <3> DEFINE n == consumed + 1
      <3>1. row[c] \in Row /\ row'[c].fCntDown = n
        BY <2>8 DEF AckMove, Core, TypeOK, Row
      <3>2. /\ n \in 1..Len(events) /\ events[n].acknowledged
            /\ RowMove(c, {"sent"}, "acknowledged")
        BY <2>8 DEF AckMove
      <3>3. Acknowledged' = Acknowledged \cup {c} /\ c \notin Acknowledged
        BY <3>2 DEF RowMove, Acknowledged
      <3>4. \A b \in Acknowledged : row'[b] = row[b] /\ row[b].fCntDown # n
        BY <3>2, <3>3 DEF RowMove, Acknowledged, AckOneToOne, Justified, Core, TypeOK
      <3>5. n \in Receipts
        BY <3>2, <3>4 DEF Receipts
      <3> HIDE DEF n
      <3>6. Receipts' = Receipts \ {n}
        BY <2>8, <3>1, <3>3, <3>4 DEF Receipts
      <3> QED
        BY <3>2, <3>5, <3>6, LedgerMove DEF Ledger!Next, Ledger!Acknowledge
    <2> QED
      BY <2>2, <2>3, <2>5, <2>6, <2>7, <2>8, RowSteps, EventSteps
         DEF RowMove, AckMove
  <1> QED
    BY CoreInit, CoreStep, AckJustified, <1>1, <1>2, PTL DEF Spec, LedgerSpec, Ledger!Spec

-----------------------------------------------------------------------------
(* One command at a time *)

\* An ack event that has not reached the worker.
Waiting == {n \in 1..Len(events) : n > consumed}

\* Command k is the last of device d, and the worker has no other in hand.
LastOf(d, k) ==
    /\ k \in Command /\ row[k].device = d
    /\ row[k].status = "sent" \/ worker = [pc |-> "enqueued", cmd |-> k]
    /\ row[k].status = "sent" =>
           \A b \in Command : b # k /\ row[b].device = d /\ row[b].status = "sent" =>
               row[b].sentAt < row[k].sentAt
    /\ worker.pc # "idle" /\ row[worker.cmd].device = d => worker = [pc |-> "enqueued", cmd |-> k]

\* At most one frame of a device is on its way, there or back.
OneOnTheWay ==
    /\ \A d \in Device : Len(queue[d]) \in {0, 1}
    /\ \A n \in Waiting : queue[events[n].device] = <<>>
    /\ \A m, n \in Waiting : events[m].device = events[n].device => m = n

\* What is on its way is the last command of its device.
OnTheWayIsLast ==
    /\ \A d \in Device : \A i \in DOMAIN queue[d] : \E k \in Command :
          /\ LastOf(d, k)
          /\ queue[d][i].cmd = k /\ queue[d][i].payload = row[k].payload
    /\ \A n \in Waiting : \E d \in Device, k \in Command :
          /\ LastOf(d, k) /\ events[n].device = d
          /\ events[n].cmd = k /\ events[n].payload \in {None, row[k].payload}

Clocked == \A c \in Command : row[c].sentAt <= clock

\* A row and the ack events of its device name one tenant.
OneTenant ==
    /\ \A c \in Command : row[c].status # "none" => row[c].tenant = Owner[row[c].device]
    /\ \A n \in 1..Len(events) : events[n].tenant \in {Owner[events[n].device], None}

SerialInv == OneOnTheWay /\ OnTheWayIsLast /\ Clocked /\ SerialAttribution

OnTheWay(d) == queue[d] # <<>> \/ \E n \in Waiting : events[n].device = d

LEMMA TailOfOne ==
    ASSUME NEW S, NEW s \in Seq(S), s # <<>>, Len(s) \in {0, 1}
    PROVE  Tail(s) = <<>>
  <1>1. Len(s) = 1
    BY EmptySeq
  <1>2. Tail(s) \in Seq(S) /\ Len(Tail(s)) = 0
    BY <1>1, HeadTailProperties
  <1> QED BY <1>2, EmptySeq

LEMMA QueueShape ==
    ASSUME TypeOK, NEW d \in Device
    PROVE  /\ queue[d] \in Seq(Item) /\ DOMAIN queue[d] = 1..Len(queue[d]) /\ Len(queue[d]) \in Nat
           /\ queue[d] = <<>> => DOMAIN queue[d] = {}
  <1>1. queue[d] \in Seq(Item)
    BY DEF TypeOK
  <1> QED BY <1>1

LEMMA EventShape ==
    ASSUME TypeOK
    PROVE  /\ consumed \in Nat /\ Len(events) \in Nat /\ consumed <= Len(events)
           /\ \A n \in 1..Len(events) : /\ events[n] \in AckEvent /\ events[n].device \in Device
                                        /\ events[n].tenant \in Tenant \cup {None}
  <1>1. events \in Seq(AckEvent) /\ consumed \in 0..Len(events)
    BY DEF TypeOK
  <1>2. \A n \in 1..Len(events) : events[n] \in AckEvent
    BY <1>1
  <1>3. \A e \in AckEvent : e.device \in Device /\ e.tenant \in Tenant \cup {None}
    BY DEF AckEvent
  <1> QED BY <1>1, <1>2, <1>3

\* A step that leaves the queues and the events alone, and what is last on the
\* way last.
LEMMA NothingMoves ==
    ASSUME TypeOK, OneOnTheWay, OnTheWayIsLast, UNCHANGED <<queue, events, consumed>>,
           \A d \in Device, k \in Command : OnTheWay(d) /\ LastOf(d, k) =>
               LastOf(d, k)' /\ row'[k].payload = row[k].payload
    PROVE  OneOnTheWay' /\ OnTheWayIsLast'
  <1>1. Waiting' = Waiting
    BY DEF Waiting
  <1>2. OneOnTheWay'
    BY <1>1 DEF OneOnTheWay
  <1>3. ASSUME NEW d \in Device, NEW i \in DOMAIN queue[d]
        PROVE  \E k \in Command :
                  LastOf(d, k)' /\ queue[d][i].cmd = k /\ queue[d][i].payload = row'[k].payload
    <2>1. OnTheWay(d)
      BY <1>3, QueueShape DEF OnTheWay
    <2>2. PICK k \in Command :
             LastOf(d, k) /\ queue[d][i].cmd = k /\ queue[d][i].payload = row[k].payload
      BY DEF OnTheWayIsLast
    <2>3. LastOf(d, k)' /\ row'[k].payload = row[k].payload
      BY <2>1, <2>2
    <2> QED BY <2>2, <2>3
  <1>4. ASSUME NEW n \in Waiting
        PROVE  \E d \in Device, k \in Command :
                  /\ LastOf(d, k)' /\ events[n].device = d
                  /\ events[n].cmd = k /\ events[n].payload \in {None, row'[k].payload}
    <2>1. PICK d \in Device, k \in Command :
             /\ LastOf(d, k) /\ events[n].device = d
             /\ events[n].cmd = k /\ events[n].payload \in {None, row[k].payload}
      BY DEF OnTheWayIsLast
    <2>2. OnTheWay(d)
      BY <2>1 DEF OnTheWay
    <2>3. LastOf(d, k)' /\ row'[k].payload = row[k].payload
      BY <2>1, <2>2
    <2> QED BY <2>1, <2>3
  <1>5. OnTheWayIsLast'
    BY <1>1, <1>3, <1>4 DEF OnTheWayIsLast
  <1> QED BY <1>2, <1>5

\* An acknowledgement that stays as it was names the command it named.
LEMMA AttributionStays ==
    ASSUME Core, AckOneToOne, SerialAttribution, [Next]_vars,
           \A c \in Acknowledged' : c \in Acknowledged /\ row'[c] = row[c]
    PROVE  SerialAttribution'
  <1> SUFFICES ASSUME NEW c \in Acknowledged' PROVE events'[row'[c].fCntDown].cmd = c
    BY DEF SerialAttribution
  <1>1. row[c].fCntDown \in 1..Len(events)
    BY EventShape DEF AckOneToOne, Justified, Core
  <1> QED BY <1>1, Monotone DEF SerialAttribution

LEMMA ClockedStep == ASSUME Core, Clocked, [Next]_vars PROVE Clocked'
  <1> USE DEF Core
  <1>0. clock \in Nat /\ \A c \in Command : row[c] \in Row /\ row[c].sentAt \in Nat
    BY DEF TypeOK, Row
  <1>1. CASE UNCHANGED rowVars
    BY <1>1 DEF Clocked, rowVars
  <1>2. CASE Request
    <2>1. PICK c \in Command, d \in Device, t \in Tenant, p \in Payload : SendCommand(c, d, t, p)
      BY <1>2 DEF Request
    <2>2. clock' = clock /\ row'[c].sentAt = 0 /\ \A b \in Command : b # c => row'[b] = row[b]
      BY <2>1 DEF SendCommand, TypeOK
    <2> QED BY <1>0, <2>2 DEF Clocked
  <1>3. ASSUME NEW c \in Command, NEW s \in {"sent", "failed"}, UpdateStatus(c, s) PROVE Clocked'
    <2>1. \A b \in Command : row'[b].sentAt = IF b = c /\ s = "sent" THEN clock + 1 ELSE row[b].sentAt
      BY <1>0, <1>3 DEF UpdateStatus, TypeOK, Row
    <2>2. clock' = IF s = "sent" THEN clock + 1 ELSE clock
      BY <1>3 DEF UpdateStatus
    <2> QED BY <1>0, <2>1, <2>2 DEF Clocked
  <1>4. CASE HandleDownlinkAck
    <2>1. consumed + 1 \in 1..Len(events)
      BY <1>4 DEF HandleDownlinkAck, TypeOK
    <2>2. CASE AcknowledgeCommand(consumed + 1)
      <3>1. clock' = clock /\ \A b \in Command : row'[b].sentAt = row[b].sentAt
        <4>1. \A b \in Command :
                 [row[b] EXCEPT !.status = "acknowledged", !.fCntDown = consumed + 1].sentAt
                     = row[b].sentAt
          BY <1>0 DEF Row
        <4>2. Candidates(events[consumed + 1]) \subseteq Command
          BY DEF Candidates
        <4> QED BY <2>1, <2>2, <4>1, <4>2, AcknowledgeLemma, Zenon
      <3> QED BY <3>1 DEF Clocked
    <2> QED BY <1>1, <1>4, <2>2 DEF HandleDownlinkAck
  <1> QED
    BY <1>1, <1>2, <1>3, <1>4
       DEF Next, SendStep, EnqueueDownlink, EnqueueRefused, EnqueueReplyLost, MarkSent,
           MarkSentFails, MarkFailed, MarkFailedFails, Crash, Generic, GenericDownlink, Flush,
           FlushQueue, Answer, DeviceAnswers, LoseAck, vars, rowVars

\* Without faults and generic downlinks these steps are left.
SerialStep ==
    \/ \E c \in Command, d \in Device, t \in Tenant, p \in Payload :
          SendCommand(c, d, t, p) /\ Quiet(d) /\ t = Owner[d]
    \/ \E c \in Command :
          EnqueueDownlink(c) \/ EnqueueRefused(c) \/ MarkSent(c) \/ MarkFailed(c)
    \/ Flush \/ Answer \/ LoseAck \/ HandleDownlinkAck \/ UNCHANGED vars

LEMMA SerialSteps == ASSUME Core, [SerialNext]_vars PROVE SerialStep
  <1>0. faults \in Nat /\ generic \in Nat
    BY DEF Core, TypeOK
  <1>1. SerialNext => ~Fault
    BY <1>0 DEF Fault, SerialNext
  <1>2. SerialNext => ~Generic
    <2>1. Generic => generic' = generic + 1
      BY DEF Generic, GenericDownlink
    <2>2. SerialNext => generic' = generic
      BY DEF SerialNext
    <2> QED BY <1>0, <2>1, <2>2
  <1>3. ASSUME NEW c \in Command, NEW d \in Device, NEW t \in Tenant, NEW p \in Payload,
               SendCommand(c, d, t, p), SerialNext
        PROVE  Quiet(d) /\ t = Owner[d]
    <2> DEFINE new == [status |-> "pending", device |-> d, tenant |-> t,
                       payload |-> p, sentAt |-> 0, fCntDown |-> 0]
    <2>1. new.status = "pending" /\ new.device = d /\ new.tenant = t
      OBVIOUS
    <2>2. row' = [row EXCEPT ![c] = new] /\ row[c].status = "none" /\ worker.pc = "idle"
      BY <1>3 DEF SendCommand, NewCommand
    <2> HIDE DEF new
    <2>3. row'[c].status = "pending" /\ row'[c].device = d /\ row'[c].tenant = t
      BY <2>1, <2>2 DEF Core, TypeOK
    <2>4. worker'.pc = "inserted" /\ worker'.cmd = c
      BY <1>3 DEF SendCommand
    <2>5. row' # row /\ worker' # worker
      BY <2>2, <2>3, <2>4
    <2> QED BY <1>3, <2>2, <2>3, <2>4, <2>5 DEF SerialNext
  <1>4. CASE SerialNext
    <2>1. ~Fault /\ ~Generic /\ Next
      BY <1>1, <1>2, <1>4 DEF SerialNext
    <2> QED
      BY <1>3, <1>4, <2>1, Zenon
         DEF Next, Request, SendStep, EnqueueReplyLost, MarkSentFails, MarkFailedFails, Crash,
             SerialStep
  <1>5. CASE UNCHANGED vars
    BY <1>5 DEF SerialStep
  <1> QED BY <1>4, <1>5

\* A new row is its device's tenant's, and no step moves a row or an event to
\* another.
LEMMA OneTenantStep == ASSUME Core, OneTenant, [SerialNext]_vars PROVE OneTenant'
  <1>n. [Next]_vars
    BY DEF SerialNext
  <1> DEFINE Own(c) == row[c].status # "none" => row[c].tenant = Owner[row[c].device]
             Names(n) == events[n].tenant \in {Owner[events[n].device], None}
  <1>1. ASSUME NEW c \in Command PROVE Own(c)'
    <2>1. CASE row'[c] = row[c]
      BY <2>1 DEF OneTenant
    <2>2. CASE row'[c].tenant = row[c].tenant /\ row'[c].device = row[c].device /\ row[c].status # "none"
      BY <2>2 DEF OneTenant
    <2>3. ASSUME NEW b \in Command, NEW d \in Device, NEW t \in Tenant, NEW p \in Payload,
                 SendCommand(b, d, t, p), t = Owner[d]
          PROVE  Own(c)'
      BY <2>1, <2>3 DEF SendCommand, Core, TypeOK
    <2>4. ASSUME NEW b \in Command, NEW s \in {"sent", "failed"}, UpdateStatus(b, s),
                 worker.pc # "idle", worker.cmd = b
          PROVE  Own(c)'
      <3>1. s \in Status /\ row[b].status # "none"
        BY <2>4 DEF Status, Core, WorkerRow, TypeOK
      <3> QED BY <2>1, <2>2, <2>4, <3>1, UpdateStatusLemma DEF Core
    <2>5. CASE HandleDownlinkAck
      <3>1. consumed + 1 \in 1..Len(events)
        BY <2>5 DEF HandleDownlinkAck, Core, TypeOK
      <3>2. ASSUME NEW b \in Candidates(events[consumed + 1]),
                   row'[b] = [row[b] EXCEPT !.status = "acknowledged", !.fCntDown = consumed + 1],
                   \A a \in Command : a # b => row'[a] = row[a]
            PROVE  Own(c)'
        <4>1. b \in Command /\ row[b].status = "sent" /\ row[b] \in Row
          BY DEF Candidates, Core, TypeOK
        <4>2. row'[b].tenant = row[b].tenant /\ row'[b].device = row[b].device
          BY <3>2, <4>1 DEF Row
        <4> QED BY <2>1, <2>2, <3>2, <4>1, <4>2
      <3>3. CASE AcknowledgeCommand(consumed + 1)
        <4>1. row' = row \/ \E b \in Candidates(events[consumed + 1]) :
                /\ row'[b] = [row[b] EXCEPT !.status = "acknowledged", !.fCntDown = consumed + 1]
                /\ \A a \in Command : a # b => row'[a] = row[a]
          BY <3>1, <3>3, AcknowledgeLemma, Zenon DEF Core
        <4> QED BY <2>1, <3>2, <4>1
      <3>4. row' = row \/ AcknowledgeCommand(consumed + 1)
        BY <2>5 DEF HandleDownlinkAck, rowVars
      <3> QED BY <2>1, <3>3, <3>4
    <2>6. ASSUME NEW b \in Command,
                 EnqueueDownlink(b) \/ EnqueueRefused(b) \/ MarkSent(b) \/ MarkFailed(b)
          PROVE  Own(c)'
      BY <2>1, <2>4, <2>6 DEF EnqueueDownlink, EnqueueRefused, MarkSent, MarkFailed, rowVars
    <2>7. CASE Flush \/ Answer \/ LoseAck \/ UNCHANGED vars
      <3>1. row' = row
        BY <2>7 DEF Flush, FlushQueue, Answer, DeviceAnswers, LoseAck, rowVars, vars
      <3> QED BY <2>1, <3>1
    <2> QED
      BY <2>3, <2>5, <2>6, <2>7, SerialSteps DEF SerialStep
  <1>2. ASSUME NEW n \in 1..Len(events') PROVE Names(n)'
    <2>1. CASE Answer
      <3>0. PICK d \in Device, ok \in BOOLEAN : \E t \in {Owner[d], None} : DeviceAnswers(d, ok, t)
        BY <2>1 DEF Answer
      <3>1. PICK t \in {Owner[d], None} : DeviceAnswers(d, ok, t)
        BY <3>0
      <3> DEFINE new == [device |-> d, cmd |-> Head(queue[d]).cmd, acknowledged |-> ok, tenant |-> t,
                         payload |-> IF AckHasPayload THEN Head(queue[d]).payload ELSE None]
      <3>2. new.device = d /\ new.tenant = t
        OBVIOUS
      <3>3. events' = Append(events, new)
        BY <3>1 DEF DeviceAnswers
      <3> HIDE DEF new
      <3>4. /\ Len(events') = Len(events) + 1 /\ events'[Len(events) + 1] = new
            /\ \A m \in 1..Len(events) : events'[m] = events[m]
        BY <3>3 DEF Core, TypeOK
      <3>5. CASE n = Len(events) + 1
        BY <3>2, <3>4, <3>5
      <3>6. CASE n # Len(events) + 1
        <4>1. n \in 1..Len(events)
          BY <3>4, <3>6, EventShape DEF Core
        <4> QED BY <3>4, <4>1 DEF OneTenant
      <3> QED BY <3>5, <3>6
    <2>2. CASE events' = events
      BY <2>2 DEF OneTenant
    <2> QED
      BY <2>1, <2>2, SerialSteps
         DEF SerialStep, SendCommand, EnqueueDownlink, EnqueueRefused, MarkSent, MarkFailed, Flush,
             FlushQueue, LoseAck, HandleDownlinkAck, netVars, vars
  <1> QED BY <1>1, <1>2 DEF OneTenant

LEMMA SerialInvStep ==
    ASSUME Core, AckOneToOne, OneTenant, SerialInv, [SerialNext]_vars PROVE SerialInv'
  <1> USE DEF Core
  <1>n. [Next]_vars
    BY DEF SerialNext
  <1>c. Clocked'
    BY <1>n, ClockedStep DEF SerialInv
  <1>i. OneOnTheWay /\ OnTheWayIsLast /\ Clocked /\ SerialAttribution
    BY DEF SerialInv
  <1>t. /\ TypeOK /\ worker.pc # "idle" => worker.cmd \in Command
    BY DEF TypeOK
  \* Where something is on the way, the worker has no other command in hand.
  <1>w. ASSUME NEW d \in Device, OnTheWay(d), worker.pc # "idle", row[worker.cmd].device = d
        PROVE  worker.pc = "enqueued"
    <2>1. \E k : LastOf(d, k)
      <3>1. CASE queue[d] # <<>>
        <4>1. 1 \in DOMAIN queue[d]
          BY <1>t, <3>1, QueueShape
        <4> QED BY <1>i, <4>1 DEF OnTheWayIsLast
      <3>2. CASE \E n \in Waiting : events[n].device = d
        BY <1>i, <3>2 DEF OnTheWayIsLast
      <3> QED BY <1>w, <3>1, <3>2 DEF OnTheWay
    <2> QED BY <1>w, <2>1 DEF LastOf
  <1>1. ASSUME NEW c \in Command, NEW d \in Device, NEW t \in Tenant, NEW p \in Payload,
               SendCommand(c, d, t, p), Quiet(d)
        PROVE  SerialInv'
    <2> DEFINE new == [status |-> "pending", device |-> d, tenant |-> t,
                       payload |-> p, sentAt |-> 0, fCntDown |-> 0]
    <2>1. new.status = "pending" /\ new.device = d
      OBVIOUS
    <2>2. /\ row' = [row EXCEPT ![c] = new] /\ row[c].status = "none" /\ worker.pc = "idle"
          /\ worker' = [pc |-> "inserted", cmd |-> c] /\ UNCHANGED <<queue, events, consumed>>
      BY <1>1 DEF SendCommand, NewCommand, netVars
    <2> HIDE DEF new
    <2>3. /\ row'[c].status = "pending" /\ row'[c].device = d
          /\ \A b \in Command : b # c => row'[b] = row[b]
      BY <2>1, <2>2 DEF TypeOK
    <2>4. ~OnTheWay(d)
      BY <1>1 DEF OnTheWay, Quiet, Waiting
    <2>5. ASSUME NEW e \in Device, NEW k \in Command, OnTheWay(e), LastOf(e, k)
          PROVE  LastOf(e, k)' /\ row'[k].payload = row[k].payload
      <3>1. e # d /\ k \in Command /\ row[k].status = "sent" /\ k # c
        BY <2>2, <2>4, <2>5 DEF LastOf
      <3>2. worker'.cmd = c
        BY <2>2
      <3> QED BY <2>3, <2>5, <3>1, <3>2 DEF LastOf
    <2>6. SerialAttribution'
      BY <1>i, <1>n, <2>3, AttributionStays DEF Acknowledged
    <2> QED BY <1>c, <1>i, <1>t, <2>2, <2>5, <2>6, NothingMoves DEF SerialInv
  <1>2. ASSUME NEW c \in Command, EnqueueDownlink(c) PROVE SerialInv'
    <2>0. worker = [pc |-> "inserted", cmd |-> c] /\ row[c].device \in Device
      BY <1>2 DEF EnqueueDownlink, WorkerRow, RowShape
    <2>d. PICK d \in Device : d = row[c].device
      BY <2>0
    <2>e. PICK item : item = [cmd |-> c, payload |-> row[c].payload]
      OBVIOUS
    <2>1. /\ worker = [pc |-> "inserted", cmd |-> c] /\ worker' = [pc |-> "enqueued", cmd |-> c]
          /\ queue' = [queue EXCEPT ![d] = Append(@, item)]
          /\ UNCHANGED <<row, events, consumed>>
      BY <1>2, <2>d, <2>e DEF EnqueueDownlink, PutOnQueue, rowVars
    <2>2. item.cmd = c /\ item.payload = row[c].payload
      BY <2>e
    <2>3. row[c].status = "pending"
      BY <2>1 DEF WorkerRow
    <2>4. worker.pc = "inserted" /\ worker.cmd = c /\ worker'.pc = "enqueued" /\ worker'.cmd = c
      BY <2>1
    <2>5. ~OnTheWay(d)
      BY <1>w, <2>d, <2>4
    <2>6. /\ queue'[d] = <<item>> /\ \A e \in Device : e # d => queue'[e] = queue[e]
      <3>1. queue[d] = <<>>
        BY <2>5 DEF OnTheWay
      <3>2. queue'[d] = Append(queue[d], item) /\ \A e \in Device : e # d => queue'[e] = queue[e]
        BY <1>t, <2>1, <2>3 DEF TypeOK
      <3> QED BY <3>1, <3>2
    <2>7. Waiting' = Waiting /\ \A n \in Waiting : events[n].device # d
      BY <2>1, <2>5 DEF Waiting, OnTheWay
    <2>8. LastOf(d, c)'
      BY <2>1, <2>3, <2>d DEF LastOf
    <2>9. ASSUME NEW e \in Device, NEW k \in Command, e # d, LastOf(e, k) PROVE LastOf(e, k)'
      <3>1. row[k].status = "sent"
        BY <2>4, <2>9 DEF LastOf
      <3>2. row[worker'.cmd].device # e
        BY <2>d, <2>4, <2>9
      <3> QED BY <2>1, <2>9, <3>1, <3>2 DEF LastOf
    <2>a. DOMAIN queue'[d] = {1} /\ queue'[d][1] = item /\ Len(queue'[d]) = 1
      BY <2>6
    <2>10. OneOnTheWay'
      <3>1. \A e \in Device : Len(queue'[e]) \in {0, 1}
        BY <1>i, <2>6, <2>a DEF OneOnTheWay
      <3>2. \A n \in Waiting : queue'[events[n].device] = <<>>
        <4> SUFFICES ASSUME NEW n \in Waiting PROVE queue'[events[n].device] = <<>>
          OBVIOUS
        <4>1. events[n].device \in Device /\ events[n].device # d
          BY <1>t, <2>7, EventShape DEF Waiting
        <4> QED BY <1>i, <2>6, <4>1 DEF OneOnTheWay
      <3> QED BY <1>i, <2>1, <2>7, <3>1, <3>2 DEF OneOnTheWay
    <2>11. OnTheWayIsLast'
      <3>1. ASSUME NEW e \in Device, NEW i \in DOMAIN queue'[e]
            PROVE  \E k \in Command : /\ LastOf(e, k)' /\ queue'[e][i].cmd = k
                                      /\ queue'[e][i].payload = row'[k].payload
        <4>1. CASE e = d
          <5>1. queue'[e][i] = item
            BY <2>a, <3>1, <4>1
          <5> QED BY <2>1, <2>2, <2>8, <4>1, <5>1
        <4>2. CASE e # d
          <5>1. queue'[e] = queue[e]
            BY <2>6, <4>2
          <5>2. PICK k \in Command :
                   LastOf(e, k) /\ queue[e][i].cmd = k /\ queue[e][i].payload = row[k].payload
            BY <1>i, <3>1, <5>1 DEF OnTheWayIsLast
          <5> QED BY <2>1, <2>9, <4>2, <5>1, <5>2
        <4> QED BY <4>1, <4>2
      <3>2. ASSUME NEW n \in Waiting
            PROVE  \E e \in Device, k \in Command :
                      /\ LastOf(e, k)' /\ events[n].device = e
                      /\ events[n].cmd = k /\ events[n].payload \in {None, row'[k].payload}
        <4>1. PICK e \in Device, k \in Command :
                 /\ LastOf(e, k) /\ events[n].device = e
                 /\ events[n].cmd = k /\ events[n].payload \in {None, row[k].payload}
          BY <1>i DEF OnTheWayIsLast
        <4> QED BY <2>1, <2>7, <2>9, <4>1
      <3> QED BY <2>1, <2>7, <3>1, <3>2 DEF OnTheWayIsLast
    <2>12. SerialAttribution'
      BY <1>i, <1>n, <2>1, AttributionStays DEF Acknowledged
    <2> QED BY <1>c, <2>10, <2>11, <2>12 DEF SerialInv
  <1>3. ASSUME NEW c \in Command, EnqueueRefused(c) PROVE SerialInv'
    <2>1. /\ worker.pc = "inserted" /\ worker.cmd = c /\ worker'.pc = "error" /\ worker'.cmd = c
          /\ UNCHANGED <<row, queue, events, consumed>>
      BY <1>3 DEF EnqueueRefused, rowVars, netVars
    <2>2. ASSUME NEW e \in Device, NEW k \in Command, OnTheWay(e), LastOf(e, k)
          PROVE  LastOf(e, k)' /\ row'[k].payload = row[k].payload
      <3>1. row[k].status = "sent" /\ row[c].device # e
        BY <2>1, <2>2 DEF LastOf
      <3> QED BY <2>1, <2>2, <3>1 DEF LastOf
    <2>3. SerialAttribution'
      BY <1>i, <1>n, <2>1, AttributionStays DEF Acknowledged
    <2> QED BY <1>c, <1>i, <1>t, <2>1, <2>2, <2>3, NothingMoves DEF SerialInv
  <1>4. ASSUME NEW c \in Command, MarkSent(c) PROVE SerialInv'
    <2>1. /\ worker = [pc |-> "enqueued", cmd |-> c] /\ worker'.pc = "idle"
          /\ UpdateStatus(c, "sent") /\ UNCHANGED <<queue, events, consumed>>
      BY <1>4 DEF MarkSent, Idle, netVars
    <2>2. /\ row'[c].status = "sent" /\ row'[c].device = row[c].device
          /\ row'[c].payload = row[c].payload
          /\ \A b \in Command : b # c => row'[b] = row[b]
      BY <1>t, <2>1, UpdateStatusLemma DEF Status
    <2>3. row'[c].sentAt = clock + 1
      <3>1. row[c] \in Row
        BY <1>t DEF TypeOK
      <3> QED BY <1>t, <2>1, <3>1 DEF UpdateStatus, TypeOK, Row
    <2>4. \A b \in Command : row[b].sentAt < clock + 1
      <3>1. \A b \in Command : row[b].sentAt \in Nat /\ clock \in Nat
        BY <1>t DEF TypeOK, Row
      <3> QED BY <1>i, <3>1 DEF Clocked
    <2>5. ASSUME NEW e \in Device, NEW k \in Command, OnTheWay(e), LastOf(e, k)
          PROVE  LastOf(e, k)' /\ row'[k].payload = row[k].payload
      <3>0. k \in Command /\ row[k].device = e
        BY <2>5 DEF LastOf
      <3>1. CASE k = c
        BY <2>1, <2>2, <2>3, <2>4, <3>0, <3>1 DEF LastOf
      <3>2. CASE k # c
        <4>1. row[k].status = "sent" /\ row[c].device # e
          BY <2>1, <2>5, <3>2 DEF LastOf
        <4>2. \A b \in Command : b # k /\ row'[b].device = e /\ row'[b].status = "sent" =>
                  row'[b].sentAt < row'[k].sentAt
          BY <2>2, <2>5, <3>0, <3>2, <4>1 DEF LastOf
        <4> QED BY <2>1, <2>2, <3>0, <3>2, <4>1, <4>2 DEF LastOf
      <3> QED BY <3>1, <3>2
    <2>6. SerialAttribution'
      BY <1>i, <1>n, <2>2, AttributionStays DEF Acknowledged
    <2> QED BY <1>c, <1>i, <1>t, <2>1, <2>5, <2>6, NothingMoves DEF SerialInv
  <1>5. ASSUME NEW c \in Command, MarkFailed(c) PROVE SerialInv'
    <2>1. /\ worker = [pc |-> "error", cmd |-> c] /\ worker'.pc = "idle"
          /\ UpdateStatus(c, "failed") /\ UNCHANGED <<queue, events, consumed>>
      BY <1>5 DEF MarkFailed, Idle, netVars
    <2>2. /\ row'[c].status = "failed" /\ row'[c].device = row[c].device
          /\ \A b \in Command : b # c => row'[b] = row[b]
      BY <1>t, <2>1, UpdateStatusLemma DEF Status
    <2>3. worker.pc = "error" /\ worker.cmd = c
      BY <2>1
    <2>4. ASSUME NEW e \in Device, NEW k \in Command, OnTheWay(e), LastOf(e, k)
          PROVE  LastOf(e, k)' /\ row'[k].payload = row[k].payload
      <3>1. k \in Command /\ row[k].device = e /\ row[k].status = "sent" /\ row[c].device # e
        BY <2>3, <2>4 DEF LastOf
      <3>2. k # c
        BY <3>1
      <3> QED BY <2>1, <2>2, <2>4, <3>1, <3>2 DEF LastOf
    <2>5. SerialAttribution'
      BY <1>i, <1>n, <2>2, AttributionStays DEF Acknowledged
    <2> QED BY <1>c, <1>i, <1>t, <2>1, <2>4, <2>5, NothingMoves DEF SerialInv
  \* In the other steps the worker stays as it is.
  <1>6. ASSUME NEW d \in Device, FlushQueue(d) PROVE SerialInv'
    <2>1. /\ \A e \in Device : queue'[e] = IF e = d THEN <<>> ELSE queue[e]
          /\ UNCHANGED <<row, worker, events, consumed>>
      BY <1>6, <1>t DEF FlushQueue, rowVars, TypeOK
    <2>2. Waiting' = Waiting /\ \A n \in Waiting : events[n].device \in Device
      BY <1>t, <2>1, EventShape DEF Waiting
    <2>3. \A e, k : LastOf(e, k)' <=> LastOf(e, k)
      BY <2>1 DEF LastOf
    <2>4. DOMAIN queue'[d] = {} /\ Len(queue'[d]) = 0
      BY <2>1
    <2>5. OneOnTheWay'
      BY <1>i, <2>1, <2>2, <2>4 DEF OneOnTheWay
    <2>6. OnTheWayIsLast'
      BY <1>i, <2>1, <2>2, <2>3, <2>4 DEF OnTheWayIsLast
    <2>7. SerialAttribution'
      BY <1>i, <1>n, <2>1, AttributionStays DEF Acknowledged
    <2> QED BY <1>c, <2>5, <2>6, <2>7 DEF SerialInv
  <1>7. ASSUME NEW d \in Device, NEW ok \in BOOLEAN, NEW t \in {Owner[d], None},
               DeviceAnswers(d, ok, t)
        PROVE  SerialInv'
    <2> DEFINE item == Head(queue[d])
               e == [device |-> d, cmd |-> item.cmd, acknowledged |-> ok, tenant |-> t,
                     payload |-> IF AckHasPayload THEN item.payload ELSE None]
               N == Len(events) + 1
    <2>1. /\ queue[d] # <<>> /\ events' = Append(events, e)
          /\ queue' = [queue EXCEPT ![d] = Tail(@)] /\ UNCHANGED <<row, worker, consumed>>
      BY <1>7 DEF DeviceAnswers, rowVars
    <2>2. e.device = d /\ e.cmd = item.cmd /\ e.payload \in {None, item.payload}
      OBVIOUS
    <2> HIDE DEF e
    <2>3. 1 \in DOMAIN queue[d] /\ item = queue[d][1]
      BY <1>t, <2>1, QueueShape
    <2>4. PICK k \in Command : LastOf(d, k) /\ item.cmd = k /\ item.payload = row[k].payload
      BY <1>i, <2>3 DEF OnTheWayIsLast
    <2> HIDE DEF item
    <2>5. /\ DOMAIN queue'[d] = {} /\ queue'[d] = <<>> /\ Len(queue'[d]) = 0
          /\ \A c \in Device : c # d => queue'[c] = queue[c]
      <3>1. queue'[d] = Tail(queue[d]) /\ \A c \in Device : c # d => queue'[c] = queue[c]
        BY <1>t, <2>1 DEF TypeOK
      <3>2. queue[d] \in Seq(Item) /\ Len(queue[d]) \in {0, 1}
        BY <1>i, <1>t, QueueShape DEF OneOnTheWay
      <3>3. Tail(queue[d]) = <<>>
        BY <2>1, <3>2, TailOfOne
      <3>4. Len(<<>>) = 0 /\ DOMAIN <<>> = {}
        OBVIOUS
      <3> QED BY <3>1, <3>3, <3>4
    <2>6. /\ events'[N] = e /\ Len(events') = N /\ N \in Nat
          /\ \A n \in 1..Len(events) : events'[n] = events[n]
      BY <1>t, <2>1 DEF TypeOK
    <2>7. /\ Waiting' = Waiting \cup {N} /\ N \notin Waiting
          /\ \A n \in Waiting : events'[n] = events[n] /\ events[n].device \in Device
      BY <1>t, <2>1, <2>6, EventShape DEF Waiting
    <2> HIDE DEF N
    <2>8. \A n \in Waiting : events[n].device # d
      BY <1>i, <2>1 DEF OneOnTheWay
    <2>9. \A c, b : LastOf(c, b)' <=> LastOf(c, b)
      BY <2>1 DEF LastOf
    <2>10. OneOnTheWay'
      BY <1>i, <2>2, <2>5, <2>6, <2>7, <2>8 DEF OneOnTheWay
    <2>11. OnTheWayIsLast'
      <3>1. ASSUME NEW c \in Device, NEW i \in DOMAIN queue'[c]
            PROVE  \E b \in Command : /\ LastOf(c, b)' /\ queue'[c][i].cmd = b
                                      /\ queue'[c][i].payload = row'[b].payload
        <4>1. queue'[c] = queue[c]
          BY <2>5, <3>1
        <4>2. PICK b \in Command :
                 LastOf(c, b) /\ queue[c][i].cmd = b /\ queue[c][i].payload = row[b].payload
          BY <1>i, <3>1, <4>1 DEF OnTheWayIsLast
        <4> QED BY <2>1, <2>9, <4>1, <4>2
      <3>2. ASSUME NEW n \in Waiting'
            PROVE  \E c \in Device, b \in Command :
                      /\ LastOf(c, b)' /\ events'[n].device = c
                      /\ events'[n].cmd = b /\ events'[n].payload \in {None, row'[b].payload}
        <4>1. CASE n = N
          BY <2>1, <2>2, <2>4, <2>6, <2>9, <4>1
        <4>2. CASE n \in Waiting
          <5>1. PICK c \in Device, b \in Command :
                   /\ LastOf(c, b) /\ events[n].device = c
                   /\ events[n].cmd = b /\ events[n].payload \in {None, row[b].payload}
            BY <1>i, <4>2 DEF OnTheWayIsLast
          <5> QED BY <2>1, <2>7, <2>9, <4>2, <5>1
        <4> QED BY <2>7, <3>2, <4>1, <4>2
      <3> QED BY <3>1, <3>2 DEF OnTheWayIsLast
    <2>12. SerialAttribution'
      BY <1>i, <1>n, <2>1, AttributionStays DEF Acknowledged
    <2> QED BY <1>c, <2>10, <2>11, <2>12 DEF SerialInv
  \* An event that leaves the bus.
  <1>8. ASSUME consumed < Len(events), consumed' = consumed + 1, UNCHANGED <<queue, events>>,
               \A d \in Device, k \in Command :
                   /\ \/ queue[d] # <<>>
                      \/ \E m \in Waiting : m # consumed + 1 /\ events[m].device = d
                   /\ LastOf(d, k)
                   => LastOf(d, k)' /\ row'[k].payload = row[k].payload
        PROVE  OneOnTheWay' /\ OnTheWayIsLast'
    <2>1. Waiting' \subseteq Waiting /\ consumed + 1 \notin Waiting'
      BY <1>8, <1>t, EventShape DEF Waiting
    <2>2. OneOnTheWay'
      BY <1>8, <1>i, <2>1 DEF OneOnTheWay
    <2>3. ASSUME NEW d \in Device, NEW i \in DOMAIN queue[d]
          PROVE  \E k \in Command :
                    LastOf(d, k)' /\ queue[d][i].cmd = k /\ queue[d][i].payload = row'[k].payload
      <3>1. PICK k \in Command :
               LastOf(d, k) /\ queue[d][i].cmd = k /\ queue[d][i].payload = row[k].payload
        BY <1>i DEF OnTheWayIsLast
      <3>2. queue[d] # <<>>
        BY <1>t, <2>3, QueueShape
      <3> QED BY <1>8, <3>1, <3>2
    <2>4. ASSUME NEW m \in Waiting'
          PROVE  \E d \in Device, k \in Command :
                    /\ LastOf(d, k)' /\ events[m].device = d
                    /\ events[m].cmd = k /\ events[m].payload \in {None, row'[k].payload}
      <3>1. m \in Waiting /\ m # consumed + 1
        BY <2>1
      <3>2. PICK d \in Device, k \in Command :
               /\ LastOf(d, k) /\ events[m].device = d
               /\ events[m].cmd = k /\ events[m].payload \in {None, row[k].payload}
        BY <1>i, <3>1 DEF OnTheWayIsLast
      <3> QED BY <1>8, <3>1, <3>2
    <2>5. OnTheWayIsLast'
      BY <1>8, <2>3, <2>4 DEF OnTheWayIsLast
    <2> QED BY <2>2, <2>5
  <1>9. ASSUME consumed < Len(events), consumed' = consumed + 1,
               UNCHANGED <<row, worker, queue, events>>
        PROVE  SerialInv'
    <2>1. \A c, k : LastOf(c, k)' <=> LastOf(c, k)
      BY <1>9 DEF LastOf
    <2>2. SerialAttribution'
      BY <1>9, <1>i, <1>n, AttributionStays DEF Acknowledged
    <2> QED BY <1>8, <1>9, <1>c, <2>1, <2>2 DEF SerialInv
  <1>10. CASE HandleDownlinkAck
    <2> DEFINE n == consumed + 1
               e == events[n]
               k == e.cmd
    <2>1. /\ worker.pc = "idle" /\ consumed < Len(events) /\ consumed' = n
          /\ UNCHANGED <<worker, queue, events>>
          /\ IF e.acknowledged THEN AcknowledgeCommand(n) ELSE row' = row
      BY <1>10 DEF HandleDownlinkAck, netVars, rowVars
    <2>2. n \in 1..Len(events) /\ n \in Waiting /\ e.device \in Device
      BY <1>t, <2>1, EventShape DEF Waiting
    <2>3. k \in Command /\ LastOf(e.device, k) /\ e.payload \in {None, row[k].payload}
      BY <1>i, <2>2 DEF OnTheWayIsLast
    <2>4. k \in Command /\ row[k].device = e.device /\ row[k].status = "sent"
      BY <2>1, <2>3 DEF LastOf
    <2>5. e.tenant \in {None, row[k].tenant}
      BY <2>2, <2>4 DEF OneTenant
    <2>6. CASE e.acknowledged
      <3>1. k \in Candidates(e)
        BY <2>3, <2>4, <2>5 DEF Candidates
      <3>2. ASSUME NEW c \in Candidates(e), NewestSent(c, Candidates(e)) PROVE c = k
        <4>1. c \in Command /\ row[c].device = e.device /\ row[c].status = "sent"
          BY DEF Candidates
        <4>2. row[c].sentAt \in Nat /\ row[k].sentAt \in Nat
          BY <1>t, <2>4, <4>1 DEF TypeOK, Row
        <4>3. row[k].sentAt < row[c].sentAt \/ row[k].sentAt = row[c].sentAt
          BY <3>1, <3>2 DEF NewestSent
        <4>4. c # k => row[c].sentAt < row[k].sentAt
          BY <2>3, <2>4, <4>1 DEF LastOf
        <4> QED BY <4>2, <4>3, <4>4
      <3>3. row' = [row EXCEPT ![k].status = "acknowledged", ![k].fCntDown = n]
        BY <2>1, <2>6, <3>1, <3>2 DEF AcknowledgeCommand
      <3>4. /\ row'[k].status = "acknowledged" /\ row'[k].fCntDown = n
            /\ \A b \in Command : b # k => row'[b] = row[b]
        BY <1>t, <2>4, <3>3 DEF TypeOK, Row
      <3>5. ASSUME NEW d \in Device, d # e.device, NEW c \in Command, LastOf(d, c)
            PROVE  LastOf(d, c)' /\ row'[c].payload = row[c].payload
        <4>1. c \in Command /\ c # k /\ row[c].device = d /\ row[c].status = "sent"
          BY <2>1, <2>4, <3>5 DEF LastOf
        <4>2. \A b \in Command : row'[b].status = "sent" => row'[b] = row[b]
          BY <3>4
        <4> QED BY <2>1, <3>4, <3>5, <4>1, <4>2 DEF LastOf
      <3>6. /\ \A m \in Waiting : m # n => events[m].device \in Device /\ events[m].device # e.device
            /\ queue[e.device] = <<>>
        <4>1. queue[e.device] = <<>>
          BY <1>i, <2>2 DEF OneOnTheWay
        <4>3. \A m \in Waiting : m \in 1..Len(events)
          BY DEF Waiting
        <4> QED BY <1>i, <1>t, <2>2, <4>1, <4>3, EventShape DEF OneOnTheWay
      <3>7. OneOnTheWay' /\ OnTheWayIsLast'
        <4>1. ASSUME NEW d \in Device,
                     queue[d] # <<>> \/ \E m \in Waiting : m # n /\ events[m].device = d
              PROVE  d # e.device
          BY <3>6, <4>1
        <4> QED BY <1>8, <2>1, <3>5, <4>1
      <3>8. SerialAttribution'
        <4> SUFFICES ASSUME NEW c \in Acknowledged' PROVE events'[row'[c].fCntDown].cmd = c
          BY DEF SerialAttribution
        <4>1. CASE c = k
          BY <2>1, <3>4, <4>1
        <4>2. CASE c # k
          <5>1. row'[c] = row[c] /\ c \in Acknowledged
            BY <3>4, <4>2 DEF Acknowledged
          <5> QED BY <1>i, <2>1, <5>1 DEF SerialAttribution
        <4> QED BY <4>1, <4>2
      <3> QED BY <1>c, <3>7, <3>8 DEF SerialInv
    <2>7. CASE ~e.acknowledged
      BY <1>9, <2>1, <2>7
    <2> QED BY <2>6, <2>7
  <1>11. CASE LoseAck
    BY <1>9, <1>11 DEF LoseAck, rowVars, netVars
  <1>12. CASE UNCHANGED vars
    <2>1. UNCHANGED <<row, clock, worker, queue, events, consumed>>
      BY <1>12 DEF vars
    <2>2. \A c, k : LastOf(c, k)' <=> LastOf(c, k)
      BY <2>1 DEF LastOf
    <2>3. SerialAttribution'
      BY <1>i, <2>1 DEF SerialAttribution, Acknowledged
    <2> QED BY <1>c, <1>i, <1>t, <2>1, <2>2, <2>3, NothingMoves DEF SerialInv
  <1> QED
    BY <1>1, <1>2, <1>3, <1>4, <1>5, <1>6, <1>7, <1>10, <1>11, <1>12, SerialSteps, Zenon
       DEF SerialStep, Flush, Answer

LEMMA SerialInit == Init => SerialInv /\ OneTenant
  <1> SUFFICES ASSUME Init PROVE SerialInv /\ OneTenant
    OBVIOUS
  <1>1. /\ \A d \in Device : queue[d] = <<>> /\ Len(queue[d]) = 0 /\ DOMAIN queue[d] = {}
        /\ Waiting = {} /\ Len(events) = 0 /\ \A c \in Command : row[c] = NoRow
    BY DEF Init, Waiting
  <1>2. NoRow.status = "none" /\ NoRow.sentAt = 0
    BY DEF NoRow
  <1>3. OneOnTheWay /\ OnTheWayIsLast /\ OneTenant
    BY <1>1, <1>2 DEF OneOnTheWay, OnTheWayIsLast, OneTenant
  <1>4. Clocked /\ SerialAttribution
    BY <1>1, <1>2 DEF Init, Clocked, SerialAttribution, Acknowledged
  <1> QED BY <1>3, <1>4 DEF SerialInv

\* One command at a time, the acknowledgement by content and recency is exact:
\* an acknowledged command is the one whose frame the device confirmed, however
\* many devices, equal payloads, flushed queues and lost or negative acks.
THEOREM AttributionIsExact == SerialSpec => []SerialAttribution
  <1>1. SerialSpec => Spec
    <2>1. [SerialNext]_vars => [Next]_vars
      BY DEF SerialNext
    <2> QED BY <2>1, PTL DEF SerialSpec, Spec
  <1>2. Core /\ AckOneToOne /\ SerialInv /\ OneTenant /\ [SerialNext]_vars => SerialInv' /\ OneTenant'
    BY SerialInvStep, OneTenantStep
  <1>3. SerialInv => SerialAttribution
    BY DEF SerialInv
  <1>4. Core /\ [Next]_vars => Core'
    BY CoreStep
  <1> QED
    BY CoreInit, SerialInit, AckJustified, <1>1, <1>2, <1>3, <1>4, PTL DEF Spec, SerialSpec

\* So the run's second part attributes each ack in turn.
THEOREM AcksAreAttributed == CommandsSpec => []AttributedInTurn
  <1> DEFINE IInv == part = "in turn" => SerialInv /\ OneTenant
  <1>1. CommandsSpec => Spec
    <2>1. CommandsInit => Init
      BY DEF CommandsInit
    <2>2. [CommandsNext]_<<part, vars>> => [Next]_vars
      BY DEF CommandsNext, SerialNext
    <2> QED BY <2>1, <2>2, PTL DEF CommandsSpec, Spec
  <1>2. CommandsInit => IInv
    BY SerialInit DEF CommandsInit
  <1>3. Core /\ AckOneToOne /\ IInv /\ [CommandsNext]_<<part, vars>> => IInv'
    <2> SUFFICES ASSUME Core, AckOneToOne, IInv, [CommandsNext]_<<part, vars>>, part' = "in turn"
                 PROVE  SerialInv' /\ OneTenant'
      OBVIOUS
    <2>1. part = "in turn" /\ [SerialNext]_vars
      BY DEF CommandsNext
    <2> QED BY <2>1, SerialInvStep, OneTenantStep
  <1>4. IInv => AttributedInTurn
    BY DEF AttributedInTurn, SerialInv
  <1>5. Core /\ [Next]_vars => Core'
    BY CoreStep
  <1> QED
    BY CoreInit, AckJustified, <1>1, <1>2, <1>3, <1>4, <1>5, PTL DEF Spec, CommandsSpec
=============================================================================
