--------------------------- MODULE MeterCommands ---------------------------
(***************************************************************************)
(* Downlink commands of the Shengda water application: the table           *)
(* shengda_downlink_commands, the HTTP handler send_command that inserts a *)
(* row, enqueues the frame in ChirpStack and records the outcome, and the  *)
(* NATS handler that matches the acknowledgements of the devices with the  *)
(* rows.                                                                   *)
(*                                                                         *)
(* The worker is one asyncio event loop whose store and HTTP calls are     *)
(* synchronous, so handlers exclude each other; the steps of send_command  *)
(* are separate transactions and the process can stop between any two.     *)
(*                                                                         *)
(* External parts, modelled from how the code uses them: the device queue  *)
(* of ChirpStack (first in, first out; the answer to a confirmed downlink  *)
(* is an ack event, positive or not), the generic downlinks and the flush  *)
(* that platform-api offers on the same queue, and the MQTT and NATS hops  *)
(* of ack events (ordered, at most once).                                  *)
(***************************************************************************)
EXTENDS Naturals, Sequences

CONSTANTS
    Device,          \* dev_eui values
    Tenant,          \* platform tenants
    Owner,           \* the tenant of each device
    Payload,         \* payload_hex values: equal commands have equal payloads
    None,            \* SQL NULL / an absent JSON field
    AckHasPayload,   \* does ChirpStack's ack event carry the frame's data?
    MaxCommands,     \* bound on rows of shengda_downlink_commands
    MaxEvents,       \* bound on ack events emitted by ChirpStack
    MaxGeneric,      \* bound on generic downlinks put on the same queues
    MaxFaults        \* bound on crashes, database errors and lost replies

ASSUME OwnerAssumption == Owner \in [Device -> Tenant]
ASSUME NoneAssumption == None \notin (Device \cup Tenant \cup Payload)
ASSUME BoundAssumption ==
    /\ {MaxCommands, MaxEvents, MaxGeneric, MaxFaults} \subseteq Nat
    /\ AckHasPayload \in BOOLEAN

Command == 1..MaxCommands   \* row ids, in the order of created_at

Status == {"none", "pending", "sent", "failed", "acknowledged"}

\* An item of a ChirpStack device queue; cmd = 0 for a generic downlink.
Item == [cmd : 0..MaxCommands, payload : Payload]

AckEvent == [device : Device, cmd : 0..MaxCommands, acknowledged : BOOLEAN,
             payload : Payload \cup {None}, tenant : Tenant \cup {None}]

VARIABLES
    row,       \* shengda_downlink_commands: id -> row
    clock,     \* NOW() at the successive 'sent' updates
    worker,    \* the event loop: idle, or a step of send_command
    queue,     \* ChirpStack: device -> queued downlinks
    accepted,  \* history: commands that ChirpStack put on a queue
    events,    \* every ack event emitted, in order
    consumed,  \* how many of them left the bus, handled or lost
    generic,   \* number of generic downlinks so far
    faults     \* number of faults so far

rowVars == <<row, clock>>
netVars == <<queue, accepted, events, generic>>
vars == <<row, clock, worker, queue, accepted, events, consumed, generic, faults>>

Row == [status : Status, device : Device \cup {None}, tenant : Tenant \cup {None},
        payload : Payload \cup {None}, sentAt : Nat, fCntDown : Nat]

NoRow == [status |-> "none", device |-> None, tenant |-> None,
          payload |-> None, sentAt |-> 0, fCntDown |-> 0]

Idle == [pc |-> "idle", cmd |-> 0]

TypeOK ==
    /\ row \in [Command -> Row]
    /\ clock \in Nat
    /\ worker \in [pc : {"idle", "inserted", "enqueued", "error"},
                   cmd : 0..MaxCommands]
    /\ worker.pc # "idle" => worker.cmd \in Command
    /\ queue \in [Device -> Seq(Item)]
    /\ accepted \subseteq Command
    /\ events \in Seq(AckEvent)
    /\ consumed \in 0..Len(events)
    /\ generic \in Nat
    /\ faults \in Nat

Init ==
    /\ row = [c \in Command |-> NoRow]
    /\ clock = 0
    /\ worker = Idle
    /\ queue = [d \in Device |-> <<>>]
    /\ accepted = {}
    /\ events = <<>>
    /\ consumed = 0
    /\ generic = 0
    /\ faults = 0

-----------------------------------------------------------------------------
(* send_command *)

NewCommand(c) ==
    /\ row[c].status = "none"
    /\ \A b \in Command : b < c => row[b].status # "none"

\* insert_command: the row is committed as 'pending' before anything is sent.
SendCommand(c, d, t, p) ==
    /\ worker.pc = "idle"
    /\ NewCommand(c)
    /\ row' = [row EXCEPT ![c] = [status |-> "pending", device |-> d, tenant |-> t,
                                  payload |-> p, sentAt |-> 0, fCntDown |-> 0]]
    /\ worker' = [pc |-> "inserted", cmd |-> c]
    /\ UNCHANGED <<clock, netVars, consumed, faults>>

PutOnQueue(c) ==
    /\ queue' = [queue EXCEPT ![row[c].device] =
                     Append(@, [cmd |-> c, payload |-> row[c].payload])]
    /\ accepted' = accepted \cup {c}

\* enqueue_downlink returned: ChirpStack accepted the frame.
EnqueueDownlink(c) ==
    /\ worker = [pc |-> "inserted", cmd |-> c]
    /\ PutOnQueue(c)
    /\ worker' = [pc |-> "enqueued", cmd |-> c]
    /\ UNCHANGED <<rowVars, events, consumed, generic, faults>>

\* Mutant: the status code of ChirpStack's answer is not looked at.
EnqueueRefusedUnseen(c) ==
    /\ worker = [pc |-> "inserted", cmd |-> c]
    /\ worker' = [pc |-> "enqueued", cmd |-> c]
    /\ UNCHANGED <<rowVars, netVars, consumed, faults>>

\* enqueue_downlink raised before ChirpStack did anything (status >= 400,
\* connection refused).
EnqueueRefused(c) ==
    /\ worker = [pc |-> "inserted", cmd |-> c]
    /\ worker' = [pc |-> "error", cmd |-> c]
    /\ UNCHANGED <<rowVars, netVars, consumed, faults>>

Fault == faults < MaxFaults /\ faults' = faults + 1

\* enqueue_downlink raised although ChirpStack had accepted the frame: the
\* 20 s timeout of the client, a reply that was cut.
EnqueueReplyLost(c) ==
    /\ worker = [pc |-> "inserted", cmd |-> c]
    /\ Fault
    /\ PutOnQueue(c)
    /\ worker' = [pc |-> "error", cmd |-> c]
    /\ UNCHANGED <<rowVars, events, consumed, generic>>

\* The UPDATE of update_command_status is by id, whatever the status was.
UpdateStatus(c, s) ==
    /\ row' = [row EXCEPT ![c].status = s,
                          ![c].sentAt = IF s = "sent" THEN clock + 1 ELSE @]
    /\ clock' = IF s = "sent" THEN clock + 1 ELSE clock

MarkSent(c) ==
    /\ worker = [pc |-> "enqueued", cmd |-> c]
    /\ UpdateStatus(c, "sent")
    /\ worker' = Idle
    /\ UNCHANGED <<netVars, consumed, faults>>

\* The 'sent' update raised, with its commit lost or only its reply lost.
MarkSentFails(c) ==
    /\ worker = [pc |-> "enqueued", cmd |-> c]
    /\ Fault
    /\ UpdateStatus(c, "sent") \/ UNCHANGED rowVars
    /\ worker' = [pc |-> "error", cmd |-> c]
    /\ UNCHANGED <<netVars, consumed>>

\* Mutant: the exception is raised to the caller but not recorded.
MarkFailedForgotten(c) ==
    /\ worker = [pc |-> "error", cmd |-> c]
    /\ worker' = Idle
    /\ UNCHANGED <<rowVars, netVars, consumed, faults>>

\* except Exception: the row is marked 'failed' and the caller gets a 502.
MarkFailed(c) ==
    /\ worker = [pc |-> "error", cmd |-> c]
    /\ UpdateStatus(c, "failed")
    /\ worker' = Idle
    /\ UNCHANGED <<netVars, consumed, faults>>

\* The 'failed' update raised as well: nothing records the outcome.
MarkFailedFails(c) ==
    /\ worker = [pc |-> "error", cmd |-> c]
    /\ Fault
    /\ worker' = Idle
    /\ UNCHANGED <<rowVars, netVars, consumed>>

\* The process stops inside send_command and is restarted; no start-up code
\* looks at the rows it left.
Crash ==
    /\ worker.pc # "idle"
    /\ Fault
    /\ worker' = Idle
    /\ UNCHANGED <<rowVars, netVars, consumed>>

-----------------------------------------------------------------------------
(* ChirpStack and platform-api on the same device queues (external) *)

\* POST /lorawan/devices/{devEui}/downlink, confirmed.
GenericDownlink(d, p) ==
    /\ generic < MaxGeneric
    /\ generic' = generic + 1
    /\ queue' = [queue EXCEPT ![d] = Append(@, [cmd |-> 0, payload |-> p])]
    /\ UNCHANGED <<rowVars, worker, accepted, events, consumed, faults>>

\* DELETE /lorawan/devices/{devEui}/downlink.
FlushQueue(d) ==
    /\ queue[d] # <<>>
    /\ queue' = [queue EXCEPT ![d] = <<>>]
    /\ UNCHANGED <<rowVars, worker, accepted, events, consumed, generic, faults>>

\* The device answers the head of its queue, or does not; either way
\* ChirpStack emits an ack event, and mqtt-ingestion adds the tenant if it
\* can resolve one.
DeviceAnswers(d, ok, t) ==
    /\ queue[d] # <<>>
    /\ Len(events) < MaxEvents
    /\ LET item == Head(queue[d]) IN
         events' = Append(events,
             [device |-> d, cmd |-> item.cmd, acknowledged |-> ok, tenant |-> t,
              payload |-> IF AckHasPayload THEN item.payload ELSE None])
    /\ queue' = [queue EXCEPT ![d] = Tail(@)]
    /\ UNCHANGED <<rowVars, worker, accepted, consumed, generic, faults>>

\* Core NATS and a clean MQTT session deliver at most once.
LoseAck ==
    /\ consumed < Len(events)
    /\ consumed' = consumed + 1
    /\ UNCHANGED <<rowVars, worker, netVars, faults>>

-----------------------------------------------------------------------------
(* handle_downlink_ack_event and acknowledge_command *)

\* Mutant: the status is not part of the WHERE clause.
CandidatesAnyStatus(e) ==
    {c \in Command :
        /\ row[c].device = e.device
        /\ e.payload # None => row[c].payload = e.payload
        /\ e.tenant # None => row[c].tenant = e.tenant}

\* WHERE dev_eui = ... AND status = 'sent' AND (payload) AND (tenant).
Candidates(e) ==
    {c \in Command :
        /\ row[c].device = e.device
        /\ row[c].status = "sent"
        /\ e.payload # None => row[c].payload = e.payload
        /\ e.tenant # None => row[c].tenant = e.tenant}

\* Mutant: first sent, first acknowledged.
OldestSent(c, S) ==
    \A b \in S : row[c].sentAt < row[b].sentAt
                 \/ (row[c].sentAt = row[b].sentAt /\ c <= b)

\* ORDER BY sent_at DESC, created_at DESC LIMIT 1.
NewestSent(c, S) ==
    \A b \in S : row[b].sentAt < row[c].sentAt
                 \/ (row[b].sentAt = row[c].sentAt /\ b <= c)

\* Mutant: no LIMIT 1, so one ack settles every matching row.
AcknowledgeEvery(n) ==
    /\ row' = [c \in Command |->
                 IF c \in Candidates(events[n])
                 THEN [row[c] EXCEPT !.status = "acknowledged", !.fCntDown = n]
                 ELSE row[c]]
    /\ UNCHANGED clock

\* What an ack event does to the table; detail keeps its fCntDown.
AcknowledgeCommand(n) ==
    LET S == Candidates(events[n]) IN
    \/ /\ \E c \in S :
            /\ NewestSent(c, S)
            /\ row' = [row EXCEPT ![c].status = "acknowledged", ![c].fCntDown = n]
       /\ UNCHANGED clock
    \/ S = {} /\ UNCHANGED rowVars

\* Mutant: an ack that matches no row is kept for a later try.
HandleAckRetrying ==
    /\ worker.pc = "idle"
    /\ consumed < Len(events)
    /\ events[consumed + 1].acknowledged => Candidates(events[consumed + 1]) # {}
    /\ consumed' = consumed + 1
    /\ IF events[consumed + 1].acknowledged
       THEN AcknowledgeCommand(consumed + 1)
       ELSE UNCHANGED rowVars
    /\ UNCHANGED <<worker, netVars, faults>>

\* A negative ack is only logged: the command stays 'sent'.
HandleDownlinkAck ==
    /\ worker.pc = "idle"
    /\ consumed < Len(events)
    /\ consumed' = consumed + 1
    /\ IF events[consumed + 1].acknowledged
       THEN AcknowledgeCommand(consumed + 1)
       ELSE UNCHANGED rowVars
    /\ UNCHANGED <<worker, netVars, faults>>

-----------------------------------------------------------------------------
Request == \E c \in Command, d \in Device, t \in Tenant, p \in Payload :
               SendCommand(c, d, t, p)

SendStep(c) ==
    \/ EnqueueDownlink(c) \/ EnqueueRefused(c) \/ EnqueueReplyLost(c)
    \/ MarkSent(c) \/ MarkSentFails(c) \/ MarkFailed(c) \/ MarkFailedFails(c)

Answer == \E d \in Device, ok \in BOOLEAN :
              \E t \in {Owner[d], None} : DeviceAnswers(d, ok, t)

Generic == \E d \in Device, p \in Payload : GenericDownlink(d, p)

Flush == \E d \in Device : FlushQueue(d)

Next ==
    \/ Request
    \/ \E c \in Command : SendStep(c)
    \/ Crash
    \/ Generic
    \/ Flush
    \/ Answer
    \/ LoseAck
    \/ HandleDownlinkAck

Spec == Init /\ [][Next]_vars

\* Every call of send_command has a timeout or returns, and asyncio runs its
\* ready callbacks in order, so that a message that waits for the loop gets
\* its turn however many requests follow.  Users, devices and the network
\* owe nothing.
Fairness ==
    /\ \A c \in Command : WF_vars(SendStep(c))
    /\ SF_vars(HandleDownlinkAck)

FairSpec == Spec /\ Fairness

-----------------------------------------------------------------------------
(* Correctness *)

Acknowledged == {c \in Command : row[c].status = "acknowledged"}

Proves(n, c) ==
    LET e == events[n] IN
    /\ e.acknowledged
    /\ e.device = row[c].device
    /\ e.payload \in {None, row[c].payload}
    /\ e.tenant \in {None, row[c].tenant}

Justified(c) == row[c].fCntDown \in 1..consumed /\ Proves(row[c].fCntDown, c)

\* Every acknowledged command rests on a positive ack event that was
\* consumed, comes from the same device and does not contradict the row, and
\* no ack event settles two commands (acknowledge_command with its subquery
\* LIMIT 1, called by handle_downlink_ack_event).
AckOneToOne ==
    /\ \A c \in Acknowledged : Justified(c)
    /\ \A b, c \in Acknowledged : row[b].fCntDown = row[c].fCntDown => b = c

\* The history never takes back what it told the operator last: a command
\* that is acknowledged or failed keeps that row, although
\* update_command_status writes by id without looking at the status.
TerminalStatus ==
    [][\A c \in Command :
          row[c].status \in {"acknowledged", "failed"} => row'[c] = row[c]]_vars

\* A command shown as sent or acknowledged was accepted by ChirpStack,
\* whichever exception or crash hit send_command.
SentReachedQueue ==
    \A c \in Command : row[c].status \in {"sent", "acknowledged"} => c \in accepted

\* Without a crash or a failing database, no row is left 'pending' behind:
\* only the command in progress is.
NoForgottenCommand ==
    \A c \in Command :
        row[c].status = "pending" => faults > 0 \/ worker.cmd = c

\* Each ack event the bus holds is handled or lost in the end, whatever else
\* the event loop has to do (on_downlink_ack gets its turn).
AcksDrain == \A n \in 1..MaxEvents : Len(events) >= n ~> consumed >= n

\* The command history implements CommandLedger: a receipt is a positive ack
\* event that no row has used.
Receipts ==
    {n \in 1..Len(events) : events[n].acknowledged}
        \ {row[c].fCntDown : c \in Acknowledged}

Ledger == INSTANCE CommandLedger WITH
    Receipt <- 1..MaxEvents,
    ledger <- [c \in Command |-> row[c].status],
    receipts <- Receipts

\* Every step of the worker, of ChirpStack and of the bus is a step of the
\* ledger or leaves it alone.
LedgerSpec == Ledger!Spec

\* The operator waits: a new command, in the name of the device's tenant, only
\* when the device has nothing queued and no ack is on its way; nothing fails,
\* and nobody else uses the queue.
Quiet(d) == queue[d] = <<>> /\ consumed = Len(events)

SerialNext ==
    /\ Next /\ UNCHANGED <<generic, faults>>
    /\ row' # row /\ worker' # worker /\ worker.pc = "idle" =>
           LET new == row'[worker'.cmd] IN
           Quiet(new.device) /\ new.tenant = Owner[new.device]

SerialSpec == Init /\ [][SerialNext]_vars

\* Under that discipline the acknowledgement is exact although ack events do
\* not name a row: each acknowledged command is the one the device confirmed
\* (the ORDER BY sent_at DESC of acknowledge_command, which skips the older
\* commands whose ack was negative, flushed or lost).
SerialAttribution ==
    \A c \in Acknowledged : events[row[c].fCntDown].cmd = c
=============================================================================
