-------------------------- MODULE UplinkPipeline ---------------------------
(***************************************************************************)
(* From the device to the tenant's applications: UplinkIngestion, whose    *)
(* uplink events are the events of UplinkConsumers.  The services share    *)
(* only NATS and the database; each step is a step of one of them, and a   *)
(* published uplink reaches the subscriptions that are there.              *)
(***************************************************************************)
EXTENDS UplinkIngestion

CONSTANTS
    Id, KindOf, OwnerOf, ConditionOf, Reading, Worker, Admin, Password, PendingLimit,
    ReadingOf,         \* device -> the field of its frames that rules look at
    MaxServiceFaults   \* bound on faults of the consuming services

ASSUME ReadingAssumption == ReadingOf \in [Device -> Reading]

VARIABLES
    uplinks,   \* the events on platform.events.uplink, as entries of the bus
    rows, views, links, pending, jobs, calls, executions, serviceFaults, offSince

\* What the consumers see of them.
Events == [i \in 1..Len(uplinks) |->
             [tenant |-> uplinks[i].tenant, reading |-> ReadingOf[air[uplinks[i].msg].device]]]

Consumers == INSTANCE UplinkConsumers WITH
    events <- Events, faults <- serviceFaults,
    MaxFaults <- MaxServiceFaults, MaxEvents <- MaxMessages

ASSUME ConsumersAssumption ==
    /\ Consumers!RowAssumption /\ Consumers!WorkerAssumption
    /\ Consumers!ConditionAssumption /\ Consumers!BoundAssumption

consumerVars == <<rows, views, links, pending, jobs, calls, executions, serviceFaults,
                  offSince>>

PipelineInit == Init /\ uplinks = <<>> /\ Consumers!Init

IsUplink(e) == air[e.msg].kind = "up"

NewEvent == bus'[Len(bus')]

\* Mutant: the subscriptions receive the acks, too.
DeliverEverything ==
    IF Len(bus') > Len(bus)
    THEN /\ uplinks' = IF IsUplink(NewEvent) THEN Append(uplinks, NewEvent) ELSE uplinks
         /\ Consumers!Receive(Len(bus'))
         /\ UNCHANGED <<rows, views, links, jobs, calls, executions, serviceFaults,
                        offSince>>
    ELSE UNCHANGED <<uplinks, consumerVars>>

\* A published uplink is received at once; acks have a subject of their own.
Deliver ==
    IF Len(bus') > Len(bus) /\ IsUplink(NewEvent)
    THEN /\ uplinks' = Append(uplinks, NewEvent)
         /\ Consumers!Receive(Len(uplinks'))
         /\ UNCHANGED <<rows, views, links, jobs, calls, executions, serviceFaults,
                        offSince>>
    ELSE UNCHANGED <<uplinks, consumerVars>>

PipelineNext ==
    \/ Next /\ Deliver
    \/ UNCHANGED <<vars, uplinks>> /\ Consumers!ConsumerNext

PipelineSpec == PipelineInit /\ [][PipelineNext]_<<vars, uplinks, consumerVars>>

-----------------------------------------------------------------------------
(* Correctness *)

\* The consumers, fed by mqtt-ingestion, behave as UplinkConsumers says.
ConsumersSpec == Consumers!Spec

\* Whoever calls a tenant's application does so for a frame that is stored
\* under that tenant (uplink_frames.tenant_id, the event's tenantId and the
\* tenant of the rule or connector agree).
CallsRestOnFrames ==
    \A i \in 1..Len(calls) :
        [msg |-> uplinks[calls[i].event].msg, tenant |-> OwnerOf[calls[i].id]] \in frames

\* A rule or connector sees the frames of the devices in the order in which
\* ChirpStack published them and each at most once, from one end to the other.
EndToEndOrder ==
    \A i, j \in 1..Len(calls) :
        i < j /\ calls[i].id = calls[j].id
        => uplinks[calls[i].event].msg < uplinks[calls[j].event].msg
=============================================================================
