-------------------------- MODULE UplinkIngestion --------------------------
(***************************************************************************)
(* services/mqtt-ingestion: the process that listens to ChirpStack's MQTT  *)
(* topics and turns each uplink into a row of uplink_frames, an object in  *)
(* MinIO with its row of payload_archives, and an event on NATS; each      *)
(* downlink ack into a NATS event; each gateway report into a row of       *)
(* gateway_stats.                                                          *)
(*                                                                         *)
(* paho calls the handler for one message at a time.  Its session is       *)
(* clean: the broker forgets the subscriptions and what it had not yet     *)
(* delivered when the connection breaks.  The publisher and the archiver   *)
(* are chosen once, when the process starts.                               *)
(***************************************************************************)
EXTENDS Naturals, Sequences

CONSTANTS
    Device,          \* devices (and gateways) that ChirpStack reports on
    Tenant,          \* platform tenants
    None,            \* no tenant
    Registered,      \* lookup -> device -> the tenant its query finds, if any
    DefaultTenant,   \* the tenant with slug 'chirpstack-default', if any
    MaxMessages,     \* bound on MQTT messages
    MaxFaults        \* bound on faults of the process, the network, the stores

\* The queries of resolveTenant, by the identifier they use.
Lookup == {"chirpstack", "application", "gateway"}

ASSUME RegisteredAssumption ==
    /\ Registered \in [Lookup -> [Device -> Tenant \cup {None}]]
    /\ DefaultTenant \in Tenant \cup {None}
    /\ None \notin Tenant
ASSUME BoundAssumption == MaxMessages \in Nat /\ MaxFaults \in Nat

Kind == {"up", "ack", "stats"}

Message == [kind : Kind, device : Device]

VARIABLES
    air,        \* every message ChirpStack published, in order
    process,    \* "down", "starting" (client.Connect) or "running"
    publisher,  \* is handler.publisher set?
    archiver,   \* is handler.archiver set?
    session,    \* paho: "none", "connecting" or "connected"
    subscribed, \* the topics, by kind, that this session is subscribed to
    inbox,      \* messages the broker delivered that are not handled yet
    handler,    \* where the handler is, with its message and tenant
    frames,     \* uplink_frames: message number -> tenant, for those stored
    objects,    \* MinIO: keys, a tenant (or "unknown") and a message
    archives,   \* payload_archives: <<tenant, message>>
    stats,      \* gateway_stats: <<tenant, message>>
    bus,        \* every NATS event published, in order
    faults      \* number of faults so far

procVars == <<process, publisher, archiver>>
linkVars == <<session, subscribed>>
storeVars == <<frames, objects, archives, stats>>
vars == <<air, process, publisher, archiver, session, subscribed, inbox, handler,
          frames, objects, archives, stats, bus, faults>>

MaybeTenant == Tenant \cup {None}

Idle == [pc |-> "idle", msg |-> 0, tenant |-> None]

Entry == [msg : Nat, tenant : MaybeTenant]

TypeOK ==
    /\ air \in Seq(Message) /\ Len(air) <= MaxMessages
    /\ process \in {"down", "starting", "running"}
    /\ publisher \in BOOLEAN /\ archiver \in BOOLEAN
    /\ session \in {"none", "connecting", "connected"}
    /\ subscribed \subseteq Kind
    /\ inbox \in Seq(Nat)
    /\ handler \in [pc : {"idle", "insert", "object", "archive", "publish", "stats"},
                    msg : Nat, tenant : MaybeTenant]
    /\ frames \subseteq Entry
    /\ objects \subseteq Entry
    /\ archives \subseteq Entry
    /\ stats \subseteq Entry
    /\ bus \in Seq(Entry)
    /\ faults \in Nat

Init ==
    /\ air = <<>>
    /\ process = "down"
    /\ publisher = FALSE /\ archiver = FALSE
    /\ session = "none" /\ subscribed = {}
    /\ inbox = <<>> /\ handler = Idle
    /\ frames = {} /\ objects = {} /\ archives = {} /\ stats = {}
    /\ bus = <<>>
    /\ faults = 0

Fault == faults < MaxFaults /\ faults' = faults + 1

\* What may go wrong costs a fault; what goes well does not.
Either(good, bad) == (good /\ UNCHANGED faults) \/ (bad /\ Fault)

-----------------------------------------------------------------------------
(* main and client.Connect *)

\* NATS or MinIO that cannot be reached now leaves its interface nil until
\* the next start.
Start ==
    /\ process = "down"
    /\ process' = "starting"
    /\ session' = "connecting"
    /\ Either(publisher' = TRUE /\ archiver' = TRUE,
              \/ publisher' = FALSE /\ archiver' \in BOOLEAN
              \/ publisher' = TRUE /\ archiver' = FALSE)
    /\ UNCHANGED <<air, subscribed, inbox, handler, storeVars, bus>>

\* The connection is up within the 10 s; a subscription, topic by topic,
\* that the broker does not grant is only logged.
Connected ==
    /\ process = "starting"
    /\ process' = "running"
    /\ session' = "connected"
    /\ Either(subscribed' = Kind, subscribed' \in SUBSET Kind)
    /\ UNCHANGED <<air, publisher, archiver, inbox, handler, storeVars, bus>>

\* WaitTimeout expires and token.Error() is nil: Connect returns no error, and
\* main goes on without having subscribed.
ConnectTimeout ==
    /\ process = "starting"
    /\ process' = "running"
    /\ Fault
    /\ UNCHANGED <<air, publisher, archiver, linkVars, inbox, handler, storeVars, bus>>

\* ConnectRetry and AutoReconnect bring the connection back; nothing in the
\* code subscribes again.
PahoReconnects ==
    /\ process = "running"
    /\ session = "connecting"
    /\ session' = "connected"
    /\ UNCHANGED <<air, procVars, subscribed, inbox, handler, storeVars, bus, faults>>

\* The broker restarts or the network breaks: the broker forgets the clean
\* session, with the messages that had not left it.
ConnectionLost ==
    /\ process = "running"
    /\ session = "connected"
    /\ Fault
    /\ session' = "connecting"
    /\ subscribed' = {}
    /\ \E k \in 0..Len(inbox) : inbox' = SubSeq(inbox, 1, k)
    /\ UNCHANGED <<air, procVars, handler, storeVars, bus>>

\* Mutant: a persistent session, whose unacknowledged message comes again.
CrashKeepingSession ==
    /\ process # "down"
    /\ Fault
    /\ process' = "down"
    /\ session' = "none" /\ UNCHANGED subscribed
    /\ publisher' = FALSE /\ archiver' = FALSE
    /\ inbox' = IF handler.pc = "idle" THEN inbox ELSE <<handler.msg>> \o inbox
    /\ handler' = Idle
    /\ UNCHANGED <<air, storeVars, bus>>

\* The process stops wherever it is; Docker starts it again.
Crash ==
    /\ process # "down"
    /\ Fault
    /\ process' = "down"
    /\ session' = "none" /\ subscribed' = {}
    /\ publisher' = FALSE /\ archiver' = FALSE
    /\ inbox' = <<>> /\ handler' = Idle
    /\ UNCHANGED <<air, storeVars, bus>>

\* ChirpStack publishes a message; without a subscription nobody gets it.
Emit(m) ==
    /\ Len(air) < MaxMessages
    /\ air' = Append(air, m)
    /\ inbox' = IF m.kind \in subscribed THEN Append(inbox, Len(air) + 1) ELSE inbox
    /\ UNCHANGED <<procVars, linkVars, handler, storeVars, bus, faults>>

-----------------------------------------------------------------------------
(* Handle *)

\* Which identifiers a message of each kind carries.
Uses(kind) ==
    CASE kind = "up"    -> Lookup
      [] kind = "ack"   -> {"chirpstack", "application"}
      [] kind = "stats" -> {"gateway"}

\* resolveTenant: the first query that finds a tenant and does not fail; a
\* query that fails is treated as one that finds nothing.
Resolve(m, failed) ==
    LET Finds(l) == /\ l \in Uses(m.kind) \ failed
                    /\ Registered[l][m.device] # None
    IN IF Finds("chirpstack") THEN Registered["chirpstack"][m.device]
       ELSE IF Finds("application") THEN Registered["application"][m.device]
       ELSE IF Finds("gateway") THEN Registered["gateway"][m.device]
       ELSE IF "default" \notin failed THEN DefaultTenant ELSE None

FirstStep(kind) ==
    CASE kind = "up" -> "insert" [] kind = "ack" -> "publish" [] kind = "stats" -> "stats"

Resolved(n, failed) ==
    handler' = [pc |-> FirstStep(air[n].kind), msg |-> n, tenant |-> Resolve(air[n], failed)]

\* Mutant: SetOrderMatters(false), so that messages may overtake each other.
HandleAnyOrder ==
    /\ process = "running"
    /\ handler = Idle
    /\ \E i \in 1..Len(inbox) :
          /\ inbox' = SubSeq(inbox, 1, i - 1) \o SubSeq(inbox, i + 1, Len(inbox))
          /\ Either(Resolved(inbox[i], {}),
                    \E failed \in SUBSET (Lookup \cup {"default"}) : Resolved(inbox[i], failed))
    /\ UNCHANGED <<air, procVars, linkVars, storeVars, bus>>

Handle ==
    /\ process = "running"
    /\ handler = Idle
    /\ inbox # <<>>
    /\ inbox' = Tail(inbox)
    /\ Either(Resolved(Head(inbox), {}),
              \E failed \in SUBSET (Lookup \cup {"default"}) : Resolved(Head(inbox), failed))
    /\ UNCHANGED <<air, procVars, linkVars, storeVars, bus>>

At(pc) == process = "running" /\ handler.pc = pc

Goto(pc) == handler' = [handler EXCEPT !.pc = pc]

Current == [msg |-> handler.msg, tenant |-> handler.tenant]

AfterInsert == IF archiver THEN "object" ELSE "publish"

\* Mutant: the error of InsertUplink is logged and the handler goes on.
InsertUplinkUnchecked ==
    /\ At("insert")
    /\ Either(frames' = frames \cup {Current}, frames' \in {frames, frames \cup {Current}})
    /\ Goto(AfterInsert)
    /\ UNCHANGED <<air, procVars, linkVars, inbox, objects, archives, stats, bus>>

\* An error, with the row stored or not, ends the handler.
InsertUplink ==
    /\ At("insert")
    /\ Either(frames' = frames \cup {Current} /\ Goto(AfterInsert),
              frames' \in {frames, frames \cup {Current}} /\ handler' = Idle)
    /\ UNCHANGED <<air, procVars, linkVars, inbox, objects, archives, stats, bus>>

\* Mutant: the row is written although the upload failed.
StoreObjectUnchecked ==
    /\ At("object")
    /\ Either(objects' = objects \cup {Current}, objects' \in {objects, objects \cup {Current}})
    /\ Goto("archive")
    /\ UNCHANGED <<air, procVars, linkVars, inbox, frames, archives, stats, bus>>

\* ArchiveUplink, first half: the object, under a key that names the tenant.
StoreObject ==
    /\ At("object")
    /\ Either(objects' = objects \cup {Current} /\ Goto("archive"),
              objects' \in {objects, objects \cup {Current}} /\ Goto("publish"))
    /\ UNCHANGED <<air, procVars, linkVars, inbox, frames, archives, stats, bus>>

\* ArchiveUplink, second half: an error of either half is only logged.
InsertArchive ==
    /\ At("archive")
    /\ Either(archives' = archives \cup {Current},
              archives' \in {archives, archives \cup {Current}})
    /\ Goto("publish")
    /\ UNCHANGED <<air, procVars, linkVars, inbox, frames, objects, stats, bus>>

\* Mutant: an uplink of no tenant is of no interest to anyone.
PublishIfTenant ==
    /\ At("publish")
    /\ \/ /\ publisher /\ handler.tenant # None
          /\ Either(bus' = Append(bus, Current), UNCHANGED bus)
       \/ (~publisher \/ handler.tenant = None) /\ UNCHANGED <<bus, faults>>
    /\ handler' = Idle
    /\ UNCHANGED <<air, procVars, linkVars, inbox, storeVars>>

\* PublishUplink or PublishDownlinkAck: nothing without a publisher, and an
\* error is ignored.
Publish ==
    /\ At("publish")
    /\ \/ publisher /\ Either(bus' = Append(bus, Current), UNCHANGED bus)
       \/ ~publisher /\ UNCHANGED <<bus, faults>>
    /\ handler' = Idle
    /\ UNCHANGED <<air, procVars, linkVars, inbox, storeVars>>

InsertStats ==
    /\ At("stats")
    /\ Either(stats' = stats \cup {Current}, stats' \in {stats, stats \cup {Current}})
    /\ handler' = Idle
    /\ UNCHANGED <<air, procVars, linkVars, inbox, frames, objects, archives, bus>>

HandlerStep ==
    Handle \/ InsertUplink \/ StoreObject \/ InsertArchive \/ Publish \/ InsertStats

Lifecycle ==
    Start \/ Connected \/ ConnectTimeout \/ PahoReconnects

Next ==
    \/ \E m \in Message : Emit(m)
    \/ HandlerStep
    \/ Lifecycle
    \/ ConnectionLost
    \/ Crash

Spec == Init /\ [][Next]_vars

\* Docker restarts the process (restart: unless-stopped), the connection
\* attempt ends or times out, paho keeps retrying, and every call of the
\* handler returns.  ChirpStack owes no message.
Fairness == WF_vars(HandlerStep) /\ WF_vars(Lifecycle)

FairSpec == Spec /\ Fairness

-----------------------------------------------------------------------------
(* Correctness *)

Published(n) == \E i \in 1..Len(bus) : bus[i].msg = n

\* Nothing downstream of the database runs ahead of it: an uplink event, an
\* object and an archive row have their row in uplink_frames, with the same
\* tenant, and an archive row has its object (the early return of handleUplink
\* and the order of ArchiveUplink's two halves, under crashes and errors).
EventBacked ==
    /\ \A i \in 1..Len(bus) : air[bus[i].msg].kind = "up" => bus[i] \in frames
    /\ objects \subseteq frames
    /\ archives \subseteq objects

\* A message is stored once and for one tenant, although the handler may be
\* cut anywhere and an insert may take effect although it reports an error.
OneRow ==
    \A f, g \in frames : f.msg = g.msg => f = g

\* Consumers see the events in the order in which ChirpStack published the
\* messages, each at most once, across reconnections and restarts (paho's
\* ordered handler and the clean session).
InOrder ==
    \A i, j \in 1..Len(bus) : i < j => bus[i].msg < bus[j].msg

\* While nothing fails, an uplink that is stored also reaches NATS.
StoredThenPublished ==
    \A n \in 1..MaxMessages :
        (\E f \in frames : f.msg = n) /\ faults = 0 ~> Published(n) \/ faults > 0

\* README.md says that the service listens to the uplink topic: once subscribed,
\* it is so again and again, whatever is lost between.
KeepsListening == []("up" \in subscribed => []<>("up" \in subscribed))

\* 004_tenant_isolation.sql says that telemetry is scoped by tenant: the row
\* of a device is the one of the tenant that its identifiers name.
TelemetryScoped ==
    \A f \in frames : f.tenant = Resolve(air[f.msg], {})
=============================================================================
