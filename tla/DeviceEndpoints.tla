--------------------------- MODULE DeviceEndpoints ---------------------------
(***************************************************************************)
(* Devices that speak MQTT or LwM2M: their endpoints, which the platform   *)
(* API creates and deletes (internal/handler/iot_devices.go), and the      *)
(* service device-connectivity, which files what they send under the       *)
(* endpoint that bears their name and tells the bus.                       *)
(*                                                                         *)
(* An identity is [tenant, protocol, name, urn]; urn tells the LwM2M name  *)
(* "urn:imei:X" from "X".  A device's identity is the one it sends; its    *)
(* endpoint may have been created under the other form.  Payloads are left *)
(* out, and a message without one, which is dropped.  The LwM2M port       *)
(* without DTLS takes every device, so that the key of the other port      *)
(* restricts nothing.                                                      *)
(***************************************************************************)
EXTENDS Naturals

CONSTANTS
    Device,       \* the devices in the field: identities
    None,
    MaxRows,      \* bound: endpoints ever created
    MaxMessages,  \* bound: messages that find an endpoint
    MaxEndpointFaults  \* bound: restarts and failing statements

Row == 1..MaxRows

VARIABLES
    endpoint,   \* device_endpoints: each row's identity, None when not there
    made,       \* the rows inserted so far
    secret,     \* the row whose credentials a device was given
    link,       \* MQTT: the topic's name of an open session;
                \* LwM2M: the name in the location path the device was given
    work,       \* a device's request in hand: [at, n, row, tenant, due]
    sent,       \* the messages taken in hand so far
    telemetry,  \* telemetry_messages: [n, row, tenant, due]
    seen,       \* the rows with a last_seen_at
    bus,        \* platform.events.telemetry: [n, row, tenant]
    publisher,  \* NATS answered when the service started
    endpointFaults

Identity == [tenant : {d.tenant : d \in Device}, protocol : {"mqtt", "lwm2m"},
             name : {d.name : d \in Device}, urn : BOOLEAN]

Label == [protocol : {"mqtt", "lwm2m"}, name : {d.name : d \in Device}, urn : BOOLEAN]

(* Devices are identities, None is none of them and no row.                *)
DevicesAssumption ==
    Device \subseteq Identity /\ None \notin Identity \cup Label \cup Row /\ MaxRows \in Nat

registry == <<endpoint, made, secret>>
traffic == <<telemetry, seen, bus>>
endpointVars == <<registry, link, work, sent, traffic, publisher, endpointFaults>>

AtRest == [at |-> "idle", n |-> 0, row |-> None, tenant |-> None, due |-> None]

EndpointInit ==
    /\ endpoint = [r \in Row |-> None] /\ made = 0
    /\ secret = [d \in Device |-> None] /\ link = [d \in Device |-> None]
    /\ work = [d \in Device |-> AtRest] /\ sent = 0
    /\ telemetry = {} /\ seen = {} /\ bus = {}
    /\ publisher \in BOOLEAN /\ endpointFaults = 0

EndpointFault ==
    endpointFaults < MaxEndpointFaults /\ endpointFaults' = endpointFaults + 1
EndpointWell == UNCHANGED endpointFaults

Name(i) == [protocol |-> i.protocol, name |-> i.name, urn |-> i.urn]

Other(n) == [n EXCEPT !.urn = ~n.urn]

-----------------------------------------------------------------------------
(* The platform API *)

Forms(d) == IF d.protocol = "lwm2m" THEN BOOLEAN ELSE {FALSE}

(* A tenant has one endpoint of a protocol and name.                       *)
CreateEndpoint ==
    \E d \in Device : \E u \in Forms(d) :
      LET i == [d EXCEPT !.urn = u] IN
      /\ made < MaxRows /\ \A r \in Row : endpoint[r] # i
      /\ made' = made + 1
      /\ endpoint' = [endpoint EXCEPT ![made'] = i]
      /\ UNCHANGED <<secret, link, work, sent, traffic, publisher, endpointFaults>>

(* Its telemetry stays, without the row (ON DELETE SET NULL).              *)
DeleteEndpoint(r) ==
    /\ endpoint[r] # None
    /\ endpoint' = [endpoint EXCEPT ![r] = None]
    /\ telemetry' = {[m EXCEPT !.row = IF @ = r THEN None ELSE @] : m \in telemetry}
    /\ seen' = seen \ {r}
    /\ UNCHANGED <<made, secret, link, work, sent, bus, publisher, endpointFaults>>

(* Someone copies the credentials of the endpoint into the device.         *)
Provision(d) ==
    \E r \in Row :
      /\ d.protocol = "mqtt" /\ endpoint[r] = d
      /\ secret' = [secret EXCEPT ![d] = r]
      /\ UNCHANGED <<endpoint, made, link, work, sent, traffic, publisher, endpointFaults>>

-----------------------------------------------------------------------------
(* GetByExternalID: the name alone, in any tenant.  Of several rows the    *)
(* query returns any.                                                      *)
Named(n) == {r \in Row : endpoint[r] # None /\ Name(endpoint[r]) = n}

(* Mutant: the other form of a name is tried first.                        *)
CandidatesSwapped(n) == IF n.protocol = "lwm2m" THEN <<Other(n), n>> ELSE <<n>>

(* The forms of an LwM2M name, in the order in which they are looked up.   *)
Candidates(n) == IF n.protocol = "lwm2m" THEN <<n, Other(n)>> ELSE <<n>>

First(n) == Named(Candidates(n)[1])

(* History.  What the registry means by the name n of device d: the row of *)
(* d's tenant that bears d's own form of the name, or else the other form. *)
(* Nothing is due when another tenant has the name too, or when the device *)
(* goes by a location that still leads to another row.                     *)
Due(d, n) ==
    LET bearers == Named(Name(d)) \cup Named(Other(Name(d)))
        meant == IF Named(Name(d)) # {} THEN Name(d) ELSE Other(Name(d))
    IN  IF /\ n = meant \/ Named(n) = {}
           /\ bearers # {} /\ \A r \in bearers : endpoint[r].tenant = d.tenant
        THEN [d EXCEPT !.urn = meant.urn]
        ELSE None

(* Nor when the first form was made while the second was looked up.        *)
DueLate(d, n) == IF Named(n) = {} THEN Due(d, n) ELSE None

Handle(d, r, due) ==
    /\ sent < MaxMessages /\ sent' = sent + 1
    /\ work' = [work EXCEPT ![d] = [at |-> "touch", n |-> sent', row |-> r,
                                    tenant |-> endpoint[r].tenant, due |-> due]]

Goes(d, to) == work' = [work EXCEPT ![d].at = to]

Done(d) == work' = [work EXCEPT ![d] = AtRest]

Idle(d) == work[d].at = "idle"

(* The password is that of the row, whichever tenant's it is.              *)
Connect(d) ==
    /\ d.protocol = "mqtt" /\ Idle(d) /\ link[d] = None
    /\ \E r \in Named(Name(d)) : secret[d] = r
    /\ link' = [link EXCEPT ![d] = Name(d)]
    /\ UNCHANGED <<registry, work, sent, traffic, publisher, endpointFaults>>

Disconnect(d) ==
    /\ d.protocol = "mqtt" /\ Idle(d) /\ link[d] # None
    /\ link' = [link EXCEPT ![d] = None]
    /\ UNCHANGED <<registry, work, sent, traffic, publisher, endpointFaults>>

(* The location names the row that was found; a body, the list of the      *)
(* device's objects, is filed as telemetry.                                *)
GiveLocation(d, r, due) ==
    /\ link' = [link EXCEPT ![d] = Name(endpoint[r])]
    /\ Handle(d, r, due) \/ (Done(d) /\ UNCHANGED sent)

(* POST /rd, with the first look-up.                                       *)
Register(d) ==
    LET n == Name(d) IN
    /\ d.protocol = "lwm2m" /\ Idle(d)
    /\ \/ \E r \in First(n) : GiveLocation(d, r, Due(d, n))
       \/ First(n) = {} /\ Goes(d, "register") /\ UNCHANGED <<link, sent>>
    /\ UNCHANGED <<registry, traffic, publisher, endpointFaults>>

RegisterSecond(d) ==
    LET n == Name(d)
        second == Named(Candidates(n)[2])
    IN
    /\ work[d].at = "register"
    /\ \/ \E r \in second : GiveLocation(d, r, DueLate(d, n))
       \/ second = {} /\ Done(d) /\ UNCHANGED <<link, sent>>
    /\ UNCHANGED <<registry, traffic, publisher, endpointFaults>>

(* A message on the session's topic, or to the location: the row is looked *)
(* up again.  The registrations the server remembers name no other row     *)
(* than the path itself, and no one needs them after a restart.            *)
Report(d) ==
    LET n == link[d] IN
    /\ Idle(d) /\ n # None
    /\ \/ \E r \in First(n) : Handle(d, r, Due(d, n))
       \/ /\ First(n) = {} /\ d.protocol = "lwm2m"
          /\ Goes(d, "report") /\ UNCHANGED sent
    /\ UNCHANGED <<registry, link, traffic, publisher, endpointFaults>>

ReportSecond(d) ==
    LET n == link[d]
        second == Named(Candidates(n)[2])
    IN
    /\ work[d].at = "report"
    /\ \/ \E r \in second : Handle(d, r, DueLate(d, n))
       \/ second = {} /\ Done(d) /\ UNCHANGED sent
    /\ UNCHANGED <<registry, link, traffic, publisher, endpointFaults>>

-----------------------------------------------------------------------------
(* Processor.Handle *)

(* An error is dropped; a row that is gone is none.                        *)
TouchLastSeen(d) ==
    LET r == work[d].row IN
    /\ work[d].at = "touch" /\ Goes(d, "insert")
    /\ \/ /\ seen' = IF endpoint[r] # None THEN seen \cup {r} ELSE seen
          /\ EndpointWell
       \/ EndpointFault /\ UNCHANGED seen
    /\ UNCHANGED <<registry, link, sent, telemetry, bus, publisher>>

Message(d) == [n |-> work[d].n, row |-> work[d].row, tenant |-> work[d].tenant,
               due |-> work[d].due]

(* Fails when the endpoint is gone (its foreign key).                      *)
InsertTelemetry(d) ==
    LET there == endpoint[work[d].row] # None IN
    /\ work[d].at = "insert"
    /\ \/ /\ there /\ telemetry' = telemetry \cup {Message(d)}
          /\ IF publisher THEN Goes(d, "publish") ELSE Done(d)
          /\ EndpointWell
       \/ ~there /\ Done(d) /\ EndpointWell /\ UNCHANGED telemetry
       \/ /\ UNCHANGED telemetry \/ (there /\ telemetry' = telemetry \cup {Message(d)})
          /\ Done(d) /\ EndpointFault
    /\ UNCHANGED <<registry, link, sent, seen, bus, publisher>>

Tell(d) == bus' = bus \cup {[n |-> work[d].n, row |-> work[d].row, tenant |-> work[d].tenant]}

PublishTelemetry(d) ==
    /\ work[d].at = "publish" /\ Done(d)
    /\ (Tell(d) /\ EndpointWell) \/ (EndpointFault /\ UNCHANGED bus)
    /\ UNCHANGED <<registry, link, sent, telemetry, seen, publisher>>

(* The MQTT sessions end; an LwM2M device keeps its location.  Without     *)
(* NATS at the start, the service publishes nothing until the next one.    *)
RestartService ==
    /\ EndpointFault
    /\ work' = [d \in Device |-> AtRest]
    /\ link' = [d \in Device |-> IF d.protocol = "mqtt" THEN None ELSE link[d]]
    /\ publisher' \in BOOLEAN
    /\ UNCHANGED <<registry, sent, traffic>>

EndpointNext ==
    \/ CreateEndpoint \/ RestartService
    \/ \E r \in Row : DeleteEndpoint(r)
    \/ \E d \in Device :
         Provision(d) \/ Connect(d) \/ Disconnect(d) \/ Register(d)
         \/ RegisterSecond(d) \/ Report(d) \/ ReportSecond(d)
         \/ TouchLastSeen(d) \/ InsertTelemetry(d) \/ PublishTelemetry(d)

EndpointSpec == EndpointInit /\ [][EndpointNext]_endpointVars

-----------------------------------------------------------------------------
(* Properties *)

EndpointTypeOK ==
    /\ made \in 0..MaxRows /\ sent \in 0..MaxMessages
    /\ \A r \in Row : endpoint[r] # None => r <= made
    /\ seen \subseteq {r \in Row : endpoint[r] # None}
    /\ \A d \in Device :
         /\ work[d].at \in {"idle", "register", "report", "touch", "insert", "publish"}
         /\ work[d].at \in {"touch", "insert", "publish"} => work[d].row \in 1..made /\ work[d].n \in 1..sent
    /\ publisher \in BOOLEAN /\ endpointFaults \in 0..MaxEndpointFaults

(* While no other tenant bears a device's name, its telemetry is filed     *)
(* under the endpoint the registry means by it, whichever form the device  *)
(* sends and whichever rows were deleted and made again - and under its    *)
(* tenant even when that endpoint is gone.                                 *)
FiledWhereMeant ==
    \A m \in telemetry : m.due # None =>
      m.tenant = m.due.tenant /\ (m.row # None => endpoint[m.row] = m.due)

(* An event rests on a row of the same tenant and endpoint.                *)
EventsRestOnRows ==
    \A e \in bus : \E m \in telemetry :
      m.n = e.n /\ m.tenant = e.tenant /\ m.row \in {e.row, None}

TelemetryInPlace == FiledWhereMeant /\ EventsRestOnRows
=============================================================================
