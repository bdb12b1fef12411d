------------------------- MODULE UplinkPipelineMC --------------------------
(***************************************************************************)
(* Small instances for TLC of UplinkPipeline and, beside it, of            *)
(* DeviceEndpoints (what LoRaWAN devices send, and what the others send)   *)
(* and of TenantMembers, ApplicationRegistry and AnomalyDetection.  The     *)
(* initial state picks the one that runs, so that their states add up      *)
(* instead of multiplying.                                                 *)
(***************************************************************************)
EXTENDS UplinkPipeline, Integers, TLC

CONSTANTS
    d1, t1, t2, r1, a1, x1, x2,
    Gadget, MaxRows, MaxReports, MaxEndpointFaults,
    Request, Email, Role, NetworkOf, MaxMemberFaults,
    Network, Application, User, DefaultNetwork, NetworkAtFirst, MaxAppFaults,
    Burst, Gap, MaxBursts, MaxTime, MaxDetectionFaults

VARIABLES
    part,       \* the component that runs
    endpoint, made, secret, link, work, sent, telemetry, seen, told, online,
    endpointFaults,
    tenants, call, account, member, spoilt, memberFaults,
    net, networks, app, filed, job, booted, met, doubted, appFaults,
    heard, anomalies, detecting, spiking, hour, detectionFaults, quiet

endpointPart == <<endpoint, made, secret, link, work, sent, telemetry, seen, told,
                  online, endpointFaults>>
memberPart == <<tenants, call, account, member, spoilt, memberFaults>>
appPart == <<net, networks, app, filed, job, booted, met, doubted, appFaults>>
anomalyPart == <<heard, anomalies, detecting, spiking, hour, detectionFaults, quiet>>

\* The device belongs to t1, its gateway to t2.
AllRegistered == [l \in Lookup |-> d1 :> IF l = "gateway" THEN t2 ELSE t1]

\* A rule of t1 that matches the device's reading.
Kinds == [id \in Id |-> "rule"]
Owners == [id \in Id |-> t1]
Conditions == [id \in Id |-> [op |-> "lt", value |-> 0]]
Low == {-1}
Readings == d1 :> -1

\* Each tenant has devices of one name, one for each protocol; those that speak
\* LwM2M send different forms of it.
Namesakes ==
    {[tenant |-> t, protocol |-> p, name |-> "x", urn |-> p = "lwm2m" /\ t = t1] :
        t \in Tenant, p \in {"lwm2m", "mqtt"}}

IoT == INSTANCE DeviceEndpoints WITH
    Device <- Gadget, MaxMessages <- MaxReports, bus <- told, publisher <- online

Members == INSTANCE TenantMembers

OneEach == [t \in Tenant |-> t]

Apps == INSTANCE ApplicationRegistry

\* The default network has a tenant, the other none yet.  Who asks: a user of
\* each, and an administrator, at home in the default network, for t2.
Users ==
    {[tenant |-> "default", chosen |-> None], [tenant |-> "other", chosen |-> None],
     [tenant |-> "default", chosen |-> t2]}
Settled == t1 :> "default"

Alarms == INSTANCE AnomalyDetection WITH frames <- heard

\* The device sends for one tenant, too weakly or too often, and then for the
\* other, often and drowned in noise.
Bursts ==
    {[dev |-> d1, tenant |-> t1, count |-> 3, rssi |-> -116, snr |-> 5],
     [dev |-> d1, tenant |-> t1, count |-> 10, rssi |-> -115, snr |-> 0],
     [dev |-> d1, tenant |-> t2, count |-> 12, rssi |-> -100, snr |-> -20]}

ASSUME NoneIsNoAccount == Members!NoneIsNoAccount
ASSUME GadgetsAssumption == IoT!DevicesAssumption
ASSUME NetworksAssumption == Apps!AppsAssumption
ASSUME TimesAssumption == Alarms!GapsAssumption

TrafficInit ==
    /\ PipelineInit /\ IoT!EndpointInit /\ Members!MembersInit /\ Apps!AppsInit
    /\ Alarms!DetectionInit
    /\ \/ part \in {"lorawan", "members", "apps", "anomalies"} /\ online
       \/ part \in {"lwm2m", "mqtt"}

lorawanPart == <<vars, uplinks, consumerVars>>
trafficVars == <<part, lorawanPart, endpointPart, memberPart, appPart, anomalyPart>>

\* Only the devices of one protocol and their endpoints are there.
OneProtocol ==
    /\ \A r \in IoT!Row : endpoint'[r] # None => endpoint'[r].protocol = part
    /\ \A d \in Gadget : d.protocol # part => work'[d] = work[d]

TrafficNext ==
    /\ UNCHANGED part
    /\ \/ part = "lorawan" /\ PipelineNext
       \/ part # "lorawan" /\ UNCHANGED lorawanPart
    /\ \/ part \in {"lwm2m", "mqtt"} /\ IoT!EndpointNext /\ OneProtocol
       \/ part \notin {"lwm2m", "mqtt"} /\ UNCHANGED endpointPart
    /\ \/ part = "members" /\ Members!MembersNext
       \/ part # "members" /\ UNCHANGED memberPart
    /\ \/ part = "apps" /\ Apps!AppsNext
       \/ part # "apps" /\ UNCHANGED appPart
    /\ \/ part = "anomalies" /\ Alarms!DetectionNext
       \/ part # "anomalies" /\ UNCHANGED anomalyPart

TrafficSpec == TrafficInit /\ [][TrafficNext]_trafficVars

\* Whoever calls a tenant's application does so for a frame that is stored
\* under that tenant, and sees the frames of a device in the order in which
\* they were sent, each at most once.
CallsFollowFrames == CallsRestOnFrames /\ EndToEndOrder

\* What another device sends is filed under the endpoint that is meant, and
\* only what is filed is told; the directory and the table of members agree
\* about who belongs to a tenant; an application is filed under a tenant of its
\* own network, where the onboarding assistant makes one; and an anomaly is told
\* by the next run, and once in six hours while nobody resolves it.
RecordsInPlace ==
    /\ IoT!TelemetryInPlace
    /\ Members!MembersMatchAccounts
    /\ Apps!ApplicationsInPlace
    /\ Alarms!AnomaliesTold
=============================================================================
