-------------------------- MODULE AnomalyDetection --------------------------
(***************************************************************************)
(* anomaly-worker and the anomalies that platform-api lists and resolves:  *)
(* every few minutes four detections run one after another over the stored *)
(* frames, each suppressed by what it told in the last six hours.  The     *)
(* clock counts hours, a run takes less than one; frames come in bursts.   *)
(***************************************************************************)
EXTENDS Integers, FiniteSetsExt

CONSTANTS Device, Tenant,
          Burst,         \* bursts of frames: dev, tenant, count, rssi, snr
          Gap,           \* hours that may pass at once
          MaxBursts, MaxTime, MaxDetectionFaults

VARIABLES
    frames,     \* uplink_frames: bursts with their hour
    anomalies,  \* anomaly_events that are not resolved (nothing reads the
                \* others): tenant, type, of (a device or a tenant), at
    detecting,  \* the detection that is next in a run, or "none"
    spiking,    \* tenants whose spike the run has still to insert
    hour, detectionFaults,
    quiet       \* history: has nothing happened since a run began that has ended
                \* well ("yes") or is under way ("so_far")?

\* The clock does not go back.
GapsAssumption == Gap \subseteq Nat

detectionVars == <<frames, anomalies, detecting, spiking, hour, detectionFaults, quiet>>

DetectionInit ==
    /\ frames = {} /\ anomalies = {} /\ detecting = "none" /\ spiking = {}
    /\ hour = 0 /\ detectionFaults = 0 /\ quiet = "no"

Event(type, tenant, of) == [type |-> type, tenant |-> tenant, of |-> of, at |-> hour]

\* Open and told within six hours: of a device, whatever its tenant.
ToldOfAnyType(type, of) == \E a \in anomalies : a.of = of /\ a.at >= hour - 6
Told(type, of) == \E a \in anomalies : a.type = type /\ a.of = of /\ a.at >= hour - 6

FramesOf(t, d) == {f \in frames : f.dev = d /\ f.tenant = t}
CountOf(some) == MapThenSumSet(LAMBDA f : f.count, some)
Total(some, field) == MapThenSumSet(LAMBDA f : f.count * f[field], some)

\* Heard in the last week and by nobody in the last day.
Silent(t, d) ==
    /\ \E f \in FramesOf(t, d) : f.time >= hour - 168 /\ f.time < hour - 24
    /\ ~\E f \in frames : f.dev = d /\ f.time >= hour - 24

\* At least three frames in the last hour, and their average below the threshold.
Below(t, d, field, threshold) ==
    LET some == {f \in FramesOf(t, d) : f.time >= hour - 1}
    IN  CountOf(some) >= 3 /\ Total(some, field) < threshold * CountOf(some)

\* Ten frames or more this hour, more than three times the average of the earlier
\* hours of the last day that had any.
Spike(t) ==
    LET lately == {f \in frames : f.tenant = t /\ f.time >= hour - 25}
        now == {f \in lately : f.time = hour}
        before == lately \ now
        hours == {f.time : f \in before}
    IN  /\ before # {} /\ CountOf(now) >= 10
        /\ CountOf(now) * Cardinality(hours) > 3 * CountOf(before)

Suspect(type, t, d) ==
    CASE type = "silent_device" -> Silent(t, d)
      [] type = "weak_signal" -> Below(t, d, "rssi", -115)
      [] type = "low_snr" -> Below(t, d, "snr", -10)

NextDetection ==
    [silent_device |-> "weak_signal", weak_signal |-> "traffic_spike", low_snr |-> "none"]

\* One INSERT ... SELECT for all devices.
DetectDevices ==
    /\ detecting \in {"silent_device", "weak_signal", "low_snr"}
    /\ anomalies' = anomalies \cup
          {Event(detecting, p[1], p[2]) : p \in {q \in Tenant \X Device :
              Suspect(detecting, q[1], q[2]) /\ ~Told(detecting, q[2])}}
    /\ detecting' = NextDetection[detecting]
    /\ quiet' = IF detecting = "low_snr" /\ quiet = "so_far" THEN "yes" ELSE quiet
    /\ UNCHANGED <<frames, spiking, hour, detectionFaults>>

\* One SELECT, then an INSERT for each tenant that had a spike.
DetectSpikes ==
    /\ detecting = "traffic_spike" /\ detecting' = "inserts"
    /\ spiking' = {t \in Tenant : Spike(t)}
    /\ UNCHANGED <<frames, anomalies, hour, detectionFaults, quiet>>

InsertSpike(t) ==
    /\ detecting = "inserts" /\ t \in spiking /\ spiking' = spiking \ {t}
    /\ anomalies' = IF Told("traffic_spike", t) THEN anomalies
                    ELSE anomalies \cup {Event("traffic_spike", t, t)}
    /\ UNCHANGED <<frames, detecting, hour, detectionFaults, quiet>>

SpikesInserted ==
    /\ detecting = "inserts" /\ spiking = {} /\ detecting' = "low_snr"
    /\ UNCHANGED <<frames, anomalies, spiking, hour, detectionFaults, quiet>>

\* The ticker, or a start of the service.
Run ==
    /\ detecting = "none" /\ detecting' = "silent_device" /\ quiet' = "so_far"
    /\ UNCHANGED <<frames, anomalies, spiking, hour, detectionFaults>>

\* A failing statement, or the end of the process, ends the run.
RunFails ==
    /\ detecting # "none" /\ detectionFaults < MaxDetectionFaults
    /\ detectionFaults' = detectionFaults + 1 /\ detecting' = "none" /\ spiking' = {}
    /\ quiet' = "no" /\ UNCHANGED <<frames, anomalies, hour>>

\* An operator, of the anomaly's tenant or of the platform.
Resolve(a) ==
    /\ anomalies' = anomalies \ {a}
    /\ quiet' = "no" /\ UNCHANGED <<frames, detecting, spiking, hour, detectionFaults>>

Receive(b) ==
    /\ Cardinality(frames) < MaxBursts
    /\ frames' = frames \cup {[dev |-> b.dev, tenant |-> b.tenant, count |-> b.count,
                               rssi |-> b.rssi, snr |-> b.snr, time |-> hour]}
    /\ quiet' = "no" /\ UNCHANGED <<anomalies, detecting, spiking, hour, detectionFaults>>

HoursPass(gap) ==
    /\ detecting = "none" /\ hour + gap <= MaxTime /\ hour' = hour + gap /\ quiet' = "no"
    /\ UNCHANGED <<frames, anomalies, detecting, spiking, detectionFaults>>

DetectionNext ==
    \/ Run \/ DetectDevices \/ DetectSpikes \/ SpikesInserted \/ RunFails
    \/ \E t \in Tenant : InsertSpike(t)
    \/ \E a \in anomalies : Resolve(a)
    \/ \E b \in Burst : Receive(b)
    \/ \E gap \in Gap : HoursPass(gap)

-----------------------------------------------------------------------------
(* Property *)

\* Who heard of a device's or a tenant's trouble and has not resolved it is not
\* told again within six hours, but for the tenants of one device, who are told
\* at once; and when a run has ended well and nothing happened since, whatever
\* is wrong is told, to the tenant itself unless the device sent for two.
AnomaliesTold ==
    /\ \A a, b \in anomalies :
          a # b /\ a.type = b.type /\ a.of = b.of =>
              \/ a.at = b.at /\ a.tenant # b.tenant
              \/ a.at > b.at + 6 \/ b.at > a.at + 6
    /\ quiet = "yes" =>
          /\ \A type \in {"silent_device", "weak_signal", "low_snr"}, t \in Tenant, d \in Device :
                Suspect(type, t, d) =>
                    \E a \in anomalies : /\ a.type = type /\ a.of = d /\ hour - a.at <= 6
                                         /\ a.tenant = t \/ FramesOf(a.tenant, d) # {}
          /\ \A t \in Tenant : Spike(t) => Told("traffic_spike", t)
=============================================================================
