---------------------------- MODULE MeterReadings ----------------------------
(***************************************************************************)
(* The reading side of shengda-water: an uplink of a water meter updates   *)
(* the meter row, is stored as a reading, and may open leak events, each   *)
(* in a database transaction of its own; an operator closes leak events,   *)
(* and a synchronisation imports the newest archived payload of every      *)
(* device of a tenant.                                                     *)
(*                                                                         *)
(* The worker is one asyncio loop whose handlers never await between two   *)
(* transactions: they do not interleave, but a failing query or a crash    *)
(* ends them anywhere and nobody resumes them.                             *)
(***************************************************************************)
EXTENDS Integers, Sequences, FiniteSets

CONSTANTS
    Device,     \* DevEUIs of meters
    Tenant,     \* platform tenants
    None,       \* NULL
    Payload,    \* what decode_payload can return, of the frames that are sent
    Gap,        \* hours that may pass between two uplinks
    SettingsOf, \* tenant -> its row of water_leak_settings, or None
    Default,    \* the defaults of LeakSettings
    MaxFrames,  \* bound on uplinks
    MaxSyncs,   \* bound on synchronisations
    MaxFaults   \* bound on faults

Alarm == {"device_flow_alarm", "device_inlet_alarm", "device_return_alarm", "flow_overload"}
Computed == {"flow_with_valve_closed", "high_continuous_flow", "night_flow"}

\* Indexes are in litres, thresholds in ten-thousandths of a cubic metre per
\* hour, the shortest interval in hours.
Settings == [enabled : BOOLEAN, flow : Nat, night : Nat, start : 0..23, end : 0..23, least : Nat]

MaxInterval == 48

ASSUME PayloadAssumption ==
    Payload \subseteq [index : Nat \cup {None}, valve : BOOLEAN \cup {None},
                       battery : BOOLEAN, alarms : SUBSET Alarm]
ASSUME SettingsAssumption ==
    SettingsOf \in [Tenant -> Settings \cup {None}] /\ Default \in Settings
ASSUME GapAssumption == Gap \subseteq Nat \ {0}
ASSUME BoundAssumption == MaxFrames \in Nat /\ MaxSyncs \in Nat /\ MaxFaults \in Nat
ASSUME NoneAssumption == None \notin Nat /\ None \notin BOOLEAN /\ None \notin Tenant

VARIABLES
    frames,     \* what mqtt-ingestion handled, in order; archived: in payload_archives
    queue,      \* frames published and not yet taken by the worker
    up,         \* is the worker running?
    job,        \* the handler that runs
    meters,     \* shengda_meters: device -> row or None
    readings,   \* shengda_readings: the frame, its origin and the computed flow
    leaks,      \* water_leak_events, in order of insertion
    syncs, faults \* numbers of synchronisations and of faults so far

vars == <<frames, queue, up, job, meters, readings, leaks, syncs, faults>>

Frame == [dev : Device, tenant : Tenant, time : Nat, data : Payload, archived : BOOLEAN]
Meter == [tenant : Tenant, index : Nat \cup {None}, valve : BOOLEAN \cup {None}]
ASSUME NoneIsNoMeter == None \notin Meter
\* The quotient of two differences and what it is rounded to.
Flow == [delta : Nat, hours : 1..MaxInterval, rate : Nat]
Reading == [frame : Nat \ {0}, origin : {"uplink", "archive"}, flow : Flow \cup {None}]
Leak == [frame : Nat \ {0}, type : Alarm \cup Computed, flow : Flow \cup {None},
         status : {"active", "resolved", "false_positive"}]

Idle == [step |-> "idle"]
Job ==
    {Idle}
    \cup [step : {"meter", "reading"}, frame : Nat \ {0}]
    \cup [step : {"leaks"}, frame : Nat \ {0}, flow : Flow \cup {None},
          todo : SUBSET (Alarm \cup Computed)]
    \cup [step : {"sync_meter", "sync_reading"}, todo : SUBSET (Nat \ {0}), frame : Nat]

TypeOK ==
    /\ frames \in Seq(Frame)
    /\ queue \in Seq(Nat \ {0})
    /\ up \in BOOLEAN
    /\ job \in Job
    /\ meters \in [Device -> Meter \cup {None}]
    /\ readings \in Seq(Reading)
    /\ leaks \in Seq(Leak)
    /\ syncs \in Nat /\ faults \in Nat

Init ==
    /\ frames = <<>> /\ queue = <<>>
    /\ up = TRUE
    /\ job = Idle
    /\ meters = [d \in Device |-> None]
    /\ readings = <<>> /\ leaks = <<>>
    /\ syncs = 0 /\ faults = 0

Fault == faults < MaxFaults /\ faults' = faults + 1
Either(good, bad) == (good /\ UNCHANGED faults) \/ (bad /\ Fault)

-----------------------------------------------------------------------------
(* leak_detector *)

OrDefault(v, default) == IF v = 0 THEN default ELSE v

\* LeakSettings.from_row: in Python a stored 0 is false, and falls back to
\* the default like NULL.
FromRow(row) ==
    IF row = None THEN Default
    ELSE [enabled |-> row.enabled,
          flow    |-> OrDefault(row.flow, Default.flow),
          night   |-> OrDefault(row.night, Default.night),
          start   |-> OrDefault(row.start, Default.start),
          end     |-> OrDefault(row.end, Default.end),
          least   |-> OrDefault(row.least, Default.least)]

IsNightHour(hour, start, end) ==
    IF start <= end THEN start <= hour /\ hour < end ELSE hour >= start \/ hour < end

\* Cubic metres per hour, to four decimals: few litres in many hours are a flow
\* of 0.  A tie, which the binary fraction decides in Python, goes up.
Rounded(litres, hours) == (20 * litres + hours) \div (2 * hours)

ComputeFlow(index, time, prevIndex, prevTime, least) ==
    IF /\ time > prevTime
       /\ time - prevTime >= least /\ time - prevTime <= MaxInterval
       /\ index >= prevIndex
    THEN [delta |-> index - prevIndex, hours |-> time - prevTime,
          rate  |-> Rounded(index - prevIndex, time - prevTime)]
    ELSE None

\* detect_leaks, the flow: previous is a frame, or None.
DetectFlow(f, previous, s) ==
    IF s.enabled /\ f.data.index # None /\ previous # None
    THEN ComputeFlow(f.data.index, f.time, previous.data.index, previous.time, s.least)
    ELSE None

\* Mutant: only a valve known to be open counts as not closed.
DetectLeaksOpenOnly(f, flow, s) ==
    IF ~s.enabled THEN {}
    ELSE f.data.alarms
         \cup IF flow = None \/ flow.rate = 0 THEN {} ELSE
              {t \in {"high_continuous_flow"} : f.data.valve = TRUE /\ flow.rate >= s.flow}

\* detect_leaks, the candidates.
DetectLeaks(f, flow, s) ==
    IF ~s.enabled THEN {}
    ELSE f.data.alarms
         \cup IF flow = None \/ flow.rate = 0 THEN {} ELSE
              {t \in {IF f.data.valve = FALSE THEN "flow_with_valve_closed"
                                              ELSE "high_continuous_flow"} :
                   flow.rate >= s.flow}
              \cup {t \in {"night_flow"} : /\ IsNightHour(f.time % 24, s.start, s.end)
                                           /\ flow.rate >= s.night}

-----------------------------------------------------------------------------
(* The store *)

Coalesce(new, old) == IF new # None THEN new ELSE old

\* Mutant: a field the frame does not carry is cleared.
UpsertMeterPlain(f) ==
    meters' = [meters EXCEPT ![f.dev] =
                   [tenant |-> f.tenant, index |-> f.data.index, valve |-> f.data.valve]]

\* upsert_meter_from_reading
UpsertMeter(f) ==
    LET old == IF meters[f.dev] = None THEN [index |-> None, valve |-> None] ELSE meters[f.dev]
    IN  meters' = [meters EXCEPT ![f.dev] =
                       [tenant |-> f.tenant,
                        index |-> Coalesce(f.data.index, old.index),
                        valve |-> Coalesce(f.data.valve, old.valve)]]

InsertReading(n, origin, flow) ==
    readings' = Append(readings, [frame |-> n, origin |-> origin, flow |-> flow])

\* Mutant: the readings of every tenant of the device are candidates.
PreviousOfAnyTenant(f) ==
    {g \in {frames[readings[i].frame] : i \in DOMAIN readings} :
        g.dev = f.dev /\ g.data.index # None /\ g.time < f.time}

\* get_previous_reading_with_index, before ORDER BY time DESC LIMIT 1.
Previous(f) ==
    {g \in {frames[readings[i].frame] : i \in DOMAIN readings} :
        g.dev = f.dev /\ g.tenant = f.tenant /\ g.data.index # None /\ g.time < f.time}

\* The row that ORDER BY time DESC LIMIT 1 may return, or None.
Latest(gs) == IF gs = {} THEN {None} ELSE {g \in gs : \A h \in gs : h.time <= g.time}

SameCase(a, b) == frames[a].tenant = frames[b].tenant /\ frames[a].dev = frames[b].dev

\* Mutant: an event is updated whether or not it has been resolved.
UpsertLeakReopening(n, type, flow) ==
    LET known == {i \in DOMAIN leaks : SameCase(leaks[i].frame, n) /\ leaks[i].type = type}
        new == [frame |-> n, type |-> type, flow |-> flow, status |-> "active"]
    IN  leaks' = IF known = {} THEN Append(leaks, new)
                 ELSE [i \in DOMAIN leaks |-> IF i \in known THEN new ELSE leaks[i]]

\* Mutant: there is no unique index to conflict with.
InsertLeakEvent(n, type, flow) ==
    leaks' = Append(leaks, [frame |-> n, type |-> type, flow |-> flow, status |-> "active"])

\* upsert_leak_event: INSERT ... ON CONFLICT with the active event.
UpsertLeakEvent(n, type, flow) ==
    LET active == {i \in DOMAIN leaks : /\ SameCase(leaks[i].frame, n)
                                        /\ leaks[i].type = type /\ leaks[i].status = "active"}
        new == [frame |-> n, type |-> type, flow |-> flow, status |-> "active"]
    IN  leaks' = IF active = {} THEN Append(leaks, new)
                 ELSE [i \in DOMAIN leaks |-> IF i \in active THEN new ELSE leaks[i]]

-----------------------------------------------------------------------------
(* mqtt-ingestion, as far as this worker sees it *)

\* A frame is archived, then published; the network server's time grows.
\* Archiving may fail without keeping the event back; an event published
\* while the worker, or the connection to NATS, is away is lost.
Uplink(d) ==
    /\ Len(frames) < MaxFrames
    /\ \E t \in Tenant, p \in Payload, gap \in Gap, archived \in BOOLEAN, heard \in BOOLEAN :
          /\ frames' = Append(frames,
                [dev |-> d, tenant |-> t, data |-> p, archived |-> archived,
                 time |-> gap + IF frames = <<>> THEN 0 ELSE frames[Len(frames)].time])
          /\ queue' = IF up /\ heard THEN Append(queue, Len(frames')) ELSE queue
          /\ IF archived /\ heard THEN UNCHANGED faults ELSE Fault
    /\ UNCHANGED <<up, job, meters, readings, leaks, syncs>>

-----------------------------------------------------------------------------
(* The worker *)

Mentions(p) == p.index # None \/ p.valve # None \/ p.battery

\* handle_uplink_event begins; a frame without index, status word and battery
\* is none of a meter's.
Take ==
    /\ up /\ job = Idle /\ queue # <<>>
    /\ queue' = Tail(queue)
    /\ job' = IF Mentions(frames[Head(queue)].data)
              THEN [step |-> "meter", frame |-> Head(queue)] ELSE Idle
    /\ UNCHANGED <<frames, up, meters, readings, leaks, syncs, faults>>

WriteMeter ==
    /\ job.step = "meter"
    /\ UpsertMeter(frames[job.frame])
    /\ job' = [job EXCEPT !.step = "reading"]
    /\ UNCHANGED <<frames, queue, up, readings, leaks, syncs, faults>>

\* The settings and the previous reading are looked up, leaks are looked for
\* and the reading is stored.
WriteReading ==
    /\ job.step = "reading"
    /\ \E previous \in Latest(Previous(frames[job.frame])) :
          LET f == frames[job.frame]
              s == FromRow(SettingsOf[f.tenant])
              flow == DetectFlow(f, previous, s)
          IN  /\ InsertReading(job.frame, "uplink", flow)
              /\ job' = [step |-> "leaks", frame |-> job.frame, flow |-> flow,
                         todo |-> DetectLeaks(f, flow, s)]
    /\ UNCHANGED <<frames, queue, up, meters, leaks, syncs, faults>>

\* One candidate per transaction, in the order of the list: which one comes
\* first makes no difference to the events.
WriteLeak ==
    /\ job.step = "leaks"
    /\ IF job.todo = {} THEN job' = Idle /\ UNCHANGED leaks
       ELSE \E type \in job.todo :
               /\ UpsertLeakEvent(job.frame, type, job.flow)
               /\ job' = [job EXCEPT !.todo = @ \ {type}]
    /\ UNCHANGED <<frames, queue, up, meters, readings, syncs, faults>>

\* The rows sync_meters_from_archives selects: the newest archive per device.
Archives(t) ==
    {n \in DOMAIN frames : frames[n].tenant = t /\ frames[n].archived}
NewestArchives(t) ==
    {n \in Archives(t) : \A m \in Archives(t) : frames[m].dev = frames[n].dev => m <= n}

\* list_meters on an empty list, or POST /meters/sync.
StartSync(t) ==
    /\ up /\ job = Idle /\ syncs < MaxSyncs
    /\ syncs' = syncs + 1
    /\ job' = [step |-> "sync_meter", frame |-> 0,
               todo |-> {n \in NewestArchives(t) : Mentions(frames[n].data)}]
    /\ UNCHANGED <<frames, queue, up, meters, readings, leaks, faults>>

SyncMeter ==
    /\ job.step = "sync_meter"
    /\ IF job.todo = {} THEN job' = Idle /\ UNCHANGED meters
       ELSE \E n \in job.todo :
               /\ UpsertMeter(frames[n])
               /\ job' = [step |-> "sync_reading", frame |-> n, todo |-> job.todo \ {n}]
    /\ UNCHANGED <<frames, queue, up, readings, leaks, syncs, faults>>

SyncReading ==
    /\ job.step = "sync_reading"
    /\ InsertReading(job.frame, "archive", None)
    /\ job' = [step |-> "sync_meter", frame |-> 0, todo |-> job.todo]
    /\ UNCHANGED <<frames, queue, up, meters, leaks, syncs, faults>>

\* PATCH /leaks/{event_id}; only an active event is found.
ResolveLeakEvent(i, status) ==
    /\ up /\ job = Idle
    /\ leaks[i].status = "active"
    /\ leaks' = [leaks EXCEPT ![i].status = status]
    /\ UNCHANGED <<frames, queue, up, job, meters, readings, syncs, faults>>

\* A query fails: the exception ends the handler, and is logged or a 500.
Fail ==
    /\ job # Idle
    /\ job' = Idle
    /\ Fault
    /\ UNCHANGED <<frames, queue, up, meters, readings, leaks, syncs>>

Crash ==
    /\ up
    /\ up' = FALSE /\ job' = Idle /\ queue' = <<>>
    /\ Fault
    /\ UNCHANGED <<frames, meters, readings, leaks, syncs>>

Restart ==
    /\ ~up
    /\ up' = TRUE
    /\ UNCHANGED <<frames, queue, job, meters, readings, leaks, syncs, faults>>

HandlerStep == Take \/ WriteMeter \/ WriteReading \/ WriteLeak \/ SyncMeter \/ SyncReading

Next ==
    \/ \E d \in Device : Uplink(d)
    \/ HandlerStep
    \/ \E t \in Tenant : StartSync(t)
    \/ \E i \in DOMAIN leaks, s \in {"resolved", "false_positive"} : ResolveLeakEvent(i, s)
    \/ Fail \/ Crash \/ Restart

Spec == Init /\ [][Next]_vars

-----------------------------------------------------------------------------
(* Properties *)

FrameOf(r) == frames[r.frame]

\* The worker stores the reading before it opens the leak events found in it:
\* whatever fails or crashes in between, an event rests on a stored reading of
\* the same frame, with the same flow.
LeakRestsOnReading ==
    \A i \in DOMAIN leaks : \E j \in DOMAIN readings :
        /\ readings[j].frame = leaks[i].frame
        /\ readings[j].origin = "uplink" /\ readings[j].flow = leaks[i].flow

\* At most half a ten-thousandth from the quotient.
Near(flow) == 20 * flow.delta - 2 * flow.hours * flow.rate \in (-flow.hours)..flow.hours

\* A flow is measured between two stored readings of one meter and one tenant,
\* far enough apart and not more than two days, never across a meter that was
\* handed to another tenant or replaced by one with a lower index, and rounded
\* to what is nearest.
FlowIsMeasured ==
    \A j \in DOMAIN readings :
        LET r == readings[j] IN r.flow # None =>
            /\ r.flow.hours >= FromRow(SettingsOf[FrameOf(r).tenant]).least
            /\ \E i \in 1..(j - 1) :
                  /\ SameCase(readings[i].frame, r.frame)
                  /\ FrameOf(readings[i]).data.index # None
                  /\ FrameOf(r).data.index = FrameOf(readings[i]).data.index + r.flow.delta
                  /\ FrameOf(r).time = FrameOf(readings[i]).time + r.flow.hours
                  /\ r.flow.delta >= 0 /\ r.flow.hours \in 1..MaxInterval
            /\ Near(r.flow)

\* The operator has one active event per device, tenant and type to close.
OneActiveEvent ==
    \A i, j \in DOMAIN leaks :
        /\ SameCase(leaks[i].frame, leaks[j].frame) /\ leaks[i].type = leaks[j].type
        /\ leaks[i].status = "active" /\ leaks[j].status = "active"
        => i = j

\* The last value that the frames of a device carry for one field.
LastValue(d, field) ==
    LET carrying == {n \in DOMAIN frames : frames[n].dev = d /\ frames[n].data[field] # None}
    IN  IF carrying = {} THEN None
        ELSE frames[CHOOSE n \in carrying : \A m \in carrying : m <= n].data[field]

\* However a synchronisation and the events on their way interleave, once all
\* is handled and nothing was lost, a meter shows its newest values.  Meters
\* that changed hands are left out: a synchronisation for the former tenant
\* writes its last frame over them.
MeterShowsNewest ==
    faults = 0 /\ queue = <<>> /\ job = Idle =>
        \A d \in Device :
            (\A m, n \in DOMAIN frames :
                frames[m].dev = d /\ frames[n].dev = d => frames[m].tenant = frames[n].tenant)
            /\ meters[d] # None
            => /\ meters[d].index = LastValue(d, "index")
               /\ meters[d].valve = LastValue(d, "valve")

\* An operator's verdict is final: a resolved event is never changed, whatever
\* is detected later; and nothing but handle_uplink_event opens an event, in
\* particular no import of old frames.
VerdictIsFinal ==
    [][/\ \A i \in DOMAIN leaks : leaks[i].status # "active" => leaks'[i] = leaks[i]
       /\ job.step # "leaks" => Len(leaks') = Len(leaks)]_vars

\* What the tenant's thresholds call a leak in a reading, written from the
\* descriptions of the leak types.
Reported(n) ==
    LET f == frames[n]
        s == FromRow(SettingsOf[f.tenant])
        flow(t) == \E j \in DOMAIN readings :
                      /\ readings[j].frame = n /\ readings[j].origin = "uplink"
                      /\ readings[j].flow # None /\ readings[j].flow.rate > 0
                      /\ readings[j].flow.rate >= t
    IN  {t \in Alarm : s.enabled /\ t \in f.data.alarms}
        \cup {t \in Computed :
                CASE t = "flow_with_valve_closed" -> f.data.valve = FALSE /\ flow(s.flow)
                  [] t = "high_continuous_flow" -> f.data.valve # FALSE /\ flow(s.flow)
                  [] t = "night_flow" -> flow(s.night) /\ IsNightHour(f.time % 24, s.start, s.end)}

\* Every leak that a stored reading shows is on file once its handler is
\* through, as an event of this frame or of a later one that updated it; only
\* a failing query or a crash between the two transactions loses it.
LeakIsFiled ==
    faults = 0 /\ job.step # "leaks" =>
        \A j \in DOMAIN readings : readings[j].origin = "uplink" =>
            \A t \in Reported(readings[j].frame) :
                \E i \in DOMAIN leaks : /\ SameCase(leaks[i].frame, readings[j].frame)
                                        /\ leaks[i].type = t
                                        /\ leaks[i].frame >= readings[j].frame

\* What the page of the meters says rests on what the meters sent: flows are
\* measured between readings of one meter and tenant, the meter's row shows the
\* newest values, and every leak a reading shows is on file.
MeterIsTrue == FlowIsMeasured /\ MeterShowsNewest /\ LeakIsFiled

=============================================================================
