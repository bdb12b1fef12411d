----------------------------- MODULE MeterTwin ------------------------------
(***************************************************************************)
(* The digital twin of the water meter shown (WaterMeterDigitalTwin) and   *)
(* the forms that set a meter's interval and hour of report: buttons send  *)
(* commands or, in simulation, change the picture only; the picture and    *)
(* the state of health come from the meter, its readings and its leaks.    *)
(***************************************************************************)
EXTENDS Integers, Sequences

CONSTANTS
    Meter, None,
    DataOf,     \* meter -> [valve, attack, batteryLow, leaks, device, gateway, readings]
    Entry,      \* what may be typed as an interval: [value |-> hundredths, unit]
    MaxClicks

VARIABLES
    twinOf,     \* the meter shown
    mode, simBusy,
    simValve,   \* the simulated valve: None or [of, open]
    liveBusy,   \* a command is on its way
    interval,
    strayed,    \* a simulation ended after the meter had changed
    sent,       \* the last command sent: None or [command, seconds, mode]
    clicks

twinVars == <<twinOf, mode, simBusy, simValve, liveBusy, interval, strayed, sent, clicks>>

Data == DataOf[twinOf]

\* computeFlowM3h, in tenths of a litre per hour: from the two newest readings
\* that have an index, in order and at most 48 h apart.
Flow(readings) ==
    LET known == SelectSeq(readings, LAMBDA r: r.index # None)
        minutes == known[1].time - known[2].time
        litres == known[1].index - known[2].index
    IN  IF Len(known) < 2 \/ minutes <= 0 \/ minutes > 48 * 60 \/ litres < 0 THEN None
        ELSE (1200 * litres + minutes) \div (2 * minutes)

\* The network is passed in live mode only.
HealthStatus(valve, live) ==
    LET flow == Flow(Data.readings)
    IN  IF "critical" \in Data.leaks THEN "alert"
        ELSE IF Data.attack THEN "attack"
        ELSE IF valve = "closed" /\ flow # None /\ flow > 200 THEN "leak"
        ELSE IF live /\ Data.device = "offline" THEN "offline"
        ELSE IF live /\ Data.gateway = "OFFLINE" THEN "gateway"
        ELSE IF Data.leaks # {} \/ Data.batteryLow THEN "attention" ELSE "nominal"

Valve == IF mode = "simulation" /\ simValve # None THEN simValve.open ELSE Data.valve

\* What the picture of the network shows.
NetworkTopology ==
    [valve |-> Valve,
     flowing |-> /\ Valve # "closed"
                 /\ LET flow == Flow(Data.readings) IN flow # None /\ flow > 10,
     link |-> mode = "simulation" \/ (Data.device # "offline" /\ Data.gateway # "OFFLINE")]

TwinInit ==
    /\ twinOf \in Meter /\ mode = "simulation" /\ simBusy = None /\ simValve = None
    /\ liveBusy = FALSE /\ interval = [value |-> 400, unit |-> "h"]
    /\ strayed = FALSE /\ sent = None /\ clicks = 0

Click == clicks < MaxClicks /\ clicks' = clicks + 1

\* Mutant: what was simulated stays.
ShowMeterStill(m) ==
    /\ Click /\ m # twinOf /\ twinOf' = m
    /\ UNCHANGED <<mode, simBusy, simValve, liveBusy, interval, strayed, sent>>

\* Another meter is shown: what was simulated is forgotten.
ShowMeter(m) ==
    /\ Click /\ m # twinOf /\ twinOf' = m /\ simValve' = None
    /\ UNCHANGED <<mode, simBusy, liveBusy, interval, strayed, sent>>

SetMode(m) ==
    /\ Click /\ m # mode /\ mode' = m
    /\ UNCHANGED <<twinOf, simBusy, simValve, liveBusy, interval, strayed, sent>>

\* sendCommand of the page.
Send(command, seconds) ==
    /\ ~liveBusy /\ liveBusy' = TRUE
    /\ sent' = [command |-> command, seconds |-> seconds, mode |-> mode]
    /\ UNCHANGED <<twinOf, mode, simBusy, simValve, interval, strayed>>

CommandAnswered ==
    /\ liveBusy /\ liveBusy' = FALSE
    /\ UNCHANGED <<twinOf, mode, simBusy, simValve, interval, strayed, sent, clicks>>

\* cmd: a simulation takes 400 ms, whatever happens to the page meanwhile.
Cmd(open) ==
    /\ Click
    /\ \/ mode = "live" /\ Send(open, None)
       \/ /\ mode = "simulation" /\ simBusy = None
          /\ simBusy' = [of |-> twinOf, open |-> open]
          /\ UNCHANGED <<twinOf, mode, simValve, liveBusy, interval, strayed, sent>>

SimulationEnds ==
    /\ simBusy # None /\ simBusy' = None /\ simValve' = simBusy
    /\ strayed' = (strayed \/ simBusy.of # twinOf)
    /\ UNCHANGED <<twinOf, mode, liveBusy, interval, sent, clicks>>

ResetSimulation ==
    /\ Click /\ mode = "simulation" /\ simValve # None /\ simValve' = None
    /\ UNCHANGED <<twinOf, mode, simBusy, liveBusy, interval, strayed, sent>>

\* intervalToSeconds
InSeconds(entry) ==
    LET factor == CASE entry.unit = "h" -> 3600 [] entry.unit = "min" -> 60 [] OTHER -> 1
    IN  (entry.value * factor + 50) \div 100

IntervalMin == 600
IntervalMax == 86400
Presets == {600, 1800, 3600, 14400, 21600, 86400}

\* The entry a preset fills in, and the one its label names.
ApplyPreset(seconds) ==
    IF seconds % 3600 = 0 THEN [value |-> 100 * (seconds \div 3600), unit |-> "h"]
    ELSE [value |-> 100 * (seconds \div 60), unit |-> "min"]

EnterInterval(entry) ==
    /\ Click /\ interval' = entry
    /\ UNCHANGED <<twinOf, mode, simBusy, simValve, liveBusy, strayed, sent>>

SubmitInterval ==
    /\ Click /\ interval.value > 0 /\ InSeconds(interval) \in IntervalMin..IntervalMax
    /\ Send("interval", InSeconds(interval))

TwinNext ==
    \/ \E m \in Meter : ShowMeter(m)
    \/ \E m \in {"simulation", "live"} : SetMode(m)
    \/ \E open \in {"open", "closed"} : Cmd(open)
    \/ CommandAnswered \/ SimulationEnds \/ ResetSimulation
    \/ \E entry \in Entry : EnterInterval(entry)
    \/ \E seconds \in Presets : EnterInterval(ApplyPreset(seconds))
    \/ SubmitInterval

-----------------------------------------------------------------------------
(* Property *)

\* An interval sent is of 10 min to 24 h, and the valve moves in live mode only.
SentAsMeant ==
    sent # None =>
        /\ sent.command = "interval" => 600 <= sent.seconds /\ sent.seconds <= 86400
        /\ sent.command # "interval" => sent.mode = "live"

\* What is simulated stays with its meter, unless the meter changed while the
\* simulation ran, and moves no valve; outside simulation the picture and the
\* health are the meter's own; an interval sent is of 10 min to 24 h, whatever
\* the unit and the rounding, and the presets are exact.
SimulationStaysApart ==
    /\ strayed \/ simValve = None \/ simValve.of = twinOf
    /\ mode = "live" =>
          /\ NetworkTopology.valve = Data.valve
          /\ HealthStatus(Valve, TRUE) = HealthStatus(Data.valve, TRUE)
    /\ SentAsMeant
    /\ \A seconds \in Presets : InSeconds(ApplyPreset(seconds)) = seconds
=============================================================================
