------------------------ MODULE MeterReadingsProofs ------------------------
(***************************************************************************)
(* Proofs about MeterReadings, for any devices, tenants, payloads, leak    *)
(* settings and bounds.                                                    *)
(***************************************************************************)
EXTENDS MeterReadings, TLAPS

\* Frames are only referred to after they were handled by mqtt-ingestion.
Scope ==
    /\ \A i \in DOMAIN queue : queue[i] \in DOMAIN frames
    /\ \A i \in DOMAIN readings : readings[i].frame \in DOMAIN frames
    /\ \A i \in DOMAIN leaks : leaks[i].frame \in DOMAIN frames
    /\ job.step \in {"meter", "reading", "leaks", "sync_reading"} => job.frame \in DOMAIN frames
    /\ job.step \in {"sync_meter", "sync_reading"} => job.todo \subseteq DOMAIN frames

\* The handler that files leaks has stored the reading they were found in.
JobRestsOnReading ==
    job.step = "leaks" => \E j \in DOMAIN readings :
        /\ readings[j].frame = job.frame
        /\ readings[j].origin = "uplink" /\ readings[j].flow = job.flow

IInv == TypeOK /\ Scope /\ JobRestsOnReading /\ LeakRestsOnReading

-----------------------------------------------------------------------------
(* Lemmas about the operators *)

\* Rounding gives a natural, half a ten-thousandth away at most.
LEMMA RoundedIsNear ==
    ASSUME NEW litres \in Nat, NEW hours \in Nat \ {0}
    PROVE  /\ Rounded(litres, hours) \in Nat
           /\ 20 * litres - 2 * hours * Rounded(litres, hours) \in (-hours)..hours
<1> DEFINE a == 20 * litres + hours
           b == 2 * hours
           r == a \div b
<1>1. a \in Nat /\ b \in Nat /\ b > 0
    BY SMT
<1> HIDE DEF a, b
<1>2. r \in Nat /\ b * r <= a /\ a < b * r + b
    BY <1>1, SMT
<1> HIDE DEF r
<1>3. 20 * litres - b * r \in (-hours)..hours
    BY <1>1, <1>2, SMT DEF a, b
<1> QED BY <1>2, <1>3 DEF Rounded, r, a, b

\* The flow that is stored is a quotient of naturals over 1 to 48 hours.
LEMMA FlowType ==
    ASSUME NEW f \in Frame, NEW previous \in Frame \cup {None}, NEW s,
           previous # None => previous.data.index # None
    PROVE  DetectFlow(f, previous, s) \in Flow \cup {None}
<1>1. CASE s.enabled /\ f.data.index # None /\ previous # None
    <2>1. /\ f.data.index \in Nat /\ f.time \in Nat
          /\ previous.data.index \in Nat /\ previous.time \in Nat
        BY <1>1, PayloadAssumption, SMT DEF Frame
    <2>2. ComputeFlow(f.data.index, f.time, previous.data.index, previous.time, s.least)
              \in Flow \cup {None}
        <3>1. CASE /\ f.time > previous.time
                   /\ f.time - previous.time >= s.least /\ f.time - previous.time <= MaxInterval
                   /\ f.data.index >= previous.data.index
            <4>0. /\ f.time > previous.time /\ f.time - previous.time <= MaxInterval
                  /\ f.data.index >= previous.data.index
                BY <3>1
            <4>1. /\ f.data.index - previous.data.index \in Nat
                  /\ f.time - previous.time \in 1..MaxInterval
                  /\ f.time - previous.time \in Nat \ {0}
                BY <2>1, <4>0, SMT DEF MaxInterval
            <4>2. Rounded(f.data.index - previous.data.index, f.time - previous.time) \in Nat
                BY <4>1, RoundedIsNear
            <4> QED BY <3>1, <4>1, <4>2, Zenon DEF ComputeFlow, Flow
        <3> QED BY <3>1, Zenon DEF ComputeFlow
    <2> QED BY <1>1, <2>2 DEF DetectFlow
<1>2. CASE ~(s.enabled /\ f.data.index # None /\ previous # None)
    BY <1>2 DEF DetectFlow
<1> QED BY <1>1, <1>2

\* Candidates are leak types.
LEMMA LeaksType ==
    ASSUME NEW f \in Frame, NEW flow, NEW s
    PROVE  DetectLeaks(f, flow, s) \in SUBSET (Alarm \cup Computed)
<1>1. f.data.alarms \subseteq Alarm
    BY PayloadAssumption, SMT DEF Frame
<1> QED BY <1>1, Zenon DEF DetectLeaks, Computed

\* The reading a flow is measured from is a frame with an index, if any.
LEMMA PreviousType ==
    ASSUME TypeOK, Scope, NEW f, NEW g \in Latest(Previous(f))
    PROVE  g \in Frame \cup {None} /\ (g # None => g.data.index # None)
<1>1. Previous(f) \subseteq {h \in Frame : h.data.index # None}
    BY SMT DEF Previous, TypeOK, Scope
<1> QED BY <1>1, Zenon DEF Latest

\* Writing a frame's meter row keeps the type of the table.
LEMMA UpsertMeterType ==
    ASSUME TypeOK, NEW f \in Frame, UpsertMeter(f)
    PROVE  meters' \in [Device -> Meter \cup {None}] /\ meters'[f.dev] \in Meter
<1> DEFINE old == IF meters[f.dev] = None THEN [index |-> None, valve |-> None] ELSE meters[f.dev]
           new == [tenant |-> f.tenant, index |-> Coalesce(f.data.index, old.index),
                   valve |-> Coalesce(f.data.valve, old.valve)]
<1>1. /\ f.dev \in Device /\ f.tenant \in Tenant
      /\ f.data.index \in Nat \cup {None} /\ f.data.valve \in BOOLEAN \cup {None}
    BY PayloadAssumption, SMT DEF Frame
<1>2. meters[f.dev] \in Meter \cup {None}
    BY <1>1 DEF TypeOK
<1>3. old.index \in Nat \cup {None} /\ old.valve \in BOOLEAN \cup {None}
    <2>1. CASE meters[f.dev] = None
        BY <2>1
    <2>2. CASE meters[f.dev] # None
        BY <2>2, <1>2 DEF Meter
    <2> QED BY <2>1, <2>2
<1>4. /\ Coalesce(f.data.index, old.index) \in Nat \cup {None}
      /\ Coalesce(f.data.valve, old.valve) \in BOOLEAN \cup {None}
    <2> HIDE DEF old
    <2> QED BY <1>1, <1>3, Zenon DEF Coalesce
<1>5. new \in Meter
    <2> HIDE DEF old
    <2> QED BY <1>1, <1>4 DEF Meter
<1>6. meters' = [meters EXCEPT ![f.dev] = new]
    BY DEF UpsertMeter
<1> HIDE DEF new
<1> QED BY <1>1, <1>5, <1>6 DEF TypeOK

\* Appending one reading keeps the type of the table and what it holds.
LEMMA InsertReadingType ==
    ASSUME TypeOK, NEW n \in Nat \ {0}, NEW origin \in {"uplink", "archive"},
           NEW flow \in Flow \cup {None}, InsertReading(n, origin, flow)
    PROVE  /\ readings' \in Seq(Reading)
           /\ DOMAIN readings' = DOMAIN readings \cup {Len(readings) + 1}
           /\ \A i \in DOMAIN readings : readings'[i] = readings[i]
           /\ readings'[Len(readings) + 1] = [frame |-> n, origin |-> origin, flow |-> flow]
<1> DEFINE r == [frame |-> n, origin |-> origin, flow |-> flow]
<1>1. r \in Reading
    BY DEF Reading
<1>2. readings' = Append(readings, r) /\ readings \in Seq(Reading)
    BY DEF InsertReading, TypeOK
<1> HIDE DEF r
<1>3. /\ readings' \in Seq(Reading)
      /\ DOMAIN readings' = DOMAIN readings \cup {Len(readings) + 1}
      /\ \A i \in DOMAIN readings : readings'[i] = readings[i]
      /\ readings'[Len(readings) + 1] = r
    BY <1>1, <1>2, SMT
<1> QED BY <1>3 DEF r

\* Filing a leak appends an event, or renews the active one of its case and
\* type.
LEMMA UpsertLeakEffect ==
    ASSUME TypeOK, NEW n \in Nat \ {0}, NEW type \in Alarm \cup Computed,
           NEW flow \in Flow \cup {None}, UpsertLeakEvent(n, type, flow)
    PROVE  /\ leaks' \in Seq(Leak)
           /\ DOMAIN leaks \subseteq DOMAIN leaks'
           /\ \A i \in DOMAIN leaks : leaks[i].status # "active" => leaks'[i] = leaks[i]
           /\ \A i \in DOMAIN leaks' :
                 \/ i \in DOMAIN leaks /\ leaks'[i] = leaks[i]
                 \/ leaks'[i] = [frame |-> n, type |-> type, flow |-> flow, status |-> "active"]
<1> DEFINE active == {i \in DOMAIN leaks : /\ SameCase(leaks[i].frame, n)
                                           /\ leaks[i].type = type /\ leaks[i].status = "active"}
           new == [frame |-> n, type |-> type, flow |-> flow, status |-> "active"]
<1>1. new \in Leak
    BY DEF Leak
<1>2. leaks \in Seq(Leak)
    BY DEF TypeOK
<1>3. leaks' = IF active = {} THEN Append(leaks, new)
               ELSE [i \in DOMAIN leaks |-> IF i \in active THEN new ELSE leaks[i]]
    BY DEF UpsertLeakEvent
<1>4. \A i \in active : i \in DOMAIN leaks /\ leaks[i].status = "active"
    OBVIOUS
<1> HIDE DEF active, new
<1>5. CASE active = {}
    <2>1. leaks' = Append(leaks, new)
        BY <1>3, <1>5
    <2>2. /\ leaks' \in Seq(Leak)
          /\ DOMAIN leaks' = DOMAIN leaks \cup {Len(leaks) + 1}
          /\ \A i \in DOMAIN leaks : leaks'[i] = leaks[i]
          /\ leaks'[Len(leaks) + 1] = new
        BY <1>1, <1>2, <2>1, SMT
    <2> QED BY <2>2, SMT DEF new
<1>6. CASE active # {}
    <2>1. leaks' = [i \in DOMAIN leaks |-> IF i \in active THEN new ELSE leaks[i]]
        BY <1>3, <1>6
    <2>2. DOMAIN leaks' = 1..Len(leaks) /\ Len(leaks) \in Nat /\ DOMAIN leaks = 1..Len(leaks)
        BY <1>2, <2>1, SMT
    <2>3. \A i \in DOMAIN leaks : leaks'[i] = IF i \in active THEN new ELSE leaks[i]
        BY <2>1
    <2>4. \A i \in 1..Len(leaks) : leaks[i] \in Leak
        BY <1>2, SMT
    <2>5. leaks' \in Seq(Leak)
        BY <2>1, <2>2, <2>3, <2>4, <1>1, SMT
    <2>6. \A i \in DOMAIN leaks : leaks[i].status # "active" => leaks'[i] = leaks[i]
        BY <2>3, <1>4, Zenon
    <2> QED BY <2>2, <2>3, <2>5, <2>6 DEF new
<1> QED BY <1>5, <1>6

-----------------------------------------------------------------------------
(* The invariant *)

LEMMA InitInv == Init => IInv
<1> SUFFICES ASSUME Init PROVE IInv
    OBVIOUS
<1>1. DOMAIN readings = {} /\ DOMAIN leaks = {} /\ DOMAIN queue = {}
    BY SMT DEF Init
<1>2. job = Idle /\ job.step = "idle"
    BY DEF Init, Idle
<1>3. TypeOK
    BY <1>2, SMT DEF Init, TypeOK, Job
<1> QED BY <1>1, <1>2, <1>3 DEF IInv, Scope, JobRestsOnReading, LeakRestsOnReading

\* The shapes a job may have, told apart by its step.
LEMMA JobShape ==
    ASSUME job \in Job
    PROVE  /\ job.step \in {"idle", "meter", "reading", "leaks", "sync_meter", "sync_reading"}
           /\ job.step = "idle" => job = Idle
           /\ job.step \in {"meter", "reading"} =>
                 job \in [step : {"meter", "reading"}, frame : Nat \ {0}]
           /\ job.step = "leaks" =>
                 job \in [step : {"leaks"}, frame : Nat \ {0}, flow : Flow \cup {None},
                         todo : SUBSET (Alarm \cup Computed)]
           /\ job.step \in {"sync_meter", "sync_reading"} =>
                 job \in [step : {"sync_meter", "sync_reading"}, todo : SUBSET (Nat \ {0}), frame : Nat]
    BY SMT DEF Job, Idle

\* The job of a worker that does nothing.
LEMMA IdleJob == Idle \in Job /\ Idle.step = "idle"
    BY DEF Job, Idle

LEMMA StepInv == IInv /\ [Next]_vars => IInv'
<1> SUFFICES ASSUME IInv, [Next]_vars PROVE IInv'
    OBVIOUS
<1>0. TypeOK /\ Scope /\ JobRestsOnReading /\ LeakRestsOnReading
    BY DEF IInv
<1>j. job \in Job
    BY <1>0 DEF TypeOK
<1> USE DEF IInv
<1>1. ASSUME NEW d \in Device, Uplink(d) PROVE IInv'
    <2>1. PICK t \in Tenant : \E p \in Payload, gap \in Gap, archived \in BOOLEAN, heard \in BOOLEAN :
          /\ frames' = Append(frames,
                [dev |-> d, tenant |-> t, data |-> p, archived |-> archived,
                 time |-> gap + IF frames = <<>> THEN 0 ELSE frames[Len(frames)].time])
          /\ queue' = IF up /\ heard THEN Append(queue, Len(frames')) ELSE queue
          /\ IF archived /\ heard THEN UNCHANGED faults ELSE Fault
        BY <1>1, Zenon DEF Uplink
    <2>2. PICK p \in Payload, gap \in Gap, archived \in BOOLEAN, heard \in BOOLEAN :
          /\ frames' = Append(frames,
                [dev |-> d, tenant |-> t, data |-> p, archived |-> archived,
                 time |-> gap + IF frames = <<>> THEN 0 ELSE frames[Len(frames)].time])
          /\ queue' = IF up /\ heard THEN Append(queue, Len(frames')) ELSE queue
          /\ IF archived /\ heard THEN UNCHANGED faults ELSE Fault
        BY <2>1, Zenon
    <2> DEFINE time == gap + IF frames = <<>> THEN 0 ELSE frames[Len(frames)].time
               f == [dev |-> d, tenant |-> t, data |-> p, archived |-> archived, time |-> time]
    <2>3. UNCHANGED <<up, job, meters, readings, leaks, syncs>>
        BY <1>1 DEF Uplink
    <2>4. time \in Nat
        <3>1. gap \in Nat
            BY GapAssumption
        <3>2. CASE frames = <<>>
            BY <3>1, <3>2
        <3>3. CASE frames # <<>>
            <4>1. frames[Len(frames)] \in Frame
                BY <1>0, <3>3, SMT DEF TypeOK
            <4> QED BY <3>1, <3>3, <4>1, SMT DEF Frame
        <3> QED BY <3>2, <3>3
    <2> HIDE DEF time
    <2>5. f \in Frame
        BY <2>4 DEF Frame
    <2>6. frames' = Append(frames, f)
        BY <2>2 DEF time
    <2> HIDE DEF f
    <2>7. /\ frames' \in Seq(Frame) /\ DOMAIN frames \subseteq DOMAIN frames'
          /\ Len(frames') \in Nat \ {0} /\ Len(frames') \in DOMAIN frames'
        BY <1>0, <2>5, <2>6, SMT DEF TypeOK
    <2>8. queue' \in Seq(Nat \ {0}) /\ \A i \in DOMAIN queue' : queue'[i] \in DOMAIN frames'
        <3>1. queue \in Seq(Nat \ {0}) /\ \A i \in DOMAIN queue : queue[i] \in DOMAIN frames
            BY <1>0 DEF TypeOK, Scope
        <3>2. CASE queue' = queue
            BY <3>1, <3>2, <2>7
        <3>3. CASE queue' = Append(queue, Len(frames'))
            BY <3>1, <3>3, <2>7, SMT
        <3> QED BY <2>2, <3>2, <3>3, Zenon
    <2>9. faults' \in Nat
        BY <1>0, <2>2, SMT DEF Fault, TypeOK
    <2>10. TypeOK'
        BY <1>0, <2>3, <2>7, <2>8, <2>9 DEF TypeOK
    <2>11. Scope'
        BY <1>0, <2>3, <2>7, <2>8, Zenon DEF Scope
    <2>12. JobRestsOnReading' /\ LeakRestsOnReading'
        BY <1>0, <2>3, Zenon DEF JobRestsOnReading, LeakRestsOnReading
    <2> QED BY <2>10, <2>11, <2>12
<1>2. CASE Take
    <2>1. Head(queue) \in DOMAIN frames /\ Head(queue) \in Nat \ {0}
        BY <1>0, <1>2, SMT DEF Take, TypeOK, Scope
    <2>2. queue' \in Seq(Nat \ {0}) /\ \A i \in DOMAIN queue' : queue'[i] \in DOMAIN frames
        BY <1>0, <1>2, SMT DEF Take, TypeOK, Scope
    <2>3. UNCHANGED <<frames, up, meters, readings, leaks, syncs, faults>>
        BY <1>2 DEF Take
    <2>4. job' = Idle \/ job' = [step |-> "meter", frame |-> Head(queue)]
        BY <1>2 DEF Take
    <2>5. /\ job' \in Job /\ job'.step \in {"idle", "meter"}
          /\ job'.step = "meter" => job'.frame \in DOMAIN frames
        BY <2>1, <2>4, IdleJob DEF Job
    <2>6. TypeOK'
        BY <1>0, <2>2, <2>3, <2>5 DEF TypeOK
    <2>7. Scope'
        BY <1>0, <2>2, <2>3, <2>5 DEF Scope
    <2>8. JobRestsOnReading' /\ LeakRestsOnReading'
        BY <1>0, <2>3, <2>5 DEF JobRestsOnReading, LeakRestsOnReading
    <2> QED BY <2>6, <2>7, <2>8
<1>3. CASE WriteMeter
    <2>1. job \in [step : {"meter", "reading"}, frame : Nat \ {0}] /\ job.frame \in DOMAIN frames
        BY <1>0, <1>j, <1>3, JobShape DEF WriteMeter, Scope
    <2>2. frames[job.frame] \in Frame /\ UpsertMeter(frames[job.frame])
        BY <1>0, <1>3, <2>1 DEF TypeOK, WriteMeter
    <2>3. meters' \in [Device -> Meter \cup {None}]
        BY <1>0, <2>2, UpsertMeterType
    <2>4. job' \in Job /\ job'.step = "reading" /\ job'.frame = job.frame
        BY <1>3, <2>1, SMT DEF WriteMeter, Job
    <2>5. UNCHANGED <<frames, queue, up, readings, leaks, syncs, faults>>
        BY <1>3 DEF WriteMeter
    <2>6. TypeOK'
        BY <1>0, <2>3, <2>4, <2>5 DEF TypeOK
    <2>7. Scope'
        BY <1>0, <2>1, <2>4, <2>5 DEF Scope
    <2>8. JobRestsOnReading' /\ LeakRestsOnReading'
        BY <1>0, <2>4, <2>5 DEF JobRestsOnReading, LeakRestsOnReading
    <2> QED BY <2>6, <2>7, <2>8
<1>4. CASE WriteReading
    <2> DEFINE f == frames[job.frame]
               s == FromRow(SettingsOf[f.tenant])
    <2>1. PICK previous \in Latest(Previous(f)) :
              /\ InsertReading(job.frame, "uplink", DetectFlow(f, previous, s))
              /\ job' = [step |-> "leaks", frame |-> job.frame, flow |-> DetectFlow(f, previous, s),
                         todo |-> DetectLeaks(f, DetectFlow(f, previous, s), s)]
        BY <1>4, Zenon DEF WriteReading
    <2> DEFINE flow == DetectFlow(f, previous, s)
               todo == DetectLeaks(f, flow, s)
    <2>2. job.frame \in Nat \ {0} /\ job.frame \in DOMAIN frames
        BY <1>0, <1>j, <1>4, JobShape DEF WriteReading, Scope
    <2>3. f \in Frame
        BY <1>0, <2>2 DEF TypeOK
    <2>4. flow \in Flow \cup {None} /\ todo \in SUBSET (Alarm \cup Computed)
        <3> HIDE DEF f, s
        <3>1. previous \in Frame \cup {None} /\ (previous # None => previous.data.index # None)
            BY <1>0, <2>1, PreviousType
        <3>2. flow \in Flow \cup {None}
            BY <3>1, <2>3, FlowType
        <3>3. todo \in SUBSET (Alarm \cup Computed)
            BY <2>3, LeaksType
        <3> QED BY <3>2, <3>3
    <2>5. InsertReading(job.frame, "uplink", flow)
        BY <2>1
    <2>6. job' = [step |-> "leaks", frame |-> job.frame, flow |-> flow, todo |-> todo]
        BY <2>1
    <2>7. UNCHANGED <<frames, queue, up, meters, leaks, syncs, faults>>
        BY <1>4 DEF WriteReading
    <2> HIDE DEF flow, todo, f, s
    <2>8. /\ readings' \in Seq(Reading)
          /\ DOMAIN readings' = DOMAIN readings \cup {Len(readings) + 1}
          /\ \A i \in DOMAIN readings : readings'[i] = readings[i]
          /\ readings'[Len(readings) + 1] = [frame |-> job.frame, origin |-> "uplink", flow |-> flow]
        BY <1>0, <2>2, <2>4, <2>5, InsertReadingType
    <2>9. job' \in Job /\ job'.step = "leaks" /\ job'.frame = job.frame /\ job'.flow = flow
        BY <2>2, <2>4, <2>6 DEF Job
    <2>10. TypeOK'
        BY <1>0, <2>7, <2>8, <2>9 DEF TypeOK
    <2>11. Scope'
        BY <1>0, <2>2, <2>7, <2>8, <2>9 DEF Scope
    <2>12. JobRestsOnReading'
        BY <2>8, <2>9 DEF JobRestsOnReading
    <2>13. LeakRestsOnReading'
        BY <1>0, <2>7, <2>8 DEF LeakRestsOnReading
    <2> QED BY <2>10, <2>11, <2>12, <2>13
<1>5. CASE WriteLeak
    <2>0. UNCHANGED <<frames, queue, up, meters, readings, syncs, faults>>
        BY <1>5 DEF WriteLeak
    <2>1. CASE job.todo = {}
        <3>1. job' = Idle /\ leaks' = leaks
            BY <1>5, <2>1 DEF WriteLeak
        <3>2. TypeOK'
            BY <1>0, <2>0, <3>1, IdleJob DEF TypeOK
        <3>3. Scope' /\ JobRestsOnReading' /\ LeakRestsOnReading'
            BY <1>0, <2>0, <3>1, IdleJob DEF Scope, JobRestsOnReading, LeakRestsOnReading
        <3> QED BY <3>2, <3>3
    <2>2. CASE job.todo # {}
        <3>1. PICK type \in job.todo : /\ UpsertLeakEvent(job.frame, type, job.flow)
                                       /\ job' = [job EXCEPT !.todo = @ \ {type}]
            BY <1>5, <2>2, Zenon DEF WriteLeak
        <3>2. /\ job \in [step : {"leaks"}, frame : Nat \ {0}, flow : Flow \cup {None},
                          todo : SUBSET (Alarm \cup Computed)]
              /\ job.step = "leaks" /\ job.frame \in DOMAIN frames
            BY <1>0, <1>j, <1>5, JobShape DEF WriteLeak, Scope
        <3>3. /\ job.frame \in Nat \ {0} /\ job.flow \in Flow \cup {None}
              /\ type \in Alarm \cup Computed
            BY <3>2
        <3>4. /\ leaks' \in Seq(Leak)
              /\ \A i \in DOMAIN leaks' :
                    \/ i \in DOMAIN leaks /\ leaks'[i] = leaks[i]
                    \/ leaks'[i] = [frame |-> job.frame, type |-> type, flow |-> job.flow,
                                    status |-> "active"]
            BY <1>0, <3>1, <3>3, UpsertLeakEffect
        <3>5. /\ job' \in Job /\ job'.step = "leaks" /\ job'.frame = job.frame
              /\ job'.flow = job.flow
            BY <3>1, <3>2, SMT DEF Job
        <3>6. TypeOK'
            BY <1>0, <2>0, <3>4, <3>5 DEF TypeOK
        <3>7. Scope'
            BY <1>0, <2>0, <3>2, <3>4, <3>5 DEF Scope
        <3>8. JobRestsOnReading'
            BY <1>0, <2>0, <3>2, <3>5 DEF JobRestsOnReading
        <3>9. LeakRestsOnReading'
            BY <1>0, <2>0, <3>2, <3>4 DEF JobRestsOnReading, LeakRestsOnReading
        <3> QED BY <3>6, <3>7, <3>8, <3>9
    <2> QED BY <2>1, <2>2
<1>6. CASE \E t \in Tenant : StartSync(t)
    <2>1. PICK t \in Tenant : StartSync(t)
        BY <1>6
    <2> DEFINE todo == {n \in NewestArchives(t) : Mentions(frames[n].data)}
    <2>2. todo \subseteq DOMAIN frames
        BY DEF NewestArchives, Archives
    <2>3. todo \in SUBSET (Nat \ {0})
        BY <1>0, <2>2, SMT DEF TypeOK
    <2>4. job' = [step |-> "sync_meter", frame |-> 0, todo |-> todo] /\ syncs' = syncs + 1
        BY <2>1 DEF StartSync
    <2>5. UNCHANGED <<frames, queue, up, meters, readings, leaks, faults>>
        BY <2>1 DEF StartSync
    <2> HIDE DEF todo
    <2>6. job' \in Job /\ job'.step = "sync_meter" /\ job'.todo = todo
        BY <2>3, <2>4, SMT DEF Job
    <2>7. TypeOK'
        BY <1>0, <2>4, <2>5, <2>6 DEF TypeOK
    <2>8. Scope' /\ JobRestsOnReading' /\ LeakRestsOnReading'
        BY <1>0, <2>2, <2>5, <2>6 DEF Scope, JobRestsOnReading, LeakRestsOnReading
    <2> QED BY <2>7, <2>8
<1>7. CASE SyncMeter
    <2>0. UNCHANGED <<frames, queue, up, readings, leaks, syncs, faults>>
        BY <1>7 DEF SyncMeter
    <2>1. CASE job.todo = {}
        <3>1. job' = Idle /\ meters' = meters
            BY <1>7, <2>1 DEF SyncMeter
        <3>2. TypeOK'
            BY <1>0, <2>0, <3>1, IdleJob DEF TypeOK
        <3>3. Scope' /\ JobRestsOnReading' /\ LeakRestsOnReading'
            BY <1>0, <2>0, <3>1, IdleJob DEF Scope, JobRestsOnReading, LeakRestsOnReading
        <3> QED BY <3>2, <3>3
    <2>2. CASE job.todo # {}
        <3>1. PICK n \in job.todo :
                 /\ UpsertMeter(frames[n])
                 /\ job' = [step |-> "sync_reading", frame |-> n, todo |-> job.todo \ {n}]
            BY <1>7, <2>2, Zenon DEF SyncMeter
        <3>2. job.todo \in SUBSET (Nat \ {0}) /\ job.todo \subseteq DOMAIN frames
            BY <1>0, <1>j, <1>7, JobShape DEF SyncMeter, Scope
        <3>3. frames[n] \in Frame
            BY <1>0, <3>2 DEF TypeOK
        <3>4. meters' \in [Device -> Meter \cup {None}]
            BY <1>0, <3>1, <3>3, UpsertMeterType
        <3>5. /\ job' \in Job /\ job'.step = "sync_reading" /\ job'.frame \in DOMAIN frames
              /\ job'.todo \subseteq DOMAIN frames
            BY <3>1, <3>2, SMT DEF Job
        <3>6. TypeOK'
            BY <1>0, <2>0, <3>4, <3>5 DEF TypeOK
        <3>7. Scope' /\ JobRestsOnReading' /\ LeakRestsOnReading'
            BY <1>0, <2>0, <3>5 DEF Scope, JobRestsOnReading, LeakRestsOnReading
        <3> QED BY <3>6, <3>7
    <2> QED BY <2>1, <2>2
<1>8. CASE SyncReading
    <2>1. /\ job.frame \in Nat /\ job.frame \in DOMAIN frames
          /\ job.todo \in SUBSET (Nat \ {0}) /\ job.todo \subseteq DOMAIN frames
        BY <1>0, <1>j, <1>8, JobShape DEF SyncReading, Scope
    <2>2. job.frame \in Nat \ {0}
        BY <1>0, <2>1, SMT DEF TypeOK
    <2>3. /\ InsertReading(job.frame, "archive", None)
          /\ job' = [step |-> "sync_meter", frame |-> 0, todo |-> job.todo]
          /\ UNCHANGED <<frames, queue, up, meters, leaks, syncs, faults>>
        BY <1>8 DEF SyncReading
    <2>4. /\ readings' \in Seq(Reading)
          /\ DOMAIN readings' = DOMAIN readings \cup {Len(readings) + 1}
          /\ \A i \in DOMAIN readings : readings'[i] = readings[i]
          /\ readings'[Len(readings) + 1] = [frame |-> job.frame, origin |-> "archive", flow |-> None]
        BY <1>0, <2>2, <2>3, InsertReadingType
    <2>5. job' \in Job /\ job'.step = "sync_meter" /\ job'.todo \subseteq DOMAIN frames
        BY <2>1, <2>3, SMT DEF Job
    <2>6. TypeOK'
        BY <1>0, <2>3, <2>4, <2>5 DEF TypeOK
    <2>7. Scope'
        BY <1>0, <2>1, <2>3, <2>4, <2>5 DEF Scope
    <2>8. JobRestsOnReading' /\ LeakRestsOnReading'
        BY <1>0, <2>3, <2>4, <2>5 DEF JobRestsOnReading, LeakRestsOnReading
    <2> QED BY <2>6, <2>7, <2>8
<1>9. ASSUME NEW i \in DOMAIN leaks, NEW s \in {"resolved", "false_positive"},
             ResolveLeakEvent(i, s)
      PROVE  IInv'
    <2> DEFINE new == [leaks[i] EXCEPT !.status = s]
    <2>1. leaks[i] \in Leak /\ leaks \in Seq(Leak)
        BY <1>0 DEF TypeOK
    <2>2. new \in Leak /\ new.frame = leaks[i].frame /\ new.flow = leaks[i].flow
        BY <2>1, SMT DEF Leak
    <2>3. leaks' = [leaks EXCEPT ![i] = new]
        BY <1>9 DEF ResolveLeakEvent
    <2> HIDE DEF new
    <2>4. leaks' \in Seq(Leak) /\ DOMAIN leaks' = DOMAIN leaks
        BY <2>1, <2>2, <2>3, SMT
    <2>5. \A k \in DOMAIN leaks : leaks'[k].frame = leaks[k].frame /\ leaks'[k].flow = leaks[k].flow
        BY <2>2, <2>3
    <2>6. UNCHANGED <<frames, queue, up, job, meters, readings, syncs, faults>>
        BY <1>9 DEF ResolveLeakEvent
    <2>7. TypeOK'
        BY <1>0, <2>4, <2>6 DEF TypeOK
    <2>8. Scope' /\ JobRestsOnReading' /\ LeakRestsOnReading'
        BY <1>0, <2>4, <2>5, <2>6 DEF Scope, JobRestsOnReading, LeakRestsOnReading
    <2> QED BY <2>7, <2>8
<1>10. CASE Fail
    <2>1. job' = Idle /\ faults' = faults + 1 /\ UNCHANGED <<frames, queue, up, meters, readings, leaks, syncs>>
        BY <1>10 DEF Fail, Fault
    <2>2. TypeOK'
        BY <1>0, <2>1, IdleJob, SMT DEF TypeOK
    <2>3. Scope' /\ JobRestsOnReading' /\ LeakRestsOnReading'
        BY <1>0, <2>1, IdleJob DEF Scope, JobRestsOnReading, LeakRestsOnReading
    <2> QED BY <2>2, <2>3
<1>11. CASE Crash
    <2>1. /\ job' = Idle /\ faults' = faults + 1 /\ queue' = <<>> /\ up' = FALSE
          /\ UNCHANGED <<frames, meters, readings, leaks, syncs>>
        BY <1>11 DEF Crash, Fault
    <2>2. queue' \in Seq(Nat \ {0}) /\ DOMAIN queue' = {}
        BY <2>1, SMT
    <2>3. TypeOK'
        <3>1. up' \in BOOLEAN /\ job' \in Job
            BY <2>1, IdleJob
        <3>2. faults' \in Nat
            BY <1>0, <2>1, SMT DEF TypeOK
        <3> QED BY <1>0, <2>1, <2>2, <3>1, <3>2, Zenon DEF TypeOK
    <2>4. Scope' /\ JobRestsOnReading' /\ LeakRestsOnReading'
        BY <1>0, <2>1, <2>2, IdleJob DEF Scope, JobRestsOnReading, LeakRestsOnReading
    <2> QED BY <2>3, <2>4
<1>12. CASE Restart
    <2>1. TypeOK'
        BY <1>0, <1>12 DEF Restart, TypeOK
    <2>2. Scope' /\ JobRestsOnReading' /\ LeakRestsOnReading'
        BY <1>0, <1>12 DEF Restart, Scope, JobRestsOnReading, LeakRestsOnReading
    <2> QED BY <2>1, <2>2
<1>13. CASE UNCHANGED vars
    <2>1. TypeOK'
        BY <1>0, <1>13 DEF vars, TypeOK
    <2>2. Scope' /\ JobRestsOnReading' /\ LeakRestsOnReading'
        BY <1>0, <1>13 DEF vars, Scope, JobRestsOnReading, LeakRestsOnReading
    <2> QED BY <2>1, <2>2
<1> QED
    BY <1>1, <1>2, <1>3, <1>4, <1>5, <1>6, <1>7, <1>8, <1>9, <1>10, <1>11, <1>12, <1>13
       DEF Next, HandlerStep

LEMMA Invariant == Spec => []IInv
BY InitInv, StepInv, PTL DEF Spec

-----------------------------------------------------------------------------
(* Theorems *)

\* Every table keeps its shape.
THEOREM TypeCorrect == Spec => []TypeOK
<1>1. IInv => TypeOK
    BY DEF IInv
<1> QED BY <1>1, Invariant, PTL

\* A leak event rests on a stored reading of its frame with its flow, wherever
\* a query fails or the worker crashes.
THEOREM LeaksRestOnReadings == Spec => []LeakRestsOnReading
<1>1. IInv => LeakRestsOnReading
    BY DEF IInv
<1> QED BY <1>1, Invariant, PTL

\* What an operator resolved stays as it is, and only the uplink handler opens
\* events.
THEOREM VerdictsAreFinal == Spec => VerdictIsFinal
<1> DEFINE Final == /\ \A i \in DOMAIN leaks : leaks[i].status # "active" => leaks'[i] = leaks[i]
                    /\ job.step # "leaks" => Len(leaks') = Len(leaks)
<1>1. IInv /\ [Next]_vars => [Final]_vars
    <2> SUFFICES ASSUME IInv, [Next]_vars PROVE Final
        OBVIOUS
    <2>0. TypeOK /\ Scope /\ leaks \in Seq(Leak)
        BY DEF IInv, TypeOK
    <2>1. CASE UNCHANGED leaks
        BY <2>1
    <2>2. CASE WriteLeak /\ job.todo # {}
        <3>1. PICK type \in job.todo : UpsertLeakEvent(job.frame, type, job.flow)
            BY <2>2, Zenon DEF WriteLeak
        <3>2. /\ job.step = "leaks" /\ job.frame \in Nat \ {0}
              /\ job.flow \in Flow \cup {None} /\ type \in Alarm \cup Computed
            BY <2>0, <2>2, JobShape DEF WriteLeak, TypeOK
        <3> QED BY <2>0, <3>1, <3>2, UpsertLeakEffect
    <2>3. ASSUME NEW i \in DOMAIN leaks, NEW s \in {"resolved", "false_positive"},
                 ResolveLeakEvent(i, s)
          PROVE  Final
        <3>1. leaks[i].status = "active" /\ leaks' = [leaks EXCEPT ![i].status = s]
            BY <2>3 DEF ResolveLeakEvent
        <3> QED BY <2>0, <3>1, SMT
    <2> QED
        BY <2>1, <2>2, <2>3
           DEF Next, HandlerStep, vars, Uplink, Take, WriteMeter, WriteReading, WriteLeak, StartSync,
               SyncMeter, SyncReading, Fail, Crash, Restart
<1> QED BY <1>1, Invariant, PTL DEF Spec, VerdictIsFinal

\* Filing a leak keeps the active events of a case and type unique.
LEMMA UpsertLeakUnique ==
    ASSUME TypeOK, OneActiveEvent, NEW n \in Nat \ {0}, NEW type, NEW flow,
           UpsertLeakEvent(n, type, flow)
    PROVE  \A i, j \in DOMAIN leaks' :
               /\ SameCase(leaks'[i].frame, leaks'[j].frame) /\ leaks'[i].type = leaks'[j].type
               /\ leaks'[i].status = "active" /\ leaks'[j].status = "active"
               => i = j
<1> DEFINE active == {i \in DOMAIN leaks : /\ SameCase(leaks[i].frame, n)
                                           /\ leaks[i].type = type /\ leaks[i].status = "active"}
           new == [frame |-> n, type |-> type, flow |-> flow, status |-> "active"]
           Same(k, l) == /\ SameCase(k.frame, l.frame) /\ k.type = l.type
                         /\ k.status = "active" /\ l.status = "active"
<1>1. \A i \in DOMAIN leaks : i \in active <=> Same(leaks[i], new)
    OBVIOUS
<1>2. \A k, l, o : (Same(k, l) => Same(l, k)) /\ (Same(k, l) /\ Same(l, o) => Same(k, o))
    BY DEF SameCase
<1>3. \A i, j \in DOMAIN leaks : Same(leaks[i], leaks[j]) => i = j
    BY DEF OneActiveEvent
<1>4. leaks' = IF active = {} THEN Append(leaks, new)
               ELSE [i \in DOMAIN leaks |-> IF i \in active THEN new ELSE leaks[i]]
    BY DEF UpsertLeakEvent
<1>5. leaks \in Seq(Leak)
    BY DEF TypeOK
<1>6. active \subseteq DOMAIN leaks
    OBVIOUS
<1> HIDE DEF active, new, Same
<1>7. CASE active = {}
    <2>1. leaks' = Append(leaks, new)
        BY <1>4, <1>7
    <2>2. /\ DOMAIN leaks' = DOMAIN leaks \cup {Len(leaks) + 1}
          /\ \A i \in DOMAIN leaks : leaks'[i] = leaks[i]
          /\ leaks'[Len(leaks) + 1] = new
        BY <1>5, <2>1, SMT
    <2>3. \A i \in DOMAIN leaks : ~Same(leaks[i], new) /\ ~Same(new, leaks[i])
        BY <1>1, <1>2, <1>7, Zenon
    <2>4. \A i, j \in DOMAIN leaks' : Same(leaks'[i], leaks'[j]) => i = j
        BY <1>3, <2>2, <2>3
    <2> QED BY <2>4 DEF Same
<1>8. CASE active # {}
    <2>1. leaks' = [i \in DOMAIN leaks |-> IF i \in active THEN new ELSE leaks[i]]
        BY <1>4, <1>8
    <2>2. /\ DOMAIN leaks' = DOMAIN leaks
          /\ \A i \in DOMAIN leaks : leaks'[i] = IF i \in active THEN new ELSE leaks[i]
        BY <2>1
    <2>3. ASSUME NEW i \in DOMAIN leaks, NEW j \in DOMAIN leaks, Same(leaks'[i], leaks'[j])
          PROVE  i = j
        <3>1. CASE i \in active /\ j \in active
            BY <1>1, <1>2, <1>3, <3>1, Zenon
        <3>2. CASE i \in active /\ j \notin active
            <4>1. leaks'[i] = new /\ leaks'[j] = leaks[j]
                BY <2>2, <3>2
            <4>2. Same(leaks[j], new)
                BY <1>2, <2>3, <4>1, Zenon
            <4> QED BY <1>1, <3>2, <4>2
        <3>3. CASE i \notin active /\ j \in active
            <4>1. leaks'[j] = new /\ leaks'[i] = leaks[i]
                BY <2>2, <3>3
            <4>2. Same(leaks[i], new)
                BY <1>2, <2>3, <4>1, Zenon
            <4> QED BY <1>1, <3>3, <4>2
        <3>4. CASE i \notin active /\ j \notin active
            BY <1>3, <2>2, <2>3, <3>4, Zenon
        <3> QED BY <3>1, <3>2, <3>3, <3>4
    <2> QED BY <2>2, <2>3, Zenon DEF Same
<1> QED BY <1>7, <1>8

\* One active event per device, tenant and type.
THEOREM ActiveEventIsUnique == Spec => []OneActiveEvent
<1>1. Init => OneActiveEvent
    <2> SUFFICES ASSUME Init PROVE OneActiveEvent
        OBVIOUS
    <2>1. DOMAIN leaks = {}
        BY SMT DEF Init
    <2> QED BY <2>1 DEF OneActiveEvent
<1>2. IInv /\ OneActiveEvent /\ [Next]_vars => OneActiveEvent'
    <2> SUFFICES ASSUME IInv, OneActiveEvent, [Next]_vars PROVE OneActiveEvent'
        OBVIOUS
    <2>0. TypeOK /\ Scope /\ leaks \in Seq(Leak)
        BY DEF IInv, TypeOK
    <2>1. CASE UNCHANGED <<leaks, frames>>
        BY <2>1 DEF OneActiveEvent, SameCase
    <2>2. ASSUME NEW d \in Device, Uplink(d) PROVE OneActiveEvent'
        <3>1. leaks' = leaks /\ \E f : frames' = Append(frames, f)
            BY <2>2, Zenon DEF Uplink
        <3>2. \A n \in DOMAIN frames : frames'[n] = frames[n]
            BY <2>0, <3>1, SMT DEF TypeOK
        <3>3. \A i \in DOMAIN leaks : frames'[leaks[i].frame] = frames[leaks[i].frame]
            BY <2>0, <3>2 DEF Scope
        <3>4. \A i, j \in DOMAIN leaks :
                  SameCase(leaks[i].frame, leaks[j].frame)' => SameCase(leaks[i].frame, leaks[j].frame)
            <4> SUFFICES ASSUME NEW i \in DOMAIN leaks, NEW j \in DOMAIN leaks
                         PROVE  SameCase(leaks[i].frame, leaks[j].frame)' =>
                                    SameCase(leaks[i].frame, leaks[j].frame)
                OBVIOUS
            <4>1. leaks[i].frame' = leaks[i].frame /\ leaks[j].frame' = leaks[j].frame
                BY <3>1
            <4> QED BY <3>3, <4>1 DEF SameCase
        <3> QED BY <3>1, <3>4 DEF OneActiveEvent
    <2>3. CASE WriteLeak /\ job.todo # {}
        <3>1. PICK type \in job.todo : UpsertLeakEvent(job.frame, type, job.flow)
            BY <2>3, Zenon DEF WriteLeak
        <3>2. job.frame \in Nat \ {0} /\ frames' = frames
            BY <2>0, <2>3, JobShape DEF WriteLeak, TypeOK
        <3>3. \A i, j \in DOMAIN leaks' :
               /\ SameCase(leaks'[i].frame, leaks'[j].frame) /\ leaks'[i].type = leaks'[j].type
               /\ leaks'[i].status = "active" /\ leaks'[j].status = "active"
               => i = j
            BY <2>0, <3>1, <3>2, UpsertLeakUnique
        <3> QED BY <3>2, <3>3 DEF OneActiveEvent, SameCase
    <2>4. ASSUME NEW i \in DOMAIN leaks, NEW s \in {"resolved", "false_positive"},
                 ResolveLeakEvent(i, s)
          PROVE  OneActiveEvent'
        <3>1. leaks' = [leaks EXCEPT ![i].status = s] /\ frames' = frames
            BY <2>4 DEF ResolveLeakEvent
        <3>2. /\ DOMAIN leaks' = DOMAIN leaks
              /\ \A k \in DOMAIN leaks : /\ leaks'[k].frame = leaks[k].frame
                                         /\ leaks'[k].type = leaks[k].type
                                         /\ leaks'[k].status = "active" => leaks[k].status = "active"
            BY <2>0, <2>4, <3>1, SMT DEF Leak
        <3> QED BY <3>1, <3>2 DEF OneActiveEvent, SameCase
    <2> QED
        BY <2>1, <2>2, <2>3, <2>4
           DEF Next, HandlerStep, vars, Take, WriteMeter, WriteReading, WriteLeak, StartSync,
               SyncMeter, SyncReading, Fail, Crash, Restart
<1> QED BY <1>1, <1>2, Invariant, PTL DEF Spec

-----------------------------------------------------------------------------
(* Flows *)

\* What FlowIsMeasured says of the reading in row j.
Measured(j) ==
    readings[j].flow # None =>
        /\ readings[j].flow.hours >= FromRow(SettingsOf[FrameOf(readings[j]).tenant]).least
        /\ \E i \in 1..(j - 1) :
              /\ SameCase(readings[i].frame, readings[j].frame)
              /\ FrameOf(readings[i]).data.index # None
              /\ FrameOf(readings[j]).data.index
                     = FrameOf(readings[i]).data.index + readings[j].flow.delta
              /\ FrameOf(readings[j]).time = FrameOf(readings[i]).time + readings[j].flow.hours
              /\ readings[j].flow.delta >= 0 /\ readings[j].flow.hours \in 1..MaxInterval
        /\ Near(readings[j].flow)

LEMMA MeasuredIsAll == FlowIsMeasured <=> \A j \in DOMAIN readings : Measured(j)
BY Zenon DEF FlowIsMeasured, Measured

\* Readings and frames are only appended to: a row that was measured remains so.
LEMMA MeasuredRemains ==
    ASSUME IInv, NEW j \in DOMAIN readings, Measured(j),
           DOMAIN readings \subseteq DOMAIN readings',
           \A i \in DOMAIN readings : readings'[i] = readings[i],
           \A n \in DOMAIN frames : frames'[n] = frames[n]
    PROVE  Measured(j)'
<1>1. readings \in Seq(Reading) /\ \A i \in DOMAIN readings : readings[i].frame \in DOMAIN frames
    BY DEF IInv, TypeOK, Scope
<1>2. \A i \in DOMAIN readings : frames'[readings'[i].frame] = frames[readings[i].frame]
    BY <1>1, Zenon
<1>3. j \in Nat /\ \A i \in 1..(j - 1) : i \in DOMAIN readings
    BY <1>1, SMT
<1>4. readings'[j] = readings[j] /\ frames'[readings'[j].frame] = frames[readings[j].frame]
    BY <1>2
<1>5. CASE readings[j].flow = None
    BY <1>4, <1>5, Zenon DEF Measured
<1>6. CASE readings[j].flow # None
    <2>1. PICK i \in 1..(j - 1) :
              /\ SameCase(readings[i].frame, readings[j].frame)
              /\ FrameOf(readings[i]).data.index # None
              /\ FrameOf(readings[j]).data.index
                     = FrameOf(readings[i]).data.index + readings[j].flow.delta
              /\ FrameOf(readings[j]).time = FrameOf(readings[i]).time + readings[j].flow.hours
              /\ readings[j].flow.delta >= 0 /\ readings[j].flow.hours \in 1..MaxInterval
        BY <1>6, Zenon DEF Measured
    <2>2. /\ readings'[i] = readings[i]
          /\ frames'[readings'[i].frame] = frames[readings[i].frame]
        BY <1>2, <1>3
    <2>3. readings[j].flow.hours >= FromRow(SettingsOf[frames[readings[j].frame].tenant]).least
        BY <1>6, Zenon DEF Measured, FrameOf
    <2>4. Near(readings[j].flow)
        BY <1>6, Zenon DEF Measured
    <2> QED
        BY <1>4, <2>1, <2>2, <2>3, <2>4, Zenon DEF Measured, SameCase, FrameOf, Near
<1> QED BY <1>5, <1>6

\* A flow is measured from the row of the frame it is measured from.
LEMMA FlowFromPrevious ==
    ASSUME TypeOK, NEW f \in Frame, NEW previous \in Frame \cup {None}, NEW s,
           previous # None => previous.data.index # None,
           DetectFlow(f, previous, s) # None
    PROVE  LET flow == DetectFlow(f, previous, s)
           IN  /\ previous # None /\ flow.hours >= s.least
               /\ f.data.index = previous.data.index + flow.delta
               /\ f.time = previous.time + flow.hours
               /\ flow.delta >= 0 /\ flow.hours \in 1..MaxInterval
               /\ Near(flow)
<1>0. None \notin Nat
    BY NoneAssumption
<1>1. s.enabled /\ f.data.index # None /\ previous # None
    BY Zenon DEF DetectFlow
<1>2. /\ f.data.index \in Nat /\ f.time \in Nat
      /\ previous.data.index \in Nat /\ previous.time \in Nat
    BY <1>1, PayloadAssumption, SMT DEF Frame
<1>3. DetectFlow(f, previous, s)
          = ComputeFlow(f.data.index, f.time, previous.data.index, previous.time, s.least)
    BY <1>1 DEF DetectFlow
<1>4. /\ f.time > previous.time
      /\ f.time - previous.time >= s.least /\ f.time - previous.time <= MaxInterval
      /\ f.data.index >= previous.data.index
    BY <1>3, Zenon DEF ComputeFlow
<1>5. DetectFlow(f, previous, s)
          = [delta |-> f.data.index - previous.data.index, hours |-> f.time - previous.time,
             rate  |-> Rounded(f.data.index - previous.data.index, f.time - previous.time)]
    BY <1>3, <1>4, Zenon DEF ComputeFlow
<1>6. /\ DetectFlow(f, previous, s).delta = f.data.index - previous.data.index
      /\ DetectFlow(f, previous, s).hours = f.time - previous.time
      /\ DetectFlow(f, previous, s).rate
             = Rounded(f.data.index - previous.data.index, f.time - previous.time)
    BY <1>5
<1>7. /\ f.data.index = previous.data.index + (f.data.index - previous.data.index)
      /\ f.time = previous.time + (f.time - previous.time)
      /\ f.data.index - previous.data.index >= 0 /\ f.time - previous.time \in 1..MaxInterval
    BY <1>2, <1>4, SMT DEF MaxInterval
<1>8. Near(DetectFlow(f, previous, s))
    <2>1. /\ f.data.index - previous.data.index \in Nat
          /\ f.time - previous.time \in Nat \ {0}
        BY <1>2, <1>4, SMT
    <2> DEFINE litres == f.data.index - previous.data.index
               hours == f.time - previous.time
    <2>2. 20 * litres - 2 * hours * Rounded(litres, hours) \in (-hours)..hours
        <3> HIDE DEF litres, hours
        <3> QED BY <2>1, RoundedIsNear DEF litres, hours
    <2> QED BY <1>6, <2>2 DEF Near
<1> QED BY <1>1, <1>4, <1>6, <1>7, <1>8, Zenon

\* The reading an uplink stores is measured from a row above it.
LEMMA WriteReadingMeasures ==
    ASSUME IInv, WriteReading, NEW n, n = Len(readings) + 1
    PROVE  /\ DOMAIN readings' = DOMAIN readings \cup {n}
           /\ \A i \in DOMAIN readings : readings'[i] = readings[i]
           /\ frames' = frames
           /\ Measured(n)'
<1> DEFINE f == frames[job.frame]
           s == FromRow(SettingsOf[f.tenant])
<1>0. TypeOK /\ Scope /\ job \in Job /\ readings \in Seq(Reading)
    BY DEF IInv, TypeOK
<1>1. PICK previous \in Latest(Previous(f)) :
          InsertReading(job.frame, "uplink", DetectFlow(f, previous, s))
    BY Zenon DEF WriteReading
<1> DEFINE flow == DetectFlow(f, previous, s)
<1>2. job.frame \in Nat \ {0} /\ job.frame \in DOMAIN frames /\ frames' = frames
    BY <1>0, JobShape DEF WriteReading, Scope
<1>3. f \in Frame
    BY <1>0, <1>2 DEF TypeOK
<1>4. InsertReading(job.frame, "uplink", flow)
    BY <1>1
<1>5. s = FromRow(SettingsOf[f.tenant])
    OBVIOUS
<1>6. previous \in Frame \cup {None} /\ (previous # None => previous.data.index # None)
    <2> HIDE DEF f, s
    <2> QED BY <1>0, <1>1, PreviousType
<1>7. previous # None => \E i \in DOMAIN readings :
          /\ frames[readings[i].frame] = previous
          /\ previous.dev = f.dev /\ previous.tenant = f.tenant /\ previous.data.index # None
    <2> HIDE DEF f, s
    <2>1. previous # None => previous \in Previous(f)
        BY <1>1, Zenon DEF Latest
    <2> QED BY <2>1, Zenon DEF Previous
<1>f. f = frames[job.frame]
    OBVIOUS
<1> HIDE DEF f, s
<1>8. flow \in Flow \cup {None}
    BY <1>3, <1>6, FlowType
<1>9. flow # None => /\ previous # None /\ flow.hours >= s.least
                     /\ f.data.index = previous.data.index + flow.delta
                     /\ f.time = previous.time + flow.hours
                     /\ flow.delta >= 0 /\ flow.hours \in 1..MaxInterval
                     /\ Near(flow)
    BY <1>0, <1>3, <1>6, FlowFromPrevious, Zenon
<1> HIDE DEF flow
<1>10. /\ DOMAIN readings' = DOMAIN readings \cup {n}
       /\ \A i \in DOMAIN readings : readings'[i] = readings[i]
       /\ readings'[n] = [frame |-> job.frame, origin |-> "uplink", flow |-> flow]
    BY <1>0, <1>2, <1>4, <1>8, InsertReadingType
<1>11. readings'[n].frame = job.frame /\ readings'[n].flow = flow
    BY <1>10
<1>12. \A i \in DOMAIN readings : i \in 1..(n - 1)
    BY <1>0, SMT
<1>13. CASE flow = None
    BY <1>2, <1>10, <1>11, <1>13 DEF Measured
<1>14. CASE flow # None
    <2>1. PICK i \in DOMAIN readings :
              /\ frames[readings[i].frame] = previous
              /\ previous.dev = f.dev /\ previous.tenant = f.tenant /\ previous.data.index # None
        BY <1>7, <1>9, <1>14
    <2>2. i \in 1..(n - 1) /\ readings'[i] = readings[i]
        BY <1>10, <1>12
    <2>3. Measured(n)'
        <3>1. frames'[readings'[n].frame] = f /\ frames'[readings'[i].frame] = previous
            BY <1>2, <1>f, <1>11, <2>1, <2>2
        <3>2. readings'[n].flow.hours >= FromRow(SettingsOf[frames'[readings'[n].frame].tenant]).least
            BY <1>5, <1>9, <1>11, <1>14, <3>1
        <3>3. /\ frames'[readings'[i].frame].tenant = frames'[readings'[n].frame].tenant
              /\ frames'[readings'[i].frame].dev = frames'[readings'[n].frame].dev
              /\ frames'[readings'[i].frame].data.index # None
              /\ frames'[readings'[n].frame].data.index
                     = frames'[readings'[i].frame].data.index + readings'[n].flow.delta
              /\ frames'[readings'[n].frame].time
                     = frames'[readings'[i].frame].time + readings'[n].flow.hours
              /\ readings'[n].flow.delta >= 0 /\ readings'[n].flow.hours \in 1..MaxInterval
            BY <1>9, <1>11, <1>14, <2>1, <3>1
        <3>4. Near(readings'[n].flow)
            BY <1>9, <1>11, <1>14
        <3> QED BY <2>2, <3>2, <3>3, <3>4, Zenon DEF Measured, SameCase, FrameOf, Near
    <2> QED BY <1>2, <1>10, <2>3
<1> QED BY <1>13, <1>14

\* An imported reading has no flow.
LEMMA SyncReadingMeasures ==
    ASSUME IInv, SyncReading, NEW n, n = Len(readings) + 1
    PROVE  /\ DOMAIN readings' = DOMAIN readings \cup {n}
           /\ \A i \in DOMAIN readings : readings'[i] = readings[i]
           /\ frames' = frames
           /\ Measured(n)'
<1>0. TypeOK /\ Scope /\ job \in Job
    BY DEF IInv, TypeOK
<1>1. job.frame \in Nat /\ job.frame \in DOMAIN frames
    BY <1>0, JobShape DEF SyncReading, Scope
<1>2. job.frame \in Nat \ {0}
    BY <1>0, <1>1, SMT DEF TypeOK
<1>3. InsertReading(job.frame, "archive", None) /\ frames' = frames
    BY DEF SyncReading
<1>4. /\ DOMAIN readings' = DOMAIN readings \cup {n}
      /\ \A i \in DOMAIN readings : readings'[i] = readings[i]
      /\ readings'[n] = [frame |-> job.frame, origin |-> "archive", flow |-> None]
    BY <1>0, <1>2, <1>3, InsertReadingType
<1>5. readings'[n].flow = None
    BY <1>4
<1> QED BY <1>3, <1>4, <1>5 DEF Measured

\* A flow is measured between two stored readings of one meter and one tenant,
\* whatever fails, is lost, imported or handed over.
THEOREM FlowsAreMeasured == Spec => []FlowIsMeasured
<1>1. Init => FlowIsMeasured
    <2> SUFFICES ASSUME Init PROVE FlowIsMeasured
        OBVIOUS
    <2>1. DOMAIN readings = {}
        BY SMT DEF Init
    <2> QED BY <2>1 DEF FlowIsMeasured
<1>2. IInv /\ FlowIsMeasured /\ [Next]_vars => FlowIsMeasured'
    <2> SUFFICES ASSUME IInv, FlowIsMeasured, [Next]_vars PROVE FlowIsMeasured'
        OBVIOUS
    <2>0. TypeOK /\ readings \in Seq(Reading) /\ \A j \in DOMAIN readings : Measured(j)
        BY MeasuredIsAll DEF IInv, TypeOK
    <2> DEFINE Grown == /\ DOMAIN readings \subseteq DOMAIN readings'
                        /\ \A i \in DOMAIN readings : readings'[i] = readings[i]
                        /\ \A n \in DOMAIN frames : frames'[n] = frames[n]
                        /\ \A j \in DOMAIN readings' : j \in DOMAIN readings \/ Measured(j)'
    <2>1. Grown
        <3>1. CASE UNCHANGED <<readings, frames>>
            BY <3>1
        <3>2. ASSUME NEW d \in Device, Uplink(d) PROVE Grown
            <4>1. readings' = readings /\ \E f : frames' = Append(frames, f)
                BY <3>2, Zenon DEF Uplink
            <4>2. \A n \in DOMAIN frames : frames'[n] = frames[n]
                BY <2>0, <4>1, SMT DEF TypeOK
            <4> QED BY <4>1, <4>2
        <3>3. CASE WriteReading
            BY <3>3, WriteReadingMeasures, Zenon
        <3>4. CASE SyncReading
            BY <3>4, SyncReadingMeasures, Zenon
        <3> QED
            BY <3>1, <3>2, <3>3, <3>4
               DEF Next, HandlerStep, vars, Take, WriteMeter, WriteLeak, StartSync, SyncMeter,
                   ResolveLeakEvent, Fail, Crash, Restart
    <2>2. ASSUME NEW j \in DOMAIN readings' PROVE Measured(j)'
        <3>1. CASE j \in DOMAIN readings
            BY <2>0, <2>1, <3>1, MeasuredRemains
        <3> QED BY <2>1, <3>1
    <2>3. FlowIsMeasured' <=> \A j \in DOMAIN readings' : Measured(j)'
        BY Zenon DEF FlowIsMeasured, Measured
    <2> QED BY <2>2, <2>3
<1> QED BY <1>1, <1>2, Invariant, PTL DEF Spec

-----------------------------------------------------------------------------
(* The order in which frames are handled *)

InQueue(n) == \E i \in DOMAIN queue : queue[i] = n
Pending(n) == InQueue(n) \/ (job.step = "meter" /\ job.frame = n)

\* A row that the uplink handler stored for frame n.
IsRow(j, n) == readings[j].origin = "uplink" /\ readings[j].frame = n

\* Frames are handled in the order of their arrival, each at most once.
InTurn ==
    /\ \A i, k \in DOMAIN queue : i < k => queue[i] < queue[k]
    /\ job.step \in {"meter", "reading", "leaks"} => \A i \in DOMAIN queue : job.frame < queue[i]
    /\ \A j \in DOMAIN readings : readings[j].origin = "uplink" =>
          /\ \A i \in DOMAIN queue : readings[j].frame < queue[i]
          /\ job.step \in {"meter", "reading"} => readings[j].frame < job.frame
          /\ job.step = "leaks" => readings[j].frame <= job.frame

\* Until something fails the worker is up, every frame is archived, and the
\* frames behind one that waits or is taken wait as well.
NothingLost ==
    faults = 0 =>
        /\ up
        /\ \A n \in DOMAIN frames : frames[n].archived
        /\ \A i \in DOMAIN queue, m \in DOMAIN frames : m > queue[i] => InQueue(m)
        /\ job.step = "meter" => \A m \in DOMAIN frames : m > job.frame => InQueue(m)

LEMMA FramesAreNumbered ==
    ASSUME TypeOK
    PROVE  DOMAIN frames = 1..Len(frames) /\ Len(frames) \in Nat
BY DEF TypeOK

\* What an uplink appends.
LEMMA UplinkEffect ==
    ASSUME TypeOK, NEW d \in Device, Uplink(d)
    PROVE  /\ Len(frames') = Len(frames) + 1 /\ DOMAIN frames' = DOMAIN frames \cup {Len(frames) + 1}
           /\ \A n \in DOMAIN frames : frames'[n] = frames[n]
           /\ queue' \in {queue, Append(queue, Len(frames) + 1)}
           /\ faults' = 0 => /\ faults = 0 /\ frames'[Len(frames) + 1].archived
                             /\ up => queue' = Append(queue, Len(frames) + 1)
           /\ UNCHANGED <<up, job, meters, readings, leaks, syncs>>
<1>1. PICK f : /\ frames' = Append(frames, f)
               /\ \E heard \in BOOLEAN :
                     /\ queue' = IF up /\ heard THEN Append(queue, Len(frames')) ELSE queue
                     /\ IF f.archived /\ heard THEN UNCHANGED faults ELSE Fault
    <2>1. PICK t \in Tenant, p \in Payload, gap \in Gap, archived \in BOOLEAN, heard \in BOOLEAN :
          /\ frames' = Append(frames,
                [dev |-> d, tenant |-> t, data |-> p, archived |-> archived,
                 time |-> gap + IF frames = <<>> THEN 0 ELSE frames[Len(frames)].time])
          /\ queue' = IF up /\ heard THEN Append(queue, Len(frames')) ELSE queue
          /\ IF archived /\ heard THEN UNCHANGED faults ELSE Fault
        BY Zenon DEF Uplink
    <2> DEFINE f == [dev |-> d, tenant |-> t, data |-> p, archived |-> archived,
                     time |-> gap + IF frames = <<>> THEN 0 ELSE frames[Len(frames)].time]
    <2>2. f.archived = archived
        OBVIOUS
    <2>3. frames' = Append(frames, f)
        BY <2>1
    <2> HIDE DEF f
    <2> QED BY <2>1, <2>2, <2>3
<1>2. frames \in Seq(Frame) /\ faults \in Nat
    BY DEF TypeOK
<1>3. /\ Len(frames') = Len(frames) + 1 /\ DOMAIN frames' = DOMAIN frames \cup {Len(frames) + 1}
      /\ \A n \in DOMAIN frames : frames'[n] = frames[n]
      /\ frames'[Len(frames) + 1] = f
    BY <1>1, <1>2, SMT
<1>4. UNCHANGED <<up, job, meters, readings, leaks, syncs>>
    BY DEF Uplink
<1> QED BY <1>1, <1>2, <1>3, <1>4 DEF Fault

\* Without a fault the step before had none, and the handler was not ended.
LEMMA FaultsRemain ==
    ASSUME TypeOK, [Next]_vars, faults' = 0
    PROVE  faults = 0 /\ ~Fail /\ ~Crash
<1>1. faults \in Nat
    BY DEF TypeOK
<1>2. ASSUME NEW d \in Device, Uplink(d) PROVE faults = 0 /\ ~Fail /\ ~Crash
    BY <1>1, <1>2, UplinkEffect DEF Fail, Crash, Fault
<1>3. ~Fail /\ ~Crash
    BY <1>1 DEF Fail, Crash, Fault
<1> QED
    BY <1>2, <1>3
       DEF Next, HandlerStep, vars, Take, WriteMeter, WriteReading, WriteLeak, StartSync,
           SyncMeter, SyncReading, ResolveLeakEvent, Restart

LEMMA InTurnStep == ASSUME IInv, InTurn, [Next]_vars PROVE InTurn'
<1>0. TypeOK /\ Scope /\ job \in Job /\ queue \in Seq(Nat \ {0}) /\ readings \in Seq(Reading)
    BY DEF IInv, TypeOK
<1>i. Idle.step = "idle"
    BY IdleJob
<1>f. DOMAIN frames = 1..Len(frames) /\ Len(frames) \in Nat
    BY <1>0, FramesAreNumbered
<1>1. ASSUME NEW d \in Device, Uplink(d) PROVE InTurn'
    <2>1. queue' \in {queue, Append(queue, Len(frames) + 1)} /\ UNCHANGED <<job, readings>>
        BY <1>0, <1>1, UplinkEffect
    <2>2. CASE queue' = queue
        BY <2>1, <2>2 DEF InTurn
    <2>3. CASE queue' = Append(queue, Len(frames) + 1)
        <3>1. /\ DOMAIN queue' = 1..(Len(queue) + 1) /\ DOMAIN queue = 1..Len(queue)
              /\ Len(queue) \in Nat /\ queue'[Len(queue) + 1] = Len(frames) + 1
              /\ \A i \in DOMAIN queue : queue'[i] = queue[i]
            BY <1>0, <2>3, SMT
        <3>2. \A n \in DOMAIN frames : n < Len(frames) + 1
            BY <1>f
        <3>3. \A i \in DOMAIN queue' : i \in DOMAIN queue \/ i = Len(queue) + 1
            BY <3>1
        <3>4. \A i, k \in DOMAIN queue' : i < k => queue'[i] < queue'[k]
            <4> SUFFICES ASSUME NEW i \in DOMAIN queue', NEW k \in DOMAIN queue', i < k
                         PROVE  queue'[i] < queue'[k]
                OBVIOUS
            <4>1. i \in DOMAIN queue
                BY <3>1
            <4>2. CASE k \in DOMAIN queue
                BY <3>1, <4>1, <4>2 DEF InTurn
            <4>3. CASE k = Len(queue) + 1
                BY <1>0, <3>1, <3>2, <4>1, <4>3 DEF Scope
            <4> QED BY <3>3, <4>2, <4>3
        <3>5. job.step \in {"meter", "reading", "leaks"} =>
                  \A i \in DOMAIN queue' : job.frame < queue'[i]
            BY <1>0, <3>1, <3>2, <3>3 DEF InTurn, Scope
        <3>6. \A j \in DOMAIN readings : readings[j].origin = "uplink" =>
                  \A i \in DOMAIN queue' : readings[j].frame < queue'[i]
            BY <1>0, <3>1, <3>2, <3>3 DEF InTurn, Scope
        <3> QED BY <2>1, <3>4, <3>5, <3>6, Zenon DEF InTurn
    <2> QED BY <2>1, <2>2, <2>3
<1>2. CASE Take
    <2>1. /\ queue # <<>> /\ queue' = Tail(queue) /\ readings' = readings
          /\ job' = Idle \/ job' = [step |-> "meter", frame |-> Head(queue)]
        BY <1>2 DEF Take
    <2>2. /\ DOMAIN queue' = 1..(Len(queue) - 1) /\ DOMAIN queue = 1..Len(queue)
          /\ Len(queue) \in Nat \ {0} /\ Head(queue) = queue[1]
          /\ \A i \in 1..(Len(queue) - 1) : queue'[i] = queue[i + 1]
        BY <1>0, <2>1, SMT
    <2>3. \A i \in DOMAIN queue' : i + 1 \in DOMAIN queue /\ 1 < i + 1 /\ queue'[i] = queue[i + 1]
        BY <2>2
    <2>4. 1 \in DOMAIN queue
        BY <2>2
    <2>5. \A i, k \in DOMAIN queue' : i < k => queue'[i] < queue'[k]
        BY <2>2, <2>3 DEF InTurn
    <2>6. \A i \in DOMAIN queue' : Head(queue) < queue'[i]
        BY <2>2, <2>3, <2>4 DEF InTurn
    <2>7. \A j \in DOMAIN readings : readings[j].origin = "uplink" =>
              /\ \A i \in DOMAIN queue' : readings[j].frame < queue'[i]
              /\ readings[j].frame < Head(queue)
        BY <2>2, <2>3, <2>4 DEF InTurn
    <2>8. job'.step \in {"idle", "meter"} /\ (job'.step = "meter" => job'.frame = Head(queue))
        BY <1>i, <2>1
    <2> QED BY <2>1, <2>5, <2>6, <2>7, <2>8 DEF InTurn
<1>3. CASE WriteMeter
    <2>1. /\ job.step = "meter" /\ job'.step = "reading" /\ job'.frame = job.frame
          /\ UNCHANGED <<queue, readings>>
        BY <1>0, <1>3, JobShape DEF WriteMeter
    <2> QED BY <2>1 DEF InTurn
<1>4. CASE WriteReading
    <2>1. job.step = "reading" /\ job.frame \in Nat \ {0} /\ queue' = queue
        BY <1>0, <1>4, JobShape DEF WriteReading
    <2>2. PICK flow : InsertReading(job.frame, "uplink", flow)
        BY <1>4, Zenon DEF WriteReading
    <2>5. job'.step = "leaks" /\ job'.frame = job.frame
        BY <1>4 DEF WriteReading
    <2>3. \A j \in DOMAIN readings' :
              \/ j \in DOMAIN readings /\ readings'[j] = readings[j]
              \/ readings'[j].frame = job.frame
        BY <1>0, <2>2, SMT DEF InsertReading
    <2>4. \A j \in DOMAIN readings' : readings'[j].origin = "uplink" =>
              readings'[j].frame <= job.frame /\ \A i \in DOMAIN queue : readings'[j].frame < queue[i]
        <3> SUFFICES ASSUME NEW j \in DOMAIN readings', readings'[j].origin = "uplink"
                     PROVE  /\ readings'[j].frame <= job.frame
                            /\ \A i \in DOMAIN queue : readings'[j].frame < queue[i]
            OBVIOUS
        <3>1. CASE j \in DOMAIN readings /\ readings'[j] = readings[j]
            <4>1. readings[j].frame \in Nat
                <5>1. readings[j] \in Reading
                    BY <1>0, <3>1
                <5> QED BY <5>1 DEF Reading
            <4>2. /\ \A i \in DOMAIN queue : readings[j].frame < queue[i]
                  /\ readings[j].frame < job.frame
                BY <2>1, <3>1 DEF InTurn
            <4> QED BY <2>1, <3>1, <4>1, <4>2
        <3>2. CASE readings'[j].frame = job.frame
            BY <2>1, <3>2 DEF InTurn
        <3> QED BY <2>3, <3>1, <3>2
    <2> QED BY <2>1, <2>4, <2>5 DEF InTurn
<1>5. CASE SyncReading
    <2>1. job' = [step |-> "sync_meter", frame |-> 0, todo |-> job.todo] /\ queue' = queue
        BY <1>5 DEF SyncReading
    <2>2. \A j \in DOMAIN readings' :
              \/ j \in DOMAIN readings /\ readings'[j] = readings[j]
              \/ readings'[j].origin = "archive"
        BY <1>0, <1>5, SMT DEF SyncReading, InsertReading
    <2> QED BY <2>1, <2>2 DEF InTurn
<1>6. ASSUME UNCHANGED <<queue, readings>>,
             \/ job'.step \notin {"meter", "reading", "leaks"}
             \/ job'.step = job.step /\ job'.frame = job.frame
      PROVE  InTurn'
    BY <1>6 DEF InTurn
<1>7. CASE WriteLeak
    <2>1. CASE job' = Idle
        BY <1>6, <1>7, <1>i, <2>1 DEF WriteLeak
    <2>2. CASE \E type : job' = [job EXCEPT !.todo = @ \ {type}]
        <3>1. job'.step = job.step /\ job'.frame = job.frame
            BY <1>0, <1>7, <2>2, JobShape DEF WriteLeak
        <3> QED BY <1>6, <1>7, <3>1 DEF WriteLeak
    <2> QED BY <1>7, <2>1, <2>2 DEF WriteLeak
<1>8. CASE \E t \in Tenant : StartSync(t)
    <2>1. UNCHANGED <<queue, readings>> /\ job'.step = "sync_meter"
        BY <1>8 DEF StartSync
    <2> QED BY <1>6, <2>1
<1>9. CASE SyncMeter
    <2>1. UNCHANGED <<queue, readings>> /\ job'.step \in {"idle", "sync_reading"}
        BY <1>9, <1>i DEF SyncMeter
    <2> QED BY <1>6, <2>1
<1>10. CASE Crash
    <2>1. DOMAIN queue' = {} /\ readings' = readings /\ job'.step = "idle"
        BY <1>10, <1>i, SMT DEF Crash
    <2> QED BY <2>1 DEF InTurn
<1>11. CASE Fail
    BY <1>6, <1>11, <1>i DEF Fail
<1>12. CASE Restart \/ UNCHANGED vars \/ \E i \in DOMAIN leaks, s \in {"resolved", "false_positive"} :
                                              ResolveLeakEvent(i, s)
    <2>1. UNCHANGED <<queue, readings, job>>
        BY <1>12 DEF Restart, vars, ResolveLeakEvent
    <2> QED BY <1>6, <2>1
<1> QED
    BY <1>1, <1>2, <1>3, <1>4, <1>5, <1>7, <1>8, <1>9, <1>10, <1>11, <1>12 DEF Next, HandlerStep

LEMMA NothingLostStep == ASSUME IInv, InTurn, NothingLost, [Next]_vars PROVE NothingLost'
<1> SUFFICES ASSUME faults' = 0 PROVE NothingLost'
    BY DEF NothingLost
<1>0. TypeOK /\ job \in Job /\ queue \in Seq(Nat \ {0})
    BY DEF IInv, TypeOK
<1>i. Idle.step = "idle"
    BY IdleJob
<1>a. faults = 0 /\ ~Fail /\ ~Crash
    BY <1>0, FaultsRemain
<1>b. /\ up /\ \A n \in DOMAIN frames : frames[n].archived
      /\ \A i \in DOMAIN queue, m \in DOMAIN frames : m > queue[i] => InQueue(m)
      /\ job.step = "meter" => \A m \in DOMAIN frames : m > job.frame => InQueue(m)
    BY <1>a DEF NothingLost
<1>f. DOMAIN frames = 1..Len(frames) /\ Len(frames) \in Nat
    BY <1>0, FramesAreNumbered
<1>1. ASSUME NEW d \in Device, Uplink(d) PROVE NothingLost'
    <2>1. /\ DOMAIN frames' = DOMAIN frames \cup {Len(frames) + 1}
          /\ \A n \in DOMAIN frames : frames'[n] = frames[n]
          /\ frames'[Len(frames) + 1].archived
          /\ queue' = Append(queue, Len(frames) + 1) /\ UNCHANGED <<up, job>>
        BY <1>0, <1>1, <1>b, UplinkEffect
    <2>2. /\ DOMAIN queue' = DOMAIN queue \cup {Len(queue) + 1}
          /\ queue'[Len(queue) + 1] = Len(frames) + 1
          /\ \A i \in DOMAIN queue : queue'[i] = queue[i]
        BY <1>0, <2>1, SMT
    <2>3. \A m : InQueue(m) => InQueue(m)'
        BY <2>2 DEF InQueue
    <2>4. \A m : m = Len(frames) + 1 => InQueue(m)'
        BY <2>2 DEF InQueue
    <2>5. \A i \in DOMAIN queue', m \in DOMAIN frames' : m > queue'[i] => InQueue(m)'
        BY <1>b, <1>f, <2>1, <2>2, <2>3, <2>4
    <2>6. job.step = "meter" => \A m \in DOMAIN frames' : m > job.frame => InQueue(m)'
        BY <1>b, <2>1, <2>3, <2>4
    <2>7. \A n \in DOMAIN frames' : frames'[n].archived
        BY <1>b, <2>1
    <2> QED BY <1>b, <2>1, <2>5, <2>6, <2>7, Zenon DEF NothingLost
<1>2. CASE Take
    <2>1. /\ queue # <<>> /\ queue' = Tail(queue) /\ UNCHANGED <<frames, up>>
          /\ job' = Idle \/ job' = [step |-> "meter", frame |-> Head(queue)]
        BY <1>2 DEF Take
    <2>2. /\ DOMAIN queue' = 1..(Len(queue) - 1) /\ DOMAIN queue = 1..Len(queue)
          /\ Len(queue) \in Nat \ {0} /\ Head(queue) = queue[1]
          /\ \A i \in 1..(Len(queue) - 1) : queue'[i] = queue[i + 1]
        BY <1>0, <2>1, SMT
    <2>3. \A m : InQueue(m) /\ m # queue[1] => InQueue(m)'
        <3>1. ASSUME NEW k \in DOMAIN queue, k # 1
              PROVE  k - 1 \in DOMAIN queue' /\ queue'[k - 1] = queue[k]
            BY <2>2, <3>1
        <3> QED BY <3>1 DEF InQueue
    <2>4. \A i \in DOMAIN queue' : i + 1 \in DOMAIN queue /\ queue'[i] = queue[i + 1]
                                   /\ queue[1] < queue[i + 1]
        BY <2>2 DEF InTurn
    <2>5. 1 \in DOMAIN queue /\ \A i \in DOMAIN queue : queue[i] \in Nat
        BY <1>0, <2>2
    <2>6. \A i \in DOMAIN queue', m \in DOMAIN frames : m > queue'[i] => InQueue(m)'
        BY <1>b, <1>f, <2>3, <2>4, <2>5
    <2>7. \A m \in DOMAIN frames : m > queue[1] => InQueue(m)'
        BY <1>b, <1>f, <2>3, <2>5
    <2>8. job'.step = "meter" => job'.frame = queue[1]
        BY <1>i, <2>1, <2>2
    <2> QED BY <1>b, <2>1, <2>6, <2>7, <2>8 DEF NothingLost
<1>3. ASSUME UNCHANGED <<frames, queue, up>>, job'.step # "meter" \/ job' = job PROVE NothingLost'
    BY <1>b, <1>3 DEF NothingLost, InQueue
<1>4. CASE WriteMeter \/ WriteReading \/ SyncReading
    <2>1. UNCHANGED <<frames, queue, up>> /\ job'.step # "meter"
        <3>1. CASE WriteMeter
            BY <1>0, <3>1, JobShape DEF WriteMeter
        <3>2. CASE WriteReading
            BY <3>2 DEF WriteReading
        <3>3. CASE SyncReading
            BY <3>3 DEF SyncReading
        <3> QED BY <1>4, <3>1, <3>2, <3>3
    <2> QED BY <1>3, <2>1
<1>5. CASE WriteLeak
    <2>1. CASE job' = Idle
        BY <1>3, <1>5, <1>i, <2>1 DEF WriteLeak
    <2>2. CASE \E type : job' = [job EXCEPT !.todo = @ \ {type}]
        <3>1. job'.step = "leaks"
            BY <1>0, <1>5, <2>2, JobShape DEF WriteLeak
        <3> QED BY <1>3, <1>5, <3>1 DEF WriteLeak
    <2> QED BY <1>5, <2>1, <2>2 DEF WriteLeak
<1>6. CASE SyncMeter \/ \E t \in Tenant : StartSync(t)
    <2>1. UNCHANGED <<frames, queue, up>> /\ job'.step # "meter"
        BY <1>6, <1>i DEF SyncMeter, StartSync
    <2> QED BY <1>3, <2>1
<1>7. CASE UNCHANGED vars \/ \E i \in DOMAIN leaks, s \in {"resolved", "false_positive"} :
                                 ResolveLeakEvent(i, s)
    BY <1>3, <1>7 DEF vars, ResolveLeakEvent
<1>8. ~Restart
    BY <1>b DEF Restart
<1> QED
    BY <1>a, <1>1, <1>2, <1>4, <1>5, <1>6, <1>7, <1>8 DEF Next, HandlerStep

-----------------------------------------------------------------------------
(* What a reading shows is filed *)

Filed(n, t) ==
    \E i \in DOMAIN leaks : /\ SameCase(leaks[i].frame, n)
                            /\ leaks[i].type = t /\ leaks[i].frame >= n

\* What a reading shows is on file, or its handler has still to file it.
Filing ==
    faults = 0 =>
        \A n \in DOMAIN frames : (\E j \in DOMAIN readings : IsRow(j, n)) =>
            \A t \in Reported(n) :
                Filed(n, t) \/ (job.step = "leaks" /\ job.frame = n /\ t \in job.todo)

SettingsFor(f) == FromRow(SettingsOf[f.tenant])

AlarmShows(f, t) == t \in Alarm /\ SettingsFor(f).enabled /\ t \in f.data.alarms

FlowShows(f, flow, t) ==
    /\ flow # None /\ flow.rate > 0
    /\ LET s == SettingsFor(f)
       IN  \/ t = "flow_with_valve_closed" /\ f.data.valve = FALSE /\ flow.rate >= s.flow
           \/ t = "high_continuous_flow" /\ f.data.valve # FALSE /\ flow.rate >= s.flow
           \/ /\ t = "night_flow" /\ flow.rate >= s.night
              /\ IsNightHour(f.time % 24, s.start, s.end)

\* The report of a frame, by alarm and by row.
ByRow ==
    \A n, t : t \in Reported(n) <=>
        \/ AlarmShows(frames[n], t)
        \/ \E j \in DOMAIN readings : IsRow(j, n) /\ FlowShows(frames[n], readings[j].flow, t)

LEMMA ReportedBy == ByRow
<1> SUFFICES ASSUME NEW n, NEW t
             PROVE  t \in Reported(n) <=>
                        \/ AlarmShows(frames[n], t)
                        \/ \E j \in DOMAIN readings :
                               IsRow(j, n) /\ FlowShows(frames[n], readings[j].flow, t)
    BY DEF ByRow
<1> DEFINE f == frames[n]
           s == SettingsFor(f)
           flow(k) == \E j \in DOMAIN readings :
                         /\ readings[j].frame = n /\ readings[j].origin = "uplink"
                         /\ readings[j].flow # None /\ readings[j].flow.rate > 0
                         /\ readings[j].flow.rate >= k
           night == IsNightHour(f.time % 24, s.start, s.end)
<1>1. t \in Reported(n) <=>
          \/ t \in Alarm /\ s.enabled /\ t \in f.data.alarms
          \/ /\ t \in Computed
             /\ CASE t = "flow_with_valve_closed" -> f.data.valve = FALSE /\ flow(s.flow)
                  [] t = "high_continuous_flow" -> f.data.valve # FALSE /\ flow(s.flow)
                  [] t = "night_flow" -> flow(s.night) /\ night
    BY Zenon DEF Reported, SettingsFor
<1>2. (\E j \in DOMAIN readings : IsRow(j, n) /\ FlowShows(f, readings[j].flow, t)) <=>
          \/ t = "flow_with_valve_closed" /\ f.data.valve = FALSE /\ flow(s.flow)
          \/ t = "high_continuous_flow" /\ f.data.valve # FALSE /\ flow(s.flow)
          \/ t = "night_flow" /\ flow(s.night) /\ night
    BY Zenon DEF IsRow, FlowShows
<1>3. AlarmShows(f, t) <=> t \in Alarm /\ s.enabled /\ t \in f.data.alarms
    BY DEF AlarmShows
<1> HIDE DEF f, s, flow, night
<1>4. (/\ t \in Computed
       /\ CASE t = "flow_with_valve_closed" -> f.data.valve = FALSE /\ flow(s.flow)
            [] t = "high_continuous_flow" -> f.data.valve # FALSE /\ flow(s.flow)
            [] t = "night_flow" -> flow(s.night) /\ night)
      <=> \/ t = "flow_with_valve_closed" /\ f.data.valve = FALSE /\ flow(s.flow)
          \/ t = "high_continuous_flow" /\ f.data.valve # FALSE /\ flow(s.flow)
          \/ t = "night_flow" /\ flow(s.night) /\ night
    BY DEF Computed
<1> QED BY <1>1, <1>2, <1>3, <1>4 DEF f

LEMMA ReportedByNext == ByRow'
BY ReportedBy, PTL

\* The handler looks for all that its reading shows.
LEMMA ShownIsDetected ==
    ASSUME NEW f, NEW flow \in Flow \cup {None}, NEW t,
           flow # None => SettingsFor(f).enabled,
           AlarmShows(f, t) \/ FlowShows(f, flow, t)
    PROVE  t \in DetectLeaks(f, flow, SettingsFor(f))
<1> DEFINE s == SettingsFor(f)
<1>1. CASE AlarmShows(f, t)
    BY <1>1, Zenon DEF AlarmShows, DetectLeaks
<1>2. CASE FlowShows(f, flow, t)
    <2>1. s.enabled /\ flow # None /\ flow.rate # 0
        BY <1>2 DEF FlowShows, Flow
    <2>2. \/ t = "flow_with_valve_closed" /\ f.data.valve = FALSE /\ flow.rate >= s.flow
          \/ t = "high_continuous_flow" /\ f.data.valve # FALSE /\ flow.rate >= s.flow
          \/ /\ t = "night_flow" /\ flow.rate >= s.night
             /\ IsNightHour(f.time % 24, s.start, s.end)
        BY <1>2, Zenon DEF FlowShows
    <2>3. DetectLeaks(f, flow, s) =
              f.data.alarms
                \cup {k \in {IF f.data.valve = FALSE THEN "flow_with_valve_closed"
                                                     ELSE "high_continuous_flow"} :
                         flow.rate >= s.flow}
                \cup {k \in {"night_flow"} : /\ IsNightHour(f.time % 24, s.start, s.end)
                                             /\ flow.rate >= s.night}
        <3> HIDE DEF s
        <3> QED BY <2>1, Zenon DEF DetectLeaks
    <2> HIDE DEF s
    <2>4. t \in DetectLeaks(f, flow, s)
        BY <2>2, <2>3
    <2> QED BY <2>4 DEF s
<1> QED BY <1>1, <1>2

\* The report of a frame rests on its rows: without a new one it stays.
LEMMA ReportRemains ==
    ASSUME NEW n, frames'[n] = frames[n],
           \A j \in DOMAIN readings' : IsRow(j, n)' =>
               j \in DOMAIN readings /\ IsRow(j, n) /\ readings'[j] = readings[j],
           NEW t, t \in Reported(n)'
    PROVE  t \in Reported(n)
<1>1. \/ AlarmShows(frames'[n], t)
      \/ \E j \in DOMAIN readings' : IsRow(j, n)' /\ FlowShows(frames'[n], readings'[j].flow, t)
    BY ReportedByNext DEF ByRow, AlarmShows, SettingsFor, FlowShows, IsNightHour
<1>2. \/ AlarmShows(frames[n], t)
      \/ \E j \in DOMAIN readings : IsRow(j, n) /\ FlowShows(frames[n], readings[j].flow, t)
    BY <1>1
<1> QED BY <1>2, ReportedBy DEF ByRow

\* An event stays on file when it is renewed with a later frame of its case.
LEMMA FiledRemains ==
    ASSUME TypeOK, Scope, NEW n \in DOMAIN frames, NEW t, Filed(n, t),
           \A m \in DOMAIN frames : frames'[m] = frames[m],
           \A i \in DOMAIN leaks :
               /\ i \in DOMAIN leaks' /\ leaks'[i].type = leaks[i].type
               /\ leaks'[i].frame \in DOMAIN frames /\ leaks'[i].frame >= leaks[i].frame
               /\ frames[leaks'[i].frame].tenant = frames[leaks[i].frame].tenant
               /\ frames[leaks'[i].frame].dev = frames[leaks[i].frame].dev
    PROVE  Filed(n, t)'
<1>1. PICK i \in DOMAIN leaks : /\ SameCase(leaks[i].frame, n)
                                /\ leaks[i].type = t /\ leaks[i].frame >= n
    BY DEF Filed
<1>2. /\ frames'[leaks'[i].frame].tenant = frames'[n].tenant
      /\ frames'[leaks'[i].frame].dev = frames'[n].dev
    BY <1>1 DEF SameCase
<1>3. n \in Nat /\ leaks[i].frame \in Nat /\ leaks'[i].frame \in Nat
    BY FramesAreNumbered DEF Scope
<1>4. leaks'[i].frame >= n
    BY <1>1, <1>3
<1> QED BY <1>1, <1>2, <1>4 DEF Filed, SameCase

\* Filing a leak puts it on file and renews events of its case only.
LEMMA UpsertLeakFiles ==
    ASSUME TypeOK, NEW n \in Nat \ {0}, NEW type, NEW flow, UpsertLeakEvent(n, type, flow)
    PROVE  /\ \E i \in DOMAIN leaks' : leaks'[i].frame = n /\ leaks'[i].type = type
           /\ \A i \in DOMAIN leaks :
                 /\ i \in DOMAIN leaks' /\ leaks'[i].type = leaks[i].type
                 /\ \/ leaks'[i].frame = leaks[i].frame
                    \/ leaks'[i].frame = n /\ SameCase(leaks[i].frame, n)
<1> DEFINE active == {i \in DOMAIN leaks : /\ SameCase(leaks[i].frame, n)
                                           /\ leaks[i].type = type /\ leaks[i].status = "active"}
           new == [frame |-> n, type |-> type, flow |-> flow, status |-> "active"]
<1>1. leaks' = IF active = {} THEN Append(leaks, new)
               ELSE [i \in DOMAIN leaks |-> IF i \in active THEN new ELSE leaks[i]]
    BY DEF UpsertLeakEvent
<1>2. leaks \in Seq(Leak) /\ new.frame = n /\ new.type = type
    BY DEF TypeOK
<1>3. \A i \in active : /\ i \in DOMAIN leaks /\ leaks[i].type = type
                        /\ SameCase(leaks[i].frame, n)
    OBVIOUS
<1> HIDE DEF active, new
<1>4. CASE active = {}
    <2>1. leaks' = Append(leaks, new)
        BY <1>1, <1>4
    <2>2. /\ DOMAIN leaks' = DOMAIN leaks \cup {Len(leaks) + 1}
          /\ \A i \in DOMAIN leaks : leaks'[i] = leaks[i]
          /\ leaks'[Len(leaks) + 1] = new
        BY <1>2, <2>1, SMT
    <2> QED BY <1>2, <2>2
<1>5. CASE active # {}
    <2>1. leaks' = [i \in DOMAIN leaks |-> IF i \in active THEN new ELSE leaks[i]]
        BY <1>1, <1>5
    <2>2. /\ DOMAIN leaks' = DOMAIN leaks
          /\ \A i \in DOMAIN leaks : leaks'[i] = IF i \in active THEN new ELSE leaks[i]
        BY <2>1
    <2> QED BY <1>2, <1>3, <1>5, <2>2, Zenon
<1> QED BY <1>4, <1>5

LEMMA FilingStep == ASSUME IInv, InTurn, Filing, [Next]_vars PROVE Filing'
<1> SUFFICES ASSUME faults' = 0 PROVE Filing'
    BY DEF Filing
<1>0. TypeOK /\ Scope /\ JobRestsOnReading /\ LeakRestsOnReading /\ job \in Job
    BY DEF IInv, TypeOK
<1>i. Idle.step = "idle"
    BY IdleJob
<1>a. faults = 0 /\ ~Fail /\ ~Crash
    BY <1>0, FaultsRemain
<1> DEFINE Rows(n) == \E j \in DOMAIN readings : IsRow(j, n)
           Due(n, t) == job.step = "leaks" /\ job.frame = n /\ t \in job.todo
<1>b. \A n \in DOMAIN frames : Rows(n) => \A t \in Reported(n) : Filed(n, t) \/ Due(n, t)
    BY <1>a DEF Filing
\* The steps that store no uplink row and file no leak.
<1>1. ASSUME \A n \in DOMAIN frames : frames'[n] = frames[n],
             \A j \in DOMAIN readings' : readings'[j].origin = "uplink" =>
                 /\ j \in DOMAIN readings /\ readings'[j] = readings[j],
             DOMAIN leaks' = DOMAIN leaks,
             \A i \in DOMAIN leaks : leaks'[i].type = leaks[i].type /\ leaks'[i].frame = leaks[i].frame,
             \A n, t : Due(n, t) => Due(n, t)'
      PROVE  Filing'
    <2> SUFFICES ASSUME NEW n \in DOMAIN frames', Rows(n)', NEW t \in Reported(n)'
                 PROVE  Filed(n, t)' \/ Due(n, t)'
        BY Zenon DEF Filing
    <2>1. \A j \in DOMAIN readings' : IsRow(j, n)' =>
              j \in DOMAIN readings /\ IsRow(j, n) /\ readings'[j] = readings[j]
        BY <1>1 DEF IsRow
    <2>2. Rows(n) /\ n \in DOMAIN frames
        BY <1>0, <2>1 DEF IsRow, Scope
    <2>3. t \in Reported(n)
        BY <1>1, <2>1, <2>2, ReportRemains
    <2>4. CASE Due(n, t)
        BY <1>1, <2>4
    <2>5. CASE Filed(n, t)
        <3>1. \A i \in DOMAIN leaks : leaks[i].frame \in DOMAIN frames /\ leaks[i].frame \in Nat
            BY <1>0, FramesAreNumbered DEF Scope
        <3>2. \A i \in DOMAIN leaks :
                  /\ i \in DOMAIN leaks' /\ leaks'[i].type = leaks[i].type
                  /\ leaks'[i].frame \in DOMAIN frames /\ leaks'[i].frame >= leaks[i].frame
                  /\ frames[leaks'[i].frame].tenant = frames[leaks[i].frame].tenant
                  /\ frames[leaks'[i].frame].dev = frames[leaks[i].frame].dev
            BY <1>1, <3>1
        <3> QED BY <1>0, <1>1, <2>2, <2>5, <3>2, FiledRemains
    <2> QED BY <1>b, <2>2, <2>3, <2>4, <2>5
\* The steps between which nothing is filed.
<1>2. ASSUME UNCHANGED <<readings, leaks>>, job.step # "leaks" \/ job' = job,
             \A n \in DOMAIN frames : frames'[n] = frames[n]
      PROVE  Filing'
    BY <1>1, <1>2
<1>3. ASSUME NEW d \in Device, Uplink(d) PROVE Filing'
    BY <1>0, <1>2, <1>3, UplinkEffect
<1>4. CASE Take \/ WriteMeter \/ SyncMeter \/ Restart \/ UNCHANGED vars \/ \E t \in Tenant : StartSync(t)
    <2>1. UNCHANGED <<frames, readings, leaks>> /\ (job.step # "leaks" \/ job' = job)
        BY <1>4, <1>i DEF Take, WriteMeter, SyncMeter, Restart, vars, StartSync
    <2> QED BY <1>2, <2>1
<1>5. CASE SyncReading
    <2>1. \A j \in DOMAIN readings' :
              \/ j \in DOMAIN readings /\ readings'[j] = readings[j]
              \/ readings'[j].origin = "archive"
        BY <1>0, <1>5, SMT DEF SyncReading, InsertReading, TypeOK
    <2>2. UNCHANGED <<frames, leaks>> /\ job.step # "leaks"
        BY <1>5 DEF SyncReading
    <2> QED BY <1>1, <2>1, <2>2
<1>6. ASSUME NEW i \in DOMAIN leaks, NEW s \in {"resolved", "false_positive"},
             ResolveLeakEvent(i, s)
      PROVE  Filing'
    <2>1. UNCHANGED <<frames, readings, job>> /\ leaks' = [leaks EXCEPT ![i].status = s]
        BY <1>6 DEF ResolveLeakEvent
    <2>2. leaks \in Seq(Leak)
        BY <1>0 DEF TypeOK
    <2>3. /\ DOMAIN leaks' = DOMAIN leaks
          /\ \A k \in DOMAIN leaks : leaks'[k].frame = leaks[k].frame /\ leaks'[k].type = leaks[k].type
        BY <2>1, <2>2, SMT DEF Leak
    <2> QED BY <1>1, <2>1, <2>3
<1>7. CASE WriteReading
    <2> DEFINE f == frames[job.frame]
    <2>1. PICK previous \in Latest(Previous(f)) :
              /\ InsertReading(job.frame, "uplink", DetectFlow(f, previous, SettingsFor(f)))
              /\ job' = [step |-> "leaks", frame |-> job.frame,
                         flow |-> DetectFlow(f, previous, SettingsFor(f)),
                         todo |-> DetectLeaks(f, DetectFlow(f, previous, SettingsFor(f)), SettingsFor(f))]
        BY <1>7, Zenon DEF WriteReading, SettingsFor
    <2> DEFINE flow == DetectFlow(f, previous, SettingsFor(f))
               todo == DetectLeaks(f, flow, SettingsFor(f))
    <2>2. /\ job.step = "reading" /\ job.frame \in Nat \ {0} /\ job.frame \in DOMAIN frames
          /\ UNCHANGED <<frames, leaks>>
        BY <1>0, <1>7, JobShape DEF WriteReading, Scope
    <2>3. f \in Frame
        BY <1>0, <2>2 DEF TypeOK
    <2>4. flow \in Flow \cup {None}
        <3>1. previous \in Frame \cup {None} /\ (previous # None => previous.data.index # None)
            BY <1>0, <2>1, PreviousType
        <3> QED BY <2>3, <3>1, FlowType
    <2>5. flow # None => SettingsFor(f).enabled
        BY Zenon DEF DetectFlow
    <2>6. /\ DOMAIN readings' = DOMAIN readings \cup {Len(readings) + 1}
          /\ \A j \in DOMAIN readings : readings'[j] = readings[j]
          /\ readings'[Len(readings) + 1] = [frame |-> job.frame, origin |-> "uplink", flow |-> flow]
        BY <1>0, <2>1, <2>2, <2>4, InsertReadingType
    <2>7. job'.step = "leaks" /\ job'.frame = job.frame /\ job'.todo = todo
        BY <2>1
    <2> HIDE DEF flow, todo
    <2>8. ASSUME NEW n \in DOMAIN frames, Rows(n)', NEW t \in Reported(n)', n = job.frame
          PROVE  Due(n, t)'
        <3>1. \A j \in DOMAIN readings' : IsRow(j, n)' => readings'[j].flow = flow
            <4> SUFFICES ASSUME NEW j \in DOMAIN readings', IsRow(j, n)' PROVE readings'[j].flow = flow
                OBVIOUS
            <4>1. j \notin DOMAIN readings
                <5> SUFFICES ASSUME j \in DOMAIN readings PROVE FALSE
                    OBVIOUS
                <5>1. readings[j].origin = "uplink" /\ readings[j].frame = job.frame
                    BY <2>6, <2>8 DEF IsRow
                <5> QED BY <2>2, <5>1 DEF InTurn
            <4> QED BY <2>6, <4>1
        <3>2. AlarmShows(f, t) \/ FlowShows(f, flow, t)
            <4>1. \/ AlarmShows(frames'[n], t)
                  \/ \E j \in DOMAIN readings' : IsRow(j, n)' /\ FlowShows(frames'[n], readings'[j].flow, t)
                BY ReportedByNext DEF ByRow, AlarmShows, SettingsFor, FlowShows, IsNightHour
            <4> QED BY <2>2, <2>8, <3>1, <4>1
        <3>3. t \in todo
            BY <2>4, <2>5, <3>2, ShownIsDetected DEF todo
        <3> QED BY <2>7, <2>8, <3>3
    <2>9. ASSUME NEW n \in DOMAIN frames, Rows(n)', NEW t \in Reported(n)', n # job.frame
          PROVE  Filed(n, t)'
        <3>1. \A j \in DOMAIN readings' : IsRow(j, n)' =>
                  j \in DOMAIN readings /\ IsRow(j, n) /\ readings'[j] = readings[j]
            BY <2>6, <2>9 DEF IsRow
        <3>2. Rows(n)
            BY <2>9, <3>1
        <3>3. t \in Reported(n)
            BY <2>2, <2>9, <3>1, ReportRemains
        <3>4. Filed(n, t)
            BY <1>b, <2>2, <3>2, <3>3
        <3> QED BY <2>2, <3>4 DEF Filed, SameCase
    <2> QED BY <2>2, <2>8, <2>9 DEF Filing
<1>8. CASE WriteLeak
    <2>0. /\ job.step = "leaks" /\ job.frame \in Nat \ {0} /\ job.frame \in DOMAIN frames
          /\ UNCHANGED <<frames, readings>>
        BY <1>0, <1>8, JobShape DEF WriteLeak, Scope
    <2>1. CASE job.todo = {}
        <3>1. \A n, t : ~Due(n, t)
            BY <2>1
        <3> QED BY <1>1, <1>8, <2>0, <2>1, <3>1 DEF WriteLeak
    <2>2. CASE job.todo # {}
        <3>1. PICK type \in job.todo : /\ UpsertLeakEvent(job.frame, type, job.flow)
                                       /\ job' = [job EXCEPT !.todo = @ \ {type}]
            BY <1>8, <2>2, Zenon DEF WriteLeak
        <3>2. /\ \E i \in DOMAIN leaks' : leaks'[i].frame = job.frame /\ leaks'[i].type = type
              /\ \A i \in DOMAIN leaks :
                    /\ i \in DOMAIN leaks' /\ leaks'[i].type = leaks[i].type
                    /\ \/ leaks'[i].frame = leaks[i].frame
                       \/ leaks'[i].frame = job.frame /\ SameCase(leaks[i].frame, job.frame)
            BY <1>0, <2>0, <3>1, UpsertLeakFiles
        <3>3. \A i \in DOMAIN leaks : /\ leaks[i].frame \in DOMAIN frames /\ leaks[i].frame \in Nat
                                      /\ leaks[i].frame <= job.frame
            <4> SUFFICES ASSUME NEW i \in DOMAIN leaks
                         PROVE  /\ leaks[i].frame \in DOMAIN frames /\ leaks[i].frame \in Nat
                                /\ leaks[i].frame <= job.frame
                OBVIOUS
            <4>1. PICK j \in DOMAIN readings :
                      readings[j].frame = leaks[i].frame /\ readings[j].origin = "uplink"
                BY <1>0 DEF LeakRestsOnReading
            <4> QED BY <1>0, <2>0, <4>1, FramesAreNumbered DEF InTurn, Scope
        <3>4. job' \in [step : {"leaks"}, frame : Nat \ {0}, flow : Flow \cup {None},
                        todo : SUBSET (Alarm \cup Computed)]
              /\ job'.frame = job.frame /\ job'.todo = job.todo \ {type}
            BY <1>0, <2>0, <3>1, JobShape
        <3>5. ASSUME NEW n \in DOMAIN frames, Rows(n)', NEW t \in Reported(n)'
              PROVE  Filed(n, t)' \/ Due(n, t)'
            <4>1. t \in Reported(n) /\ Rows(n)
                <5>1. \A j \in DOMAIN readings' : IsRow(j, n)' =>
                          j \in DOMAIN readings /\ IsRow(j, n) /\ readings'[j] = readings[j]
                    BY <2>0 DEF IsRow
                <5> QED BY <2>0, <3>5, <5>1, ReportRemains
            <4>2. CASE Filed(n, t)
                <5>1. \A i \in DOMAIN leaks :
                          /\ i \in DOMAIN leaks' /\ leaks'[i].type = leaks[i].type
                          /\ leaks'[i].frame \in DOMAIN frames /\ leaks'[i].frame >= leaks[i].frame
                          /\ frames[leaks'[i].frame].tenant = frames[leaks[i].frame].tenant
                          /\ frames[leaks'[i].frame].dev = frames[leaks[i].frame].dev
                    BY <2>0, <3>2, <3>3 DEF SameCase
                <5> QED BY <1>0, <2>0, <4>2, <5>1, FiledRemains
            <4>3. CASE Due(n, t) /\ t # type
                BY <3>4, <4>3
            <4>4. CASE Due(n, t) /\ t = type
                <5>1. PICK i \in DOMAIN leaks' : leaks'[i].frame = n /\ leaks'[i].type = t
                    BY <3>2, <4>4
                <5>2. n >= n
                    BY <2>0, <4>4
                <5> QED BY <5>1, <5>2 DEF Filed, SameCase
            <4> QED BY <1>b, <4>1, <4>2, <4>3, <4>4
        <3> QED BY <2>0, <3>5 DEF Filing
    <2> QED BY <2>1, <2>2
<1> QED
    BY <1>a, <1>3, <1>4, <1>5, <1>6, <1>7, <1>8 DEF Next, HandlerStep

-----------------------------------------------------------------------------
(* A meter shows its newest values *)

Field == {"index", "valve"}
ValueOf(record, field) == IF field = "index" THEN record.index ELSE record.valve

Carries(n, d, field) == frames[n].dev = d /\ ValueOf(frames[n].data, field) # None
IsLast(n, d, field) ==
    /\ n \in DOMAIN frames /\ Carries(n, d, field)
    /\ \A m \in DOMAIN frames : Carries(m, d, field) => m <= n

\* One of the frames of a device that carry a field is the last.
LastExists ==
    \A d \in Device, field \in Field, m \in DOMAIN frames :
        Carries(m, d, field) => \E n \in DOMAIN frames : IsLast(n, d, field)

OneTenant(d) ==
    \A m, n \in DOMAIN frames :
        frames[m].dev = d /\ frames[n].dev = d => frames[m].tenant = frames[n].tenant

\* A meter shows the last value its frames carry unless the frame is pending.
Shown(d) ==
    \A field \in Field :
        /\ \A n \in DOMAIN frames : IsLast(n, d, field) =>
              \/ Pending(n)
              \/ meters[d] # None /\ ValueOf(meters[d], field) = ValueOf(frames[n].data, field)
        /\ (\A n \in DOMAIN frames : ~Carries(n, d, field)) =>
              meters[d] = None \/ ValueOf(meters[d], field) = None

\* What arrived after the frames a synchronisation selected is on its way.
SyncIsNew(d) ==
    job.step \in {"sync_meter", "sync_reading"} =>
        \A n \in job.todo, m \in DOMAIN frames :
            frames[n].dev = d /\ frames[m].dev = d /\ m > n => InQueue(m)

Showing == faults = 0 => \A d \in Device : OneTenant(d) => Shown(d) /\ SyncIsNew(d)

LEMMA LastExistsStep == ASSUME IInv, LastExists, [Next]_vars PROVE LastExists'
<1>0. TypeOK
    BY DEF IInv
<1>1. ASSUME NEW e \in Device, Uplink(e) PROVE LastExists'
    <2>1. /\ DOMAIN frames' = DOMAIN frames \cup {Len(frames) + 1}
          /\ \A n \in DOMAIN frames : frames'[n] = frames[n]
          /\ Len(frames) \in Nat /\ \A n \in DOMAIN frames : n \in Nat /\ n < Len(frames) + 1
        <3>1. \A n \in DOMAIN frames : n \in Nat /\ n < Len(frames) + 1
            BY <1>0, FramesAreNumbered
        <3> QED BY <1>0, <1>1, <3>1, UplinkEffect, FramesAreNumbered
    <2> SUFFICES ASSUME NEW d \in Device, NEW field \in Field, NEW m \in DOMAIN frames',
                        Carries(m, d, field)'
                 PROVE  \E n \in DOMAIN frames' : IsLast(n, d, field)'
        BY DEF LastExists
    <2>2. \A n \in DOMAIN frames : Carries(n, d, field)' <=> Carries(n, d, field)
        BY <2>1 DEF Carries
    <2>3. ASSUME NEW N, N = Len(frames) + 1, Carries(N, d, field)'
          PROVE  \E n \in DOMAIN frames' : IsLast(n, d, field)'
        <3>1. N \in DOMAIN frames' /\ \A k \in DOMAIN frames' : k <= N
            BY <2>1, <2>3
        <3> QED BY <2>3, <3>1 DEF IsLast
    <2>4. ASSUME NEW N, N = Len(frames) + 1, ~Carries(N, d, field)'
          PROVE  \E n \in DOMAIN frames' : IsLast(n, d, field)'
        <3>1. m \in DOMAIN frames /\ Carries(m, d, field)
            BY <2>1, <2>2, <2>4
        <3>2. PICK n \in DOMAIN frames : IsLast(n, d, field)
            BY <3>1 DEF LastExists
        <3>3. \A k \in DOMAIN frames' : Carries(k, d, field)' => k \in DOMAIN frames
            BY <2>1, <2>4
        <3> QED BY <2>1, <2>2, <3>2, <3>3 DEF IsLast
    <2> QED BY <2>3, <2>4
<1>2. CASE UNCHANGED frames
    BY <1>2 DEF LastExists, IsLast, Carries
<1> QED
    BY <1>1, <1>2
       DEF Next, HandlerStep, vars, Take, WriteMeter, WriteReading, WriteLeak, StartSync,
           SyncMeter, SyncReading, ResolveLeakEvent, Fail, Crash, Restart

\* What writing a frame's meter row makes of its fields.
LEMMA UpsertShows ==
    ASSUME TypeOK, NEW f \in Frame, UpsertMeter(f)
    PROVE  /\ \A d \in Device : d # f.dev => meters'[d] = meters[d]
           /\ meters'[f.dev] # None
           /\ \A field \in Field :
                 LET new == ValueOf(f.data, field)
                 IN  ValueOf(meters'[f.dev], field) =
                         IF new # None THEN new
                         ELSE IF meters[f.dev] = None THEN None ELSE ValueOf(meters[f.dev], field)
<1> DEFINE old == IF meters[f.dev] = None THEN [index |-> None, valve |-> None] ELSE meters[f.dev]
           new == [tenant |-> f.tenant, index |-> Coalesce(f.data.index, old.index),
                   valve |-> Coalesce(f.data.valve, old.valve)]
<1>1. f.dev \in Device /\ meters' = [meters EXCEPT ![f.dev] = new]
    BY DEF Frame, UpsertMeter
<1>2. new.index = Coalesce(f.data.index, old.index) /\ new.valve = Coalesce(f.data.valve, old.valve)
    OBVIOUS
<1>3. /\ old.index = IF meters[f.dev] = None THEN None ELSE meters[f.dev].index
      /\ old.valve = IF meters[f.dev] = None THEN None ELSE meters[f.dev].valve
    <2>1. CASE meters[f.dev] = None
        BY <2>1
    <2>2. CASE meters[f.dev] # None
        BY <2>2
    <2> QED BY <2>1, <2>2
<1> HIDE DEF old, new
<1>4. meters'[f.dev] = new /\ \A d \in Device : d # f.dev => meters'[d] = meters[d]
    BY <1>1 DEF TypeOK
<1>5. meters'[f.dev] # None
    BY UpsertMeterType, NoneIsNoMeter
<1>6. ASSUME NEW field \in Field
      PROVE  ValueOf(meters'[f.dev], field) =
                 IF ValueOf(f.data, field) # None THEN ValueOf(f.data, field)
                 ELSE IF meters[f.dev] = None THEN None ELSE ValueOf(meters[f.dev], field)
    <2>1. CASE field = "index"
        BY <1>2, <1>3, <1>4, <2>1 DEF ValueOf, Coalesce
    <2>2. CASE field = "valve"
        BY <1>2, <1>3, <1>4, <2>2 DEF ValueOf, Coalesce
    <2> QED BY <2>1, <2>2 DEF Field
<1> QED BY <1>4, <1>5, <1>6

\* Writing a frame's meter row keeps a meter's fields the newest, if all that
\* is newer of its device waits.
LEMMA UpsertKeepsShown ==
    ASSUME TypeOK, NEW d \in Device, NEW k \in DOMAIN frames, UpsertMeter(frames[k]),
           UNCHANGED <<frames, queue>>, Shown(d),
           \A n : Pending(n) => n = k \/ InQueue(n),
           frames[k].dev = d =>
               \A m \in DOMAIN frames : frames[m].dev = d /\ m > k => InQueue(m)
    PROVE  Shown(d)'
<1> DEFINE f == frames[k]
<1>0. f \in Frame /\ k \in Nat /\ \A n \in DOMAIN frames : n \in Nat
    BY FramesAreNumbered DEF TypeOK
<1>q. \A n : InQueue(n) => Pending(n)'
    BY DEF InQueue, Pending
<1>1. /\ \A e \in Device : e # f.dev => meters'[e] = meters[e]
      /\ meters'[f.dev] # None
      /\ \A field \in Field :
            ValueOf(meters'[f.dev], field) =
                IF ValueOf(f.data, field) # None THEN ValueOf(f.data, field)
                ELSE IF meters[f.dev] = None THEN None ELSE ValueOf(meters[f.dev], field)
    BY <1>0, UpsertShows
<1>2. ASSUME NEW field \in Field, NEW n \in DOMAIN frames, IsLast(n, d, field), ~Pending(n)'
      PROVE  meters'[d] # None /\ ValueOf(meters'[d], field) = ValueOf(frames[n].data, field)
    <2>1. frames[n].dev = d /\ ValueOf(frames[n].data, field) # None
        BY <1>2 DEF IsLast, Carries
    <2>2. ~Pending(n) => /\ meters[d] # None
                         /\ ValueOf(meters[d], field) = ValueOf(frames[n].data, field)
        BY <1>2 DEF Shown
    <2>3. ~InQueue(n)
        BY <1>2, <1>q
    <2>4. CASE f.dev # d
        BY <1>1, <2>1, <2>2, <2>3, <2>4
    <2>5. CASE f.dev = d /\ ValueOf(f.data, field) # None
        <3>1. Carries(k, d, field)
            BY <2>5 DEF Carries
        <3>2. k <= n
            BY <1>2, <3>1 DEF IsLast
        <3>3. n = k
            BY <1>0, <2>1, <2>3, <2>5, <3>2
        <3> QED BY <1>1, <2>5, <3>3
    <2>6. CASE f.dev = d /\ ValueOf(f.data, field) = None
        BY <1>1, <2>1, <2>2, <2>3, <2>6
    <2> QED BY <2>4, <2>5, <2>6
<1>3. ASSUME NEW field \in Field, \A n \in DOMAIN frames : ~Carries(n, d, field)
      PROVE  meters'[d] = None \/ ValueOf(meters'[d], field) = None
    <2>1. meters[d] = None \/ ValueOf(meters[d], field) = None
        BY <1>3 DEF Shown
    <2>2. CASE f.dev # d
        BY <1>1, <2>1, <2>2
    <2>3. CASE f.dev = d
        <3>1. ValueOf(f.data, field) = None
            BY <1>3, <2>3 DEF Carries
        <3> QED BY <1>1, <2>1, <2>3, <3>1
    <2> QED BY <2>2, <2>3
<1>4. \A n, field : /\ IsLast(n, d, field)' <=> IsLast(n, d, field)
                    /\ Carries(n, d, field)' <=> Carries(n, d, field)
    BY DEF IsLast, Carries
<1> QED BY <1>2, <1>3, <1>4 DEF Shown

LEMMA ShowingStep ==
    ASSUME IInv, InTurn, NothingLost, Showing, [Next]_vars PROVE Showing'
<1> SUFFICES ASSUME faults' = 0, NEW d \in Device, OneTenant(d)' PROVE Shown(d)' /\ SyncIsNew(d)'
    BY DEF Showing
<1>0. TypeOK /\ Scope /\ job \in Job
    BY DEF IInv, TypeOK
<1>i. Idle.step = "idle"
    BY IdleJob
<1>a. faults = 0 /\ ~Fail /\ ~Crash
    BY <1>0, FaultsRemain
<1>b. /\ up /\ \A n \in DOMAIN frames : frames[n].archived
      /\ \A i \in DOMAIN queue, m \in DOMAIN frames : m > queue[i] => InQueue(m)
      /\ job.step = "meter" => \A m \in DOMAIN frames : m > job.frame => InQueue(m)
    BY <1>a DEF NothingLost
<1>c. OneTenant(d) => Shown(d) /\ SyncIsNew(d)
    BY <1>a DEF Showing
<1>1. ASSUME NEW e \in Device, Uplink(e) PROVE Shown(d)' /\ SyncIsNew(d)'
    <2>1. /\ DOMAIN frames' = DOMAIN frames \cup {Len(frames) + 1}
          /\ \A n \in DOMAIN frames : frames'[n] = frames[n]
          /\ queue' = Append(queue, Len(frames) + 1) /\ UNCHANGED <<job, meters>>
        BY <1>0, <1>1, <1>b, UplinkEffect
    <2>2. /\ \A m : InQueue(m) => InQueue(m)'
          /\ \A m : m = Len(frames) + 1 => InQueue(m)'
        <3>1. /\ DOMAIN queue' = DOMAIN queue \cup {Len(queue) + 1}
              /\ queue'[Len(queue) + 1] = Len(frames) + 1
              /\ \A i \in DOMAIN queue : queue'[i] = queue[i]
            BY <1>0, <2>1, SMT DEF TypeOK
        <3> QED BY <3>1 DEF InQueue
    <2>3. OneTenant(d)
        BY <2>1 DEF OneTenant
    <2>4. Shown(d) /\ SyncIsNew(d)
        BY <1>c, <2>3
    <2>5. \A n : Pending(n) => Pending(n)'
        BY <2>1, <2>2 DEF Pending
    <2>6. \A n \in DOMAIN frames : \A field : Carries(n, d, field)' <=> Carries(n, d, field)
        BY <2>1 DEF Carries
    <2>7. \A n \in DOMAIN frames : \A field : IsLast(n, d, field)' => IsLast(n, d, field)
        BY <2>1, <2>6 DEF IsLast
    <2>8. ASSUME NEW field \in Field, NEW n \in DOMAIN frames', IsLast(n, d, field)', ~Pending(n)'
          PROVE  meters'[d] # None /\ ValueOf(meters'[d], field) = ValueOf(frames'[n].data, field)
        <3>1. n \in DOMAIN frames
            BY <2>1, <2>2, <2>8 DEF Pending
        <3> QED BY <2>1, <2>4, <2>5, <2>7, <2>8, <3>1 DEF Shown
    <2>9. ASSUME NEW field \in Field, \A n \in DOMAIN frames' : ~Carries(n, d, field)'
          PROVE  meters'[d] = None \/ ValueOf(meters'[d], field) = None
        BY <2>1, <2>4, <2>6, <2>9 DEF Shown
    <2>10. SyncIsNew(d)'
        <3> SUFFICES ASSUME job.step \in {"sync_meter", "sync_reading"},
                            NEW n \in job.todo, NEW m \in DOMAIN frames',
                            frames'[n].dev = d, frames'[m].dev = d, m > n
                     PROVE  InQueue(m)'
            BY <2>1 DEF SyncIsNew
        <3>1. n \in DOMAIN frames
            BY <1>0 DEF Scope
        <3> QED BY <2>1, <2>2, <2>4, <3>1 DEF SyncIsNew
    <2> QED BY <2>8, <2>9, <2>10 DEF Shown
\* The other steps leave the frames alone.
<1>2. ASSUME UNCHANGED frames PROVE Shown(d) /\ SyncIsNew(d)
    BY <1>2, <1>c DEF OneTenant
<1>3. ASSUME UNCHANGED <<frames, meters>>,
             \A n \in DOMAIN frames, field \in Field :
                 Carries(n, d, field) /\ Pending(n) => Pending(n)'
      PROVE  Shown(d)'
    <2>1. \A n, field : /\ IsLast(n, d, field)' <=> IsLast(n, d, field)
                        /\ Carries(n, d, field)' <=> Carries(n, d, field)
        BY <1>3 DEF IsLast, Carries
    <2>2. Shown(d)
        BY <1>2, <1>3
    <2> QED BY <1>3, <2>1, <2>2 DEF Shown, IsLast
<1>4. CASE Take
    <2>1. /\ job = Idle /\ queue # <<>> /\ queue' = Tail(queue) /\ UNCHANGED <<frames, meters>>
          /\ job' = IF Mentions(frames[Head(queue)].data)
                    THEN [step |-> "meter", frame |-> Head(queue)] ELSE Idle
        BY <1>4 DEF Take
    <2>2. /\ DOMAIN queue' = 1..(Len(queue) - 1) /\ DOMAIN queue = 1..Len(queue)
          /\ Len(queue) \in Nat \ {0} /\ Head(queue) = queue[1]
          /\ \A i \in 1..(Len(queue) - 1) : queue'[i] = queue[i + 1]
        BY <1>0, <2>1, SMT DEF TypeOK
    <2>3. \A m : InQueue(m) /\ m # queue[1] => InQueue(m)'
        <3>1. ASSUME NEW k \in DOMAIN queue, k # 1
              PROVE  k - 1 \in DOMAIN queue' /\ queue'[k - 1] = queue[k]
            BY <2>2, <3>1
        <3> QED BY <3>1 DEF InQueue
    <2>4. ASSUME NEW n \in DOMAIN frames, NEW field \in Field, Carries(n, d, field), Pending(n)
          PROVE  Pending(n)'
        <3>1. InQueue(n)
            BY <1>i, <2>1, <2>4 DEF Pending
        <3>2. Mentions(frames[n].data)
            BY <2>4 DEF Carries, ValueOf, Field, Mentions
        <3>3. CASE n = queue[1]
            BY <2>1, <2>2, <3>2, <3>3 DEF Pending
        <3>4. CASE n # queue[1]
            BY <2>3, <3>1, <3>4 DEF Pending
        <3> QED BY <3>3, <3>4
    <2>5. SyncIsNew(d)'
        BY <1>i, <2>1 DEF SyncIsNew
    <2> QED BY <1>3, <2>1, <2>4, <2>5
<1>5. ASSUME UNCHANGED <<frames, queue, meters>>, job.step # "meter" \/ job' = job,
             \/ job' = job
             \/ job'.step \notin {"sync_meter", "sync_reading"}
             \/ job.step \in {"sync_meter", "sync_reading"} /\ job'.todo = job.todo
      PROVE  Shown(d)' /\ SyncIsNew(d)'
    <2>1. Shown(d)'
        BY <1>3, <1>5 DEF Pending, InQueue
    <2>2. SyncIsNew(d)
        BY <1>2, <1>5
    <2>3. SyncIsNew(d)'
        BY <1>5, <2>2 DEF SyncIsNew, InQueue
    <2> QED BY <2>1, <2>3
<1>6. CASE WriteMeter
    <2>1. /\ job.step = "meter" /\ job.frame \in DOMAIN frames /\ UpsertMeter(frames[job.frame])
          /\ UNCHANGED <<frames, queue>> /\ job'.step = "reading"
        BY <1>0, <1>6, JobShape DEF WriteMeter, Scope
    <2>2. \A n : Pending(n) => n = job.frame \/ InQueue(n)
        BY DEF Pending
    <2>3. Shown(d)'
        BY <1>0, <1>2, <1>b, <2>1, <2>2, UpsertKeepsShown
    <2> QED BY <2>1, <2>3 DEF SyncIsNew
<1>7. CASE WriteReading
    BY <1>5, <1>7 DEF WriteReading
<1>8. CASE WriteLeak
    <2>1. CASE job' = Idle
        BY <1>5, <1>8, <1>i, <2>1 DEF WriteLeak
    <2>2. CASE \E type : job' = [job EXCEPT !.todo = @ \ {type}]
        <3>1. job'.step = "leaks"
            BY <1>0, <1>8, <2>2, JobShape DEF WriteLeak
        <3> QED BY <1>5, <1>8, <3>1 DEF WriteLeak
    <2> QED BY <1>8, <2>1, <2>2 DEF WriteLeak
<1>9. ASSUME NEW t \in Tenant, StartSync(t) PROVE Shown(d)' /\ SyncIsNew(d)'
    <2>1. /\ job = Idle /\ UNCHANGED <<frames, queue, meters>>
          /\ job'.todo = {n \in NewestArchives(t) : Mentions(frames[n].data)}
        BY <1>9 DEF StartSync
    <2>2. Shown(d)'
        BY <1>3, <1>i, <2>1 DEF Pending, InQueue
    <2>3. ASSUME NEW n \in job'.todo, NEW m \in DOMAIN frames,
                 frames[n].dev = d, frames[m].dev = d, m > n
          PROVE  FALSE
        <3>1. n \in Archives(t) /\ n \in DOMAIN frames /\ frames[n].tenant = t
            BY <2>1 DEF NewestArchives, Archives
        <3>2. frames[m].tenant = t
            BY <2>1, <2>3, <3>1 DEF OneTenant
        <3>3. m \in Archives(t)
            BY <1>b, <3>2 DEF Archives
        <3>4. m <= n
            BY <2>1, <2>3, <3>3 DEF NewestArchives
        <3> QED BY <1>0, <2>3, <3>1, <3>4, FramesAreNumbered
    <2>4. SyncIsNew(d)'
        BY <2>1, <2>3, Zenon DEF SyncIsNew
    <2> QED BY <2>2, <2>4
<1>10. CASE SyncMeter
    <2>1. job.step = "sync_meter" /\ UNCHANGED <<frames, queue>>
        BY <1>10 DEF SyncMeter
    <2>2. CASE job.todo = {}
        <3>1. job' = Idle /\ meters' = meters
            BY <1>10, <2>2 DEF SyncMeter
        <3> QED BY <1>5, <1>i, <2>1, <3>1
    <2>3. CASE job.todo # {}
        <3>1. PICK n \in job.todo :
                 /\ UpsertMeter(frames[n])
                 /\ job' = [step |-> "sync_reading", frame |-> n, todo |-> job.todo \ {n}]
            BY <1>10, <2>3, Zenon DEF SyncMeter
        <3>2. n \in DOMAIN frames /\ job'.todo \subseteq job.todo
            BY <1>0, <2>1, <3>1 DEF Scope
        <3>3. Shown(d) /\ SyncIsNew(d)
            BY <1>2, <2>1
        <3>4. \A k : Pending(k) => k = n \/ InQueue(k)
            BY <2>1 DEF Pending
        <3>5. frames[n].dev = d =>
                  \A m \in DOMAIN frames : frames[m].dev = d /\ m > n => InQueue(m)
            BY <2>1, <3>1, <3>3 DEF SyncIsNew
        <3>6. Shown(d)'
            BY <1>0, <2>1, <3>1, <3>2, <3>3, <3>4, <3>5, UpsertKeepsShown
        <3>7. SyncIsNew(d)'
            BY <2>1, <3>2, <3>3 DEF SyncIsNew, InQueue
        <3> QED BY <3>6, <3>7
    <2> QED BY <2>2, <2>3
<1>11. CASE SyncReading
    <2>1. /\ UNCHANGED <<frames, queue, meters>> /\ job.step = "sync_reading"
          /\ job'.todo = job.todo
        BY <1>11 DEF SyncReading
    <2> QED BY <1>5, <2>1
<1>12. CASE UNCHANGED vars \/ \E i \in DOMAIN leaks, s \in {"resolved", "false_positive"} :
                                  ResolveLeakEvent(i, s)
    <2>1. UNCHANGED <<frames, queue, meters, job>>
        BY <1>12 DEF vars, ResolveLeakEvent
    <2> QED BY <1>5, <2>1
<1>13. ~Restart
    BY <1>b DEF Restart
<1> QED
    BY <1>a, <1>1, <1>4, <1>6, <1>7, <1>8, <1>9, <1>10, <1>11, <1>12, <1>13
       DEF Next, HandlerStep

\* The order of the frames, the leaks on file and the meters' rows, together.
Ordered == InTurn /\ NothingLost /\ Filing /\ LastExists /\ Showing

LEMMA InitOrdered == Init => Ordered
<1> SUFFICES ASSUME Init PROVE Ordered
    OBVIOUS
<1>i. Idle.step = "idle"
    BY IdleJob
<1>1. /\ DOMAIN frames = {} /\ DOMAIN queue = {} /\ DOMAIN readings = {}
      /\ job = Idle /\ up /\ \A d \in Device : meters[d] = None
    BY SMT DEF Init
<1>2. InTurn /\ NothingLost /\ Filing /\ LastExists
    BY <1>i, <1>1 DEF InTurn, NothingLost, Filing, LastExists
<1>3. Showing
    BY <1>i, <1>1 DEF Showing, Shown, SyncIsNew, IsLast
<1> QED BY <1>2, <1>3 DEF Ordered

LEMMA OrderedInvariant == Spec => []Ordered
<1>1. IInv /\ Ordered /\ [Next]_vars => Ordered'
    BY InTurnStep, NothingLostStep, FilingStep, LastExistsStep, ShowingStep DEF Ordered
<1> QED BY <1>1, InitOrdered, Invariant, PTL DEF Spec

LEMMA FilingSuffices == ASSUME IInv, Filing PROVE LeakIsFiled
<1> SUFFICES ASSUME faults = 0, job.step # "leaks", NEW j \in DOMAIN readings,
                    readings[j].origin = "uplink", NEW t \in Reported(readings[j].frame)
             PROVE  \E i \in DOMAIN leaks : /\ SameCase(leaks[i].frame, readings[j].frame)
                                            /\ leaks[i].type = t
                                            /\ leaks[i].frame >= readings[j].frame
    BY DEF LeakIsFiled
<1>1. readings[j].frame \in DOMAIN frames /\ IsRow(j, readings[j].frame)
    BY DEF IInv, Scope, IsRow
<1>2. Filed(readings[j].frame, t)
    BY <1>1 DEF Filing
<1> QED BY <1>2 DEF Filed

\* The last value of a field is the one that the last frame with it carries.
LEMMA LastValueIs ==
    ASSUME TypeOK, NEW d \in Device, NEW field \in Field
    PROVE  /\ \A n \in DOMAIN frames : IsLast(n, d, field) =>
                  LastValue(d, field) = ValueOf(frames[n].data, field)
           /\ (\A n \in DOMAIN frames : ~Carries(n, d, field)) => LastValue(d, field) = None
<1> DEFINE carrying == {n \in DOMAIN frames : frames[n].dev = d /\ frames[n].data[field] # None}
           last == CHOOSE n \in carrying : \A m \in carrying : m <= n
<1>1. \A n \in DOMAIN frames : frames[n].data[field] = ValueOf(frames[n].data, field)
    BY DEF Field, ValueOf
<1>2. \A n : n \in carrying <=> n \in DOMAIN frames /\ Carries(n, d, field)
    BY <1>1 DEF Carries
<1>3. LastValue(d, field) = IF carrying = {} THEN None ELSE frames[last].data[field]
    BY Zenon DEF LastValue
<1>4. \A n \in DOMAIN frames : n \in Nat
    BY FramesAreNumbered
<1>5. ASSUME NEW n \in DOMAIN frames, IsLast(n, d, field)
      PROVE  LastValue(d, field) = ValueOf(frames[n].data, field)
    <2>1. n \in carrying /\ \A m \in carrying : m <= n
        BY <1>2, <1>5 DEF IsLast
    <2>2. last \in carrying /\ \A m \in carrying : m <= last
        <3> HIDE DEF carrying
        <3> QED BY <2>1, Zenon
    <2>3. carrying \subseteq DOMAIN frames
        OBVIOUS
    <2> HIDE DEF carrying, last
    <2>4. n <= last /\ last <= n /\ n \in Nat /\ last \in Nat
        BY <1>4, <2>1, <2>2, <2>3
    <2>5. last = n
        BY <2>4
    <2> QED BY <1>1, <1>3, <2>1, <2>5
<1>6. ASSUME \A n \in DOMAIN frames : ~Carries(n, d, field)
      PROVE  LastValue(d, field) = None
    <2>1. carrying = {}
        BY <1>2, <1>6
    <2> HIDE DEF carrying, last
    <2> QED BY <1>3, <2>1
<1> QED BY <1>5, <1>6

LEMMA ShowingSuffices == ASSUME IInv, LastExists, Showing PROVE MeterShowsNewest
<1>0. TypeOK
    BY DEF IInv
<1> SUFFICES ASSUME faults = 0, queue = <<>>, job = Idle, NEW d \in Device, OneTenant(d),
                    meters[d] # None
             PROVE  meters[d].index = LastValue(d, "index") /\ meters[d].valve = LastValue(d, "valve")
    BY DEF MeterShowsNewest, OneTenant
<1>1. Shown(d)
    BY DEF Showing
<1>2. \A n : ~Pending(n)
    <2>1. DOMAIN queue = {}
        BY SMT
    <2> QED BY <2>1, IdleJob DEF Pending, InQueue
<1>3. ASSUME NEW field \in Field PROVE ValueOf(meters[d], field) = LastValue(d, field)
    <2>1. CASE \E n \in DOMAIN frames : IsLast(n, d, field)
        BY <1>0, <1>1, <1>2, <2>1, LastValueIs DEF Shown
    <2>2. CASE ~\E n \in DOMAIN frames : IsLast(n, d, field)
        <3>1. \A n \in DOMAIN frames : ~Carries(n, d, field)
            BY <2>2 DEF LastExists
        <3> QED BY <1>0, <1>1, <3>1, LastValueIs DEF Shown
    <2> QED BY <2>1, <2>2
<1>4. "index" \in Field /\ "valve" \in Field
    BY DEF Field
<1>5. ValueOf(meters[d], "index") = meters[d].index /\ ValueOf(meters[d], "valve") = meters[d].valve
    BY DEF ValueOf
<1>6. ValueOf(meters[d], "index") = LastValue(d, "index")
    BY <1>3, <1>4
<1>7. ValueOf(meters[d], "valve") = LastValue(d, "valve")
    BY <1>3, <1>4
<1> QED BY <1>5, <1>6, <1>7

\* What the page of the meters says rests on what the meters sent: its flows
\* are measured, its rows show the newest values once all is handled, and what
\* a reading shows is on file, for any number of meters, frames and imports.
THEOREM MeterPageIsTrue == Spec => []MeterIsTrue
<1>1. IInv /\ Ordered /\ FlowIsMeasured => MeterIsTrue
    BY FilingSuffices, ShowingSuffices DEF MeterIsTrue, Ordered
<1> QED BY <1>1, Invariant, OrderedInvariant, FlowsAreMeasured, PTL

=============================================================================
