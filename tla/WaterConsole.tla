---------------------------- MODULE WaterConsole ----------------------------
(***************************************************************************)
(* The console's page of water meters (WaterMetersPage): the list of       *)
(* meters and the details of one are loaded by requests whose answers come *)
(* in any order, and commands go to the meter that is selected.            *)
(***************************************************************************)
EXTENDS Naturals

CONSTANTS
    Meter,      \* what the list may hold, and
    Typed,      \* the device of the "manual" field, used while nothing is selected
    None,
    MaxClicks

VARIABLES
    meters, selected,
    readings, network,  \* the meter whose details the page shows, each
    busy,               \* a command is on its way
    pending,            \* requests on their way
    chosen,             \* the meter the user clicked last
    stolen,             \* a list asked for before anything was selected came after a click
    order,              \* the last command sent
    clicks

waterVars == <<meters, selected, readings, network, busy, pending, chosen, stolen, order, clicks>>

shown == <<readings, network>>

Active == IF selected # None THEN selected ELSE Typed

\* Opening the page asks for the list and, nothing being selected, for the
\* details of the device of the manual field.
WaterInit ==
    /\ meters = {} /\ selected = None /\ readings = None /\ network = None
    /\ busy = FALSE
    /\ pending = {[kind |-> "meters", blank |-> TRUE], [kind |-> "details", of |-> Typed]}
    /\ chosen = None /\ stolen = FALSE /\ order = None /\ clicks = 0

Click == clicks < MaxClicks /\ clicks' = clicks + 1

LoadMeters(blank) == [kind |-> "meters", blank |-> blank]
LoadDetails(m) == [kind |-> "details", of |-> m]

\* Selecting another meter reloads the list and the details.
ClickMeter(m) ==
    /\ Click /\ m \in meters \ {selected}
    /\ selected' = m /\ chosen' = m
    /\ pending' = pending \cup {LoadMeters(FALSE), LoadDetails(m)}
    /\ UNCHANGED <<meters, shown, busy, stolen, order>>

Refresh ==
    /\ Click /\ pending' = pending \cup {LoadMeters(selected = None)}
    /\ UNCHANGED <<meters, selected, shown, busy, chosen, stolen, order>>

\* Mutant: every answer selects the first of the list.
AnswerMetersFirst(p, rows) ==
    /\ meters' = rows
    /\ \/ \E m \in rows :
             /\ selected' = m
             /\ stolen' = (stolen \/ (p.blank /\ chosen \notin {None, m}))
             /\ pending' = (pending \ {p}) \cup
                   IF m = selected THEN {} ELSE {LoadMeters(FALSE), LoadDetails(m)}
       \/ rows = {} /\ pending' = pending \ {p} /\ UNCHANGED <<selected, stolen>>
    /\ UNCHANGED <<shown, busy, chosen, order>>

\* The answer to a list asked for while nothing was selected selects its first.
AnswerMeters(p, rows) ==
    /\ meters' = rows
    /\ \/ p.blank /\ \E m \in rows :
             /\ selected' = m
             /\ stolen' = (stolen \/ chosen \notin {None, m})
             /\ pending' = (pending \ {p}) \cup
                   IF m = selected THEN {} ELSE {LoadMeters(FALSE), LoadDetails(m)}
       \/ (p.blank => rows = {}) /\ pending' = pending \ {p}
          /\ UNCHANGED <<selected, stolen>>
    /\ UNCHANGED <<shown, busy, chosen, order>>

\* A list that cannot be loaded leaves the one there is, and selects nothing.
MetersUnavailable(p) ==
    /\ pending' = pending \ {p}
    /\ UNCHANGED <<meters, selected, shown, busy, chosen, stolen, order>>

\* The details are shown whichever meter is selected by then; those of the
\* gateway, if a message names one, come with a further request.
AnswerDetails(p) ==
    /\ readings' = p.of
    /\ \/ network' = p.of /\ pending' = pending \ {p}
       \/ UNCHANGED network
          /\ pending' = (pending \ {p}) \cup {[kind |-> "gateway", of |-> p.of]}
    /\ UNCHANGED <<meters, selected, busy, chosen, stolen, order>>

AnswerGateway(p) ==
    /\ network' = p.of /\ pending' = pending \ {p}
    /\ UNCHANGED <<meters, selected, readings, busy, chosen, stolen, order>>

\* Mutant: the timer loads the device of the manual field.
PollTyped ==
    /\ pending' = pending \cup {LoadDetails(Typed)}
    /\ UNCHANGED <<meters, selected, shown, busy, chosen, stolen, order, clicks>>

\* Every 15 s the details of the meter shown are loaded again.
Poll ==
    /\ pending' = pending \cup {LoadDetails(Active)}
    /\ UNCHANGED <<meters, selected, shown, busy, chosen, stolen, order, clicks>>

\* sendCommand, which holds the buttons until it is answered.
SendCommand ==
    /\ Click /\ ~busy /\ busy' = TRUE
    /\ order' = [to |-> Active, chosen |-> chosen, stolen |-> stolen]
    /\ pending' = pending \cup {[kind |-> "command", of |-> Active]}
    /\ UNCHANGED <<meters, selected, shown, chosen, stolen>>

\* After a success the details of the meter commanded are loaded, not of the one shown.
AnswerCommand(p) ==
    /\ busy' = FALSE
    /\ \E ok \in BOOLEAN :
          pending' = (pending \ {p}) \cup IF ok THEN {LoadDetails(p.of)} ELSE {}
    /\ UNCHANGED <<meters, selected, shown, chosen, stolen, order>>

Answer(p) ==
    /\ UNCHANGED clicks
    /\ \/ p.kind = "meters" /\ \E rows \in SUBSET Meter : AnswerMeters(p, rows)
       \/ p.kind = "meters" /\ MetersUnavailable(p)
       \/ p.kind = "details" /\ AnswerDetails(p)
       \/ p.kind = "gateway" /\ AnswerGateway(p)
       \/ p.kind = "command" /\ AnswerCommand(p)

WaterNext ==
    \/ \E m \in Meter : ClickMeter(m)
    \/ Refresh \/ SendCommand
    \/ Poll \/ \E p \in pending : Answer(p)

\* The timer fires, and what it asks for is answered, or fails and shows nothing.
AnswerActive(kind) ==
    LET p == [kind |-> kind, of |-> Active] IN p \in pending /\ Answer(p)

-----------------------------------------------------------------------------
(* Properties *)

\* A command goes to the meter the user clicked, if any, unless a list asked
\* for before anything was selected came after the click.
CommandToChosen == order # None => order.stolen \/ order.chosen \in {None, order.to}

\* The page shows the details of the meter that is selected.
DetailsShown == readings = Active /\ network = Active
=============================================================================
