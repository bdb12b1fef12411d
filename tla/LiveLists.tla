----------------------------- MODULE LiveLists ------------------------------
(***************************************************************************)
(* The console's pages that show what the platform lists under a filter    *)
(* the user may change, most of them loading it again every 30 s: leaks,   *)
(* messages, a device's link metrics, a custom dashboard, the NOC, the     *)
(* analytics and the anomalies.  A request is served, then its answer is   *)
(* delivered; nothing keeps the answers in order.                          *)
(***************************************************************************)
EXTENDS Naturals

CONSTANTS
    Item,       \* what is listed: leaks, anomalies, messages, points
    MatchOf,    \* key -> the items listed under it, whatever their status
    None,
    MaxClicks, MaxFaults

VARIABLES
    page,       \* the page that is open
    key,        \* its filter
    chip,       \* the filter's field is visible
    status,     \* item -> "active" or "resolved"
    version,    \* how many statuses have changed
    rows,       \* what is shown: [key, items, version]
    queue,      \* requests: [kind, key, ...], and what they were served
    resolving,  \* items whose resolution is on its way
    resolved,   \* items resolved here and listed again since
    overtaken,  \* an answer came after the answer to a later request
    failed, clicks

listVars == <<page, key, chip, status, version, rows, queue, resolving, resolved, overtaken,
              failed, clicks>>

Always == [polled |-> TRUE, keys |-> {"all"}, resolves |-> FALSE]

LeakDetection == [Always EXCEPT !.keys = {"active", "all"}, !.resolves = TRUE]
DataMessages == [Always EXCEPT !.polled = FALSE, !.keys = {"all", "one"}]
DeviceLinkMetrics == [Always EXCEPT !.keys = {"all", "one"}]
CustomDashboard == [Always EXCEPT !.keys = {"all", "one"}]
NocDashboard == Always
AnalyticsDashboard == Always
Anomalies == [Always EXCEPT !.polled = FALSE, !.resolves = TRUE]

Pages == {LeakDetection, DataMessages, DeviceLinkMetrics, CustomDashboard, NocDashboard,
          AnalyticsDashboard, Anomalies}

\* What the platform lists: without resolved items under "active".
Listed(k) ==
    {[item |-> i, status |-> status[i]] :
        i \in {j \in MatchOf[k] : k = "active" => status[j] = "active"}}

Ask(k, after) == [kind |-> "ask", key |-> k, after |-> after]

ListsInit ==
    /\ page \in Pages /\ key \in page.keys /\ chip = TRUE
    /\ status = [i \in Item |-> "active"] /\ version = 0
    /\ rows = [key |-> None, items |-> {}, version |-> 0]
    /\ queue = {Ask(key, {})} /\ resolving = {} /\ resolved = {}
    /\ overtaken = FALSE /\ failed = 0 /\ clicks = 0

Click == clicks < MaxClicks /\ clicks' = clicks + 1

\* Changing the filter loads at once and restarts the timer.
SetFilter(k) ==
    /\ Click /\ k \in page.keys \ {key} /\ chip
    /\ key' = k /\ queue' = queue \cup {Ask(k, {})}
    /\ UNCHANGED <<page, chip, status, version, rows, resolving, resolved, overtaken, failed>>

\* A chip of the messages shows or hides the field; the filter stays in force.
ToggleFilter ==
    /\ Click /\ page = DataMessages /\ chip' = ~chip
    /\ UNCHANGED <<page, key, status, version, rows, queue, resolving, resolved, overtaken, failed>>

\* The timer, or the messages' "Refresh" and "Appliquer".
Reload ==
    /\ IF page.polled THEN UNCHANGED clicks ELSE page = DataMessages /\ Click
    /\ queue' = queue \cup {Ask(key, {})}
    /\ UNCHANGED <<page, key, chip, status, version, rows, resolving, resolved, overtaken, failed>>

\* Mutant: the list is loaded again without waiting for the resolution.
ResolveNotAwaited(i) ==
    /\ Click /\ page.resolves /\ [item |-> i, status |-> "active"] \in rows.items
    /\ \A r \in resolving : r.item # i
    /\ resolving' = resolving \cup {[item |-> i, key |-> key]}
    /\ queue' = queue \cup {Ask(key, {i})}
    /\ UNCHANGED <<page, key, chip, status, version, rows, resolved, overtaken, failed>>

\* Once its resolution is asked for, asking again changes nothing more.
Resolve(i) ==
    /\ Click /\ page.resolves /\ [item |-> i, status |-> "active"] \in rows.items
    /\ \A r \in resolving : r.item # i
    /\ resolving' = resolving \cup {[item |-> i, key |-> key]}
    /\ UNCHANGED <<page, key, chip, status, version, rows, queue, resolved, overtaken, failed>>

\* The list is loaded again whether the resolution succeeded or not, under the
\* filter there was at the click.
Resolution(r, ok) ==
    /\ resolving' = resolving \ {r}
    /\ (ok \/ failed < MaxFaults) /\ failed' = IF ok THEN failed ELSE failed + 1
    /\ status' = IF ok THEN [status EXCEPT ![r.item] = "resolved"] ELSE status
    /\ version' = IF status' = status THEN version ELSE version + 1
    /\ queue' = queue \cup {Ask(r.key, IF ok THEN {r.item} ELSE {})}
    /\ UNCHANGED <<page, key, chip, rows, resolved, overtaken, clicks>>

Serve(p) ==
    /\ p \in queue /\ p.kind = "ask"
    /\ \E ok \in BOOLEAN :
          /\ ok \/ failed < MaxFaults
          /\ failed' = IF ok THEN failed ELSE failed + 1
          /\ queue' = (queue \ {p}) \cup
                {[kind |-> "answer", key |-> p.key, after |-> IF ok THEN p.after ELSE {},
                  items |-> IF ok THEN Listed(p.key) ELSE {}, version |-> version]}
    /\ UNCHANGED <<page, key, chip, status, version, rows, resolving, resolved, overtaken, clicks>>

\* A failure shows as an empty list.
Deliver(p) ==
    /\ p \in queue /\ p.kind = "answer"
    /\ queue' = queue \ {p}
    /\ rows' = [key |-> p.key, items |-> p.items, version |-> p.version]
    /\ resolved' = resolved \cup p.after
    /\ overtaken' = (overtaken \/ p.key # key \/ p.version < rows.version)
    /\ UNCHANGED <<page, key, chip, status, version, resolving, failed, clicks>>

ListsNext ==
    \/ \E k \in page.keys : SetFilter(k)
    \/ ToggleFilter \/ Reload
    \/ \E i \in Item : Resolve(i)
    \/ \E r \in resolving, ok \in BOOLEAN : Resolution(r, ok)
    \/ \E p \in queue : Serve(p) \/ Deliver(p)

\* The timer fires; what it asks for is served and delivered.
Tick == page.polled /\ Reload
ServeKey == \E p \in queue : p.key = key /\ Serve(p)
DeliverAt(v) == \E p \in queue : p.key = key /\ p.kind = "answer" /\ p.version = v /\ Deliver(p)

-----------------------------------------------------------------------------
(* Properties *)

\* What was resolved here and listed again is never offered for resolution
\* again, unless the answers came in another order than the requests.
ResolvedStaysResolved ==
    \A i \in resolved : overtaken \/ [item |-> i, status |-> "active"] \notin rows.items

\* The page shows what the platform lists under its filter; a page without a
\* timer need not, once a request failed or an answer was overtaken.
ListShown == rows.key = key /\ rows.items = Listed(key)
NeverAgain == ~page.polled /\ (overtaken \/ failed > 0)
=============================================================================
