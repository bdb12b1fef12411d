----------------------------- MODULE DevicePage -----------------------------
(***************************************************************************)
(* The console's page of a LoRaWAN device (DeviceDetailPage) with the      *)
(* panel of its downlink queue (DeviceDownlinkQueuePanel), and the key and *)
(* the queue ChirpStack keeps for the device.  A list is served, then its  *)
(* answer is delivered; other requests take effect when answered.          *)
(***************************************************************************)
EXTENDS Naturals

CONSTANTS
    Key,        \* what may be typed as the device's key
    None,
    MaxClicks, MaxFaults,
    MaxOthers   \* bound: commands queued by others

VARIABLES
    stored,     \* the device's key
    queue,      \* its commands that wait for an uplink
    keyText,    \* the key in the form; its payloads are left out
    items,      \* the queue the panel shows
    busy,
    pending,    \* requests and answers on their way
    entered,    \* the key typed last
    hasty,      \* a key was typed while another was on its way
    kept,       \* waiting commands the page said were queued, since it was last flushed
    others, failed, clicks

deviceVars == <<stored, queue, keyText, items, busy, pending, entered, hasty, kept,
                others, failed, clicks>>

Load == [kind |-> "load"]

DeviceInit ==
    /\ stored \in Key \cup {None} /\ queue = {} /\ keyText = None /\ items = {} /\ busy = FALSE
    /\ pending = {Load} /\ entered = None /\ hasty = FALSE /\ kept = {}
    /\ others = 0 /\ failed = 0 /\ clicks = 0

Click == clicks < MaxClicks /\ clicks' = clicks + 1

Fault == failed < MaxFaults /\ failed' = failed + 1
Well == UNCHANGED failed

KeysOnTheirWay == {p \in pending : p.kind = "keys"}

TypeKey(k) ==
    /\ keyText' = k /\ entered' = k
    /\ hasty' = (hasty \/ KeysOnTheirWay # {})
    /\ UNCHANGED <<stored, queue, items, busy, pending, kept, others, failed, clicks>>

Request(p) ==
    /\ Click /\ pending' = pending \cup {p}
    /\ UNCHANGED <<stored, queue, keyText, items, entered, hasty, others, failed>>

SaveKeys ==
    keyText # None /\ Request([kind |-> "keys", of |-> keyText]) /\ UNCHANGED <<busy, kept>>

Enqueue ==
    /\ ~busy /\ busy' = TRUE /\ Request([kind |-> "enqueue", at |-> clicks])
    /\ UNCHANGED kept

\* "Flush queue" is offered while the list shows a command, and confirmed.
Flush ==
    /\ ~busy /\ items # {} /\ busy' = TRUE /\ Request([kind |-> "flush"])
    /\ kept' = {}

\* Every 15 s, or "Rafraîchir".
Reload ==
    /\ pending' = pending \cup {Load}
    /\ UNCHANGED <<stored, queue, keyText, items, busy, entered, hasty, kept, others, failed, clicks>>

\* A list that failed is empty.
ServeList ==
    /\ Load \in pending
    /\ \E list \in {queue, {}} :
          /\ \/ list = queue /\ Well
             \/ list # queue /\ Fault
          /\ pending' = (pending \ {Load}) \cup {[kind |-> "list", items |-> list]}
    /\ UNCHANGED <<stored, queue, keyText, items, busy, entered, hasty, kept, others, clicks>>

DeliverList(p) ==
    /\ items' = p.items /\ pending' = pending \ {p}
    /\ UNCHANGED <<stored, queue, keyText, busy, entered, hasty, kept, failed>>

\* Mutant: so does an error.
AnswerKeysEmptying(p) ==
    /\ keyText' = None
    /\ \/ stored' = p.of /\ Well
       \/ UNCHANGED stored /\ Fault
    /\ pending' = pending \ {p}
    /\ UNCHANGED <<queue, items, busy, entered, hasty, kept>>

\* A success empties the field, whatever it holds by then.
AnswerKeys(p) ==
    /\ \/ stored' = p.of /\ keyText' = None /\ Well
       \/ UNCHANGED <<stored, keyText>> /\ Fault
    /\ pending' = pending \ {p}
    /\ UNCHANGED <<queue, items, busy, entered, hasty, kept>>

\* The request took effect, or failed, or only its answer was lost.
AnswerCommand(p, result) ==
    /\ busy' = FALSE
    /\ \/ Well /\ queue' = result /\ kept' = kept \cup (result \ queue)
          /\ pending' = (pending \ {p}) \cup {Load}
       \/ Fault /\ queue' \in {queue, result} /\ UNCHANGED kept
          /\ pending' = pending \ {p}
    /\ UNCHANGED <<stored, keyText, items, entered, hasty>>

Answer(p) ==
    /\ UNCHANGED <<others, clicks>>
    /\ \/ p.kind = "list" /\ DeliverList(p)
       \/ p.kind = "keys" /\ AnswerKeys(p)
       \/ p.kind = "enqueue" /\ AnswerCommand(p, queue \cup {p.at})
       \/ p.kind = "flush" /\ AnswerCommand(p, {})

\* The device sends an uplink and receives a command; others queue some.
Uplink ==
    /\ \E c \in queue : queue' = queue \ {c} /\ kept' = kept \ {c}
    /\ UNCHANGED <<stored, keyText, items, busy, pending, entered, hasty, others, failed, clicks>>

QueuedByOthers ==
    /\ others < MaxOthers /\ others' = others + 1 /\ queue' = queue \cup {MaxClicks + others}
    /\ UNCHANGED <<stored, keyText, items, busy, pending, entered, hasty, kept, failed, clicks>>

DeviceNext ==
    \/ \E k \in Key : TypeKey(k)
    \/ SaveKeys \/ Enqueue \/ Flush \/ Reload \/ ServeList
    \/ \E p \in pending : Answer(p)
    \/ Uplink \/ QueuedByOthers

\* The timer fires; a list is served and delivered, the true and the others.
AnswerList(fresh) ==
    \E p \in pending : p.kind = "list" /\ (p.items = queue) = fresh /\ Answer(p)

-----------------------------------------------------------------------------
(* Properties *)

\* A command the page said was queued waits until the device received it or the
\* page was asked to flush the queue; and the key typed last is still in the
\* field, on its way or saved, unless it was typed with another on its way.
DeviceAsTold ==
    /\ kept \subseteq queue
    /\ hasty \/ entered \in {None, keyText, stored} \cup {p.of : p \in KeysOnTheirWay}

\* The panel shows the queue.
QueueShown == items = queue
=============================================================================
