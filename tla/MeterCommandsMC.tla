-------------------------- MODULE MeterCommandsMC --------------------------
(***************************************************************************)
(* A small instance of MeterCommands for TLC, used in two ways: two        *)
(* devices whose commands, acks and faults interleave freely, and one      *)
(* device whose commands are sent one at a time.  The initial state picks  *)
(* one of them.                                                            *)
(***************************************************************************)
EXTENDS MeterCommands, TLC

CONSTANTS
    d1, d2, t1, t2, open, close,
    Single,      \* the device whose commands are sent one at a time
    FreePayload, \* what is sent when commands interleave
    MaxFree      \* bound on commands and acks that interleave

VARIABLE part    \* "free" or "in turn"

OneTenantPerDevice == d1 :> t1 @@ d2 :> t2

CommandsInit == part \in {"free", "in turn"} /\ Init

WithinBounds ==
    /\ Len(events) <= MaxFree
    /\ \A c \in Command : row[c].payload \in {None, FreePayload}
                          /\ (c > MaxFree => row[c].status = "none")
    /\ \A d \in Device : \A i \in 1..Len(queue[d]) : queue[d][i].payload = FreePayload

OneDevice == \A c \in Command : row[c].device \in {None, Single}

CommandsNext ==
    /\ UNCHANGED part
    /\ \/ part = "free" /\ Next /\ WithinBounds'
       \/ part = "in turn" /\ SerialNext /\ OneDevice'

CommandsSpec == CommandsInit /\ [][CommandsNext]_<<part, vars>> /\ Fairness

\* When commands are sent one at a time, each acknowledged command is the one
\* that the device confirmed, although earlier ones may have been flushed,
\* refused by the device or lost their ack (acknowledge_command).
AttributedInTurn == part = "in turn" => SerialAttribution
=============================================================================
