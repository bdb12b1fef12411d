------------------------- MODULE UplinkConsumersMC -------------------------
(* Small instances of UplinkConsumers for TLC. *)
EXTENDS UplinkConsumers, TLC

CONSTANTS t1, r1, q1, a1, a2

\* A rule and an MQTT connector of one tenant; events may belong to nobody.
Kinds == [id \in Id |-> IF id = q1 THEN "mqtt" ELSE "rule"]
Readings == {-1, 0}
Owners == [id \in Id |-> t1]
Conditions == [id \in Id |-> [op |-> "lt", value |-> 0]]

\* Bound: a second session and new passwords only before the first event and
\* the first start of a service.
Calm == /\ views[a2] = Closed /\ rows[q1].secret # "p2"
        /\ views[a1] = Closed \/ ~(views[a1].new \/ views[a1].late \/ views[a1].kept = "p2")

Quiet == events = <<>> /\ \A w \in Worker : links[w] = "down"

OfficeSpec == Init /\ [][Next /\ (Quiet' \/ Calm')]_vars /\ Fairness
=============================================================================
