-------------------------- MODULE MeterReadingsMC --------------------------
(* Small instances of MeterReadings for TLC. *)
EXTENDS MeterReadings

CONSTANTS t1, t2, d1

\* Noon and midnight half a day apart; two hours past midnight, too late to
\* compute a flow.
Gaps == {12, 50}
Row(index, valve, alarms) ==
    [index |-> index, valve |-> valve, battery |-> FALSE, alarms |-> alarms]
\* 600 litres in half a day reach the default threshold, in a day that of the
\* night; 2 litres in a day reach the smallest one by rounding alone.
Payloads == {Row(0, FALSE, {}), Row(600, FALSE, {}), Row(602, None, {}),
             Row(None, TRUE, {"device_flow_alarm"}), Row(None, None, {})}

\* The second tenant stores a midnight start, read as 22 h, and an interval
\* that is too long for half a day.
Defaults == [enabled |-> TRUE, flow |-> 500, night |-> 200, start |-> 22, end |-> 6, least |-> 1]
Rows == [t \in Tenant |-> IF t = t1 THEN None
    ELSE [enabled |-> TRUE, flow |-> 1, night |-> 0, start |-> 0, end |-> 6, least |-> 13]]

=============================================================================
