----------------------------- MODULE GatewaysMC -----------------------------
(***************************************************************************)
(* What runs with the gateways, side by side: mqtt-ingestion, which gets   *)
(* what they hear (UplinkIngestion), and the fleet's VPN profiles and RF   *)
(* scans (FleetMC).  The initial state picks the part that runs.           *)
(***************************************************************************)
EXTENDS FleetMC, UplinkIngestion, TLC

CONSTANTS d1, d2, t1, t2

VARIABLE side       \* "radio" or "fleet"

\* d1 belongs to t1 but is heard by a gateway of t2; nobody owns d2.
OneOwned ==
    [l \in Lookup |-> d1 :> (IF l = "gateway" THEN t2 ELSE t1) @@ d2 :> None]

GatewaysInit ==
    /\ side \in {"radio", "fleet"} /\ Init /\ FleetInit
    /\ side = "radio" => part = "vpn"

GatewaysNext ==
    /\ UNCHANGED side
    /\ \/ side = "radio" /\ UNCHANGED fleetVars /\ Next
       \/ side = "fleet" /\ UNCHANGED vars /\ FleetNext

gatewaysVars == <<side, vars, fleetVars>>

RadioStep(A) == side = "radio" /\ UNCHANGED <<side, fleetVars>> /\ A

\* The fairness of both parts: FleetFairness is about RF scans alone.
GatewaysSpec ==
    /\ GatewaysInit /\ [][GatewaysNext]_gatewaysVars
    /\ FleetFairness
    /\ WF_gatewaysVars(RadioStep(HandlerStep)) /\ WF_gatewaysVars(RadioStep(Lifecycle))
=============================================================================
