------------------------------- MODULE FleetMC -------------------------------
(***************************************************************************)
(* Components that share nothing are checked side by side: the initial     *)
(* state picks the one that runs, so that their states add up instead of   *)
(* multiplying.                                                            *)
(***************************************************************************)
EXTENDS VpnProfiles, Sequences

CONSTANTS Asker, MaxScanFaults, MaxReturns

VARIABLES
    part,       \* the component that runs
    table, results, asking, askGw, agent, job, raced, scanFaults, returns

vpnPart == <<ca, server, keyed, issued, last, revoked, crl, profile, column,
             at, kind, cn, got, cutShort, mixed, vpnFaults, restarts>>
scanPart == <<table, results, asking, askGw, agent, job, raced, scanFaults, returns>>

Rf == INSTANCE RfScan WITH Gateway <- CommonName, None <- NoName

FleetInit == part \in {"vpn", "rf"} /\ VpnInit /\ Rf!ScanInit

FleetNext ==
    /\ UNCHANGED part
    /\ \/ part = "vpn" /\ UNCHANGED scanPart /\ VpnNext
       \/ part = "rf" /\ UNCHANGED vpnPart /\ Rf!ScanNext

fleetVars == <<part, vpnPart, scanPart>>

FleetFairness ==
    \A g \in CommonName : WF_fleetVars(part = "rf" /\ UNCHANGED <<part, vpnPart>> /\ Rf!AgentStep(g))

FleetSpec == FleetInit /\ [][FleetNext]_fleetVars /\ FleetFairness

-----------------------------------------------------------------------------
(* The properties of the parts, VpnProfiles and RfScan.                    *)

(* The records of a gateway belong together: its VPN profile, key and      *)
(* certificate; and its scan requests, of which one is open at a time, but *)
(* for races and failed look-ups.                                          *)
GatewayRecordsAgree == ProfileInForce /\ Rf!OneOpenRequest

(* Every scan request is completed or its agent has ended.                 *)
ScansSettle == Rf!ScansSettle
=============================================================================
