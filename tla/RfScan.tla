------------------------------- MODULE RfScan -------------------------------
(***************************************************************************)
(* Spectral scans of the gateways.  A user asks platform-api for a scan    *)
(* (internal/handler/rf_scan.go, internal/store/rf_scan.go); the agent on  *)
(* the gateway (scripts/gateway-rf-scan-agent.sh) polls for the oldest     *)
(* open request, scans and uploads the result.  The script ends at the     *)
(* first command that fails, and nothing of the repository starts it       *)
(* again.                                                                  *)
(***************************************************************************)
EXTENDS Integers, Sequences, FiniteSets

CONSTANTS
    Gateway,
    Asker,           \* the requests for a scan
    None,
    MaxScanFaults,   \* bound: calls and commands that fail
    MaxReturns       \* bound: times the agents are started again

VARIABLES
    table,      \* gateway_rf_scan_requests by creation: [gw, status]
    results,    \* gateway_rf_scans: the set of [gw, request, nth]
    asking,     \* where each asker is: "idle", "insert" or "done"
    askGw,      \* its gateway
    agent,      \* where the agent of each gateway is
    job,        \* the request it works on
    raced,      \* history: the gateways asked for by two askers at once, or blindly
    scanFaults, returns

scanVars == <<table, results, asking, askGw, agent, job, raced, scanFaults, returns>>

AgentSteps == {"poll", "picked", "scan", "save", "complete", "down"}

ScanInit ==
    /\ table = <<>> /\ results = {}
    /\ asking = [a \in Asker |-> "idle"] /\ askGw = [a \in Asker |-> None]
    /\ agent = [g \in Gateway |-> "poll"] /\ job = [g \in Gateway |-> 0]
    /\ raced = {} /\ scanFaults = 0 /\ returns = 0

ScanFault == scanFaults < MaxScanFaults /\ scanFaults' = scanFaults + 1

ScanWell == UNCHANGED scanFaults

(* Mutant: a running request is not found again.                           *)
IsPending(i) == table[i].status = "pending"

IsOpen(i) == table[i].status \in {"pending", "running"}

OpenOf(g) == {i \in DOMAIN table : table[i].gw = g /\ IsOpen(i)}

(* PendingRequest: the oldest pending or running request.                  *)
PendingRequest(g) == CHOOSE i \in OpenOf(g) : \A j \in OpenOf(g) : i <= j

-----------------------------------------------------------------------------
(* POST .../rf-scan/request *)

(* Mutant: what is open already is not looked for.                         *)
AskBlindly(a) ==
    /\ asking[a] = "idle"
    /\ \E g \in Gateway :
         /\ askGw' = [askGw EXCEPT ![a] = g]
         /\ asking' = [asking EXCEPT ![a] = "insert"]
         /\ raced' = IF \E b \in Asker : asking[b] = "insert" /\ askGw[b] = g
                     THEN raced \cup {g} ELSE raced
    /\ ScanWell /\ UNCHANGED <<table, results, agent, job, returns>>

(* An open request answers for a new one.  A look-up that fails counts as  *)
(* none found.                                                             *)
AskScan(a) ==
    /\ asking[a] = "idle"
    /\ \E g \in Gateway :
         LET meets == \E b \in Asker : asking[b] = "insert" /\ askGw[b] = g IN
         /\ askGw' = [askGw EXCEPT ![a] = g]
         /\ \/ /\ asking' = [asking EXCEPT ![a] = IF OpenOf(g) = {} THEN "insert" ELSE "done"]
               /\ raced' = IF meets THEN raced \cup {g} ELSE raced
               /\ ScanWell
            \/ /\ asking' = [asking EXCEPT ![a] = "insert"]
               /\ raced' = raced \cup {g}
               /\ ScanFault
    /\ UNCHANGED <<table, results, agent, job, returns>>

(* CreateRequest                                                           *)
InsertRequest(a) ==
    /\ asking[a] = "insert"
    /\ asking' = [asking EXCEPT ![a] = "done"]
    /\ \/ table' = Append(table, [gw |-> askGw[a], status |-> "pending"]) /\ ScanWell
       \/ ScanFault /\ UNCHANGED table
    /\ UNCHANGED <<results, askGw, agent, job, raced, returns>>

-----------------------------------------------------------------------------
(* The agent *)

Turns(g, to) == agent' = [agent EXCEPT ![g] = to]

SetStatus(i, s) == table' = [table EXCEPT ![i].status = s]

(* GET .../rf-scan/pending finds a request.  A poll that fails counts as   *)
(* nothing to do, whether or not the API served it.                        *)
Poll(g) ==
    /\ agent[g] = "poll" /\ OpenOf(g) # {}
    /\ \/ /\ job' = [job EXCEPT ![g] = PendingRequest(g)] /\ Turns(g, "picked") /\ ScanWell
       \/ ScanFault /\ UNCHANGED <<agent, job>>
    /\ UNCHANGED <<table, results, asking, askGw, raced, returns>>

(* MarkRequestRunning: its failure is not looked at.                       *)
MarkRunning(g) ==
    /\ agent[g] = "picked"
    /\ \/ /\ IF table[job[g]].status = "pending" THEN SetStatus(job[g], "running")
                                                 ELSE UNCHANGED table
          /\ Turns(g, "scan") /\ ScanWell
       \/ Turns(g, "scan") /\ ScanFault /\ UNCHANGED table
       \/ /\ IF table[job[g]].status = "pending" THEN SetStatus(job[g], "running")
                                                 ELSE UNCHANGED table
          /\ Turns(g, "poll") /\ ScanFault
    /\ UNCHANGED <<results, asking, askGw, job, raced, returns>>

(* run_scan, whose failure ends the script.                                *)
Scan(g) ==
    /\ agent[g] = "scan"
    /\ \/ Turns(g, "save") /\ ScanWell
       \/ Turns(g, "down") /\ ScanFault
    /\ UNCHANGED <<table, results, asking, askGw, job, raced, returns>>

(* SaveResult inserts the result.                                          *)
SaveResult(g) ==
    /\ agent[g] = "save"
    /\ \/ /\ results' = results \cup
               {[gw |-> g, request |-> job[g],
                 nth |-> Cardinality({x \in results : x.request = job[g]}) + 1]}
          /\ Turns(g, "complete") /\ ScanWell
       \/ Turns(g, "down") /\ ScanFault /\ UNCHANGED results
    /\ UNCHANGED <<table, asking, askGw, job, raced, returns>>

(* SaveResult completes the request; its failure is not looked at.  An     *)
(* answer that is lost ends the script.                                    *)
Complete(g) ==
    /\ agent[g] = "complete"
    /\ \/ SetStatus(job[g], "completed") /\ Turns(g, "poll") /\ ScanWell
       \/ UNCHANGED table /\ Turns(g, "poll") /\ ScanFault
       \/ SetStatus(job[g], "completed") /\ Turns(g, "down") /\ ScanFault
    /\ UNCHANGED <<results, asking, askGw, job, raced, returns>>

(* Somebody starts the script again.                                       *)
StartAgain(g) ==
    /\ agent[g] = "down" /\ returns < MaxReturns /\ returns' = returns + 1
    /\ Turns(g, "poll") /\ job' = [job EXCEPT ![g] = 0]
    /\ UNCHANGED <<table, results, asking, askGw, raced, scanFaults>>

ScanNext ==
    \/ \E a \in Asker : AskScan(a) \/ InsertRequest(a)
    \/ \E g \in Gateway :
         \/ Poll(g) \/ MarkRunning(g) \/ Scan(g) \/ SaveResult(g) \/ Complete(g)
         \/ StartAgain(g)

(* The script loops as long as it runs, and its calls end.                 *)
AgentStep(g) == Poll(g) \/ MarkRunning(g) \/ Scan(g) \/ SaveResult(g) \/ Complete(g)

ScanSpec ==
    /\ ScanInit /\ [][ScanNext]_scanVars
    /\ \A g \in Gateway : WF_scanVars(AgentStep(g))

-----------------------------------------------------------------------------
(* Properties *)

ScanTypeOK ==
    /\ \A i \in DOMAIN table : table[i] \in
         [gw : Gateway, status : {"pending", "running", "completed"}]
    /\ \A x \in results : x.gw \in Gateway /\ x.request \in DOMAIN table /\ x.nth \in Nat
    /\ asking \in [Asker -> {"idle", "insert", "done"}]
    /\ askGw \in [Asker -> Gateway \cup {None}]
    /\ agent \in [Gateway -> AgentSteps]
    /\ \A g \in Gateway : job[g] \in {0} \cup DOMAIN table
    /\ raced \subseteq Gateway
    /\ scanFaults \in 0..MaxScanFaults /\ returns \in 0..MaxReturns

(* A gateway has one open request at a time, unless two users asked at     *)
(* once or a look-up failed.                                               *)
OneOpenRequest ==
    \A g \in Gateway : g \in raced \/ \A i, j \in OpenOf(g) : i = j

Unserved(i) == i \in DOMAIN table /\ table[i].status # "completed"

(* Every request is completed, or the agent of its gateway has ended: a    *)
(* failure that leaves the request open is made good by the next poll, and *)
(* the requests that raced are served one after the other.                 *)
ScansSettle ==
    \A i \in 1..Cardinality(Asker) :
      Unserved(i) ~> (~Unserved(i) \/ agent[table[i].gw] = "down")
=============================================================================
