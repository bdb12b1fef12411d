-------------------------- MODULE UplinkConsumers --------------------------
(***************************************************************************)
(* What happens to an uplink event on NATS: rule-engine evaluates the      *)
(* tenant's rules, connector-worker and connector-mcp-worker hand it to    *)
(* the tenant's connectors, while administrators create, toggle and delete *)
(* the rows that the three services read.                                  *)
(*                                                                         *)
(* Each service holds one core NATS subscription and handles one message   *)
(* at a time; what NATS publishes while it is away is lost.  A row is read *)
(* when its event is taken and used later, after it may have changed.      *)
(***************************************************************************)
EXTENDS Integers, Sequences

CONSTANTS
    Tenant,        \* platform tenants
    None,          \* no tenant
    Id,            \* ids of rules and tenant_connectors
    KindOf,        \* id -> "rule", or the type of a connector
    OwnerOf,       \* id -> tenant_id
    ConditionOf,   \* id -> condition_json of a rule
    Reading,       \* values of the field that conditions look at
    Worker,        \* the services that are deployed
    Admin,         \* browser sessions of administrators
    Password,      \* passwords and keys that a connector may hold
    PendingLimit,  \* what a NATS subscription holds before it drops
    MaxEvents,     \* bound on events
    MaxFaults      \* bound on faults

Connector == {"http", "mqtt", "mcp"}
Op == {"lt", "lte", "gt", "gte", "eq", "unknown"}
MaybeTenant == Tenant \cup {None}

ASSUME RowAssumption ==
    /\ KindOf \in [Id -> Connector \cup {"rule"}]
    /\ OwnerOf \in [Id -> MaybeTenant]
    /\ \A id \in Id : KindOf[id] \in Connector => OwnerOf[id] # None
    /\ None \notin Tenant
    /\ "mask" \notin Password /\ "none" \notin Password
ASSUME WorkerAssumption ==
    Worker \subseteq {"rule-engine", "connector-worker", "connector-mcp-worker"}
ASSUME ConditionAssumption ==
    /\ Reading \subseteq Int
    /\ ConditionOf \in [Id -> [op : Op, value : Int]]
ASSUME BoundAssumption ==
    /\ PendingLimit \in Nat \ {0}
    /\ MaxEvents \in Nat /\ MaxFaults \in Nat

VARIABLES
    rows,       \* id -> its row: live?, enabled, the secret in its config
    views,      \* session -> the connector it shows and may be saving
    events,     \* every uplink event published, in order
    links,      \* worker -> the state of its NATS connection
    pending,    \* worker -> events received and not taken
    jobs,       \* worker -> the event it handles and the rows still to serve
    calls,      \* every outgoing call, in order: row and event
    executions, \* rule_executions: row and event
    faults      \* number of faults so far
    
VARIABLE
    offSince    \* history: events published when the row was last switched off

rowVars == <<rows, views, offSince>>
busVars == <<links, pending>>
vars == <<rows, views, events, links, pending, jobs, calls, executions, faults, offSince>>

Secret == Password \cup {"mask", "none"}
Row == [status : {"new", "live", "deleted"}, enabled : BOOLEAN, secret : Secret]

\* What a session shows, or what it saves: new says that the request brings a
\* password of its own; late (history) that another session wrote the row after
\* this request read it.
Closed == [step |-> "none"]
View == [step : {"shown", "saving"}, id : Id, enabled : BOOLEAN, kept : Secret,
         new : BOOLEAN, late : BOOLEAN]

\* What a handler holds: the rows still to serve, and the rule whose actions
\* have run but are not logged yet.
Idle == [event |-> 0, todo |-> {}, unlogged |-> {}]
Job == [event : Nat, todo : SUBSET Id, unlogged : SUBSET Id]

Event == [tenant : MaybeTenant, reading : Reading]

Use == [id : Id, event : Nat]

TypeOK ==
    /\ rows \in [Id -> Row]
    /\ views \in [Admin -> {Closed} \cup View]
    /\ events \in Seq(Event)
    /\ links \in [Worker -> {"down", "subscribed", "reconnecting", "closed"}]
    /\ pending \in [Worker -> Seq(Nat)]
    /\ jobs \in [Worker -> Job]
    /\ calls \in Seq(Use)
    /\ executions \subseteq Use
    /\ faults \in Nat
    /\ offSince \in [Id -> Nat]

Init ==
    /\ rows = [id \in Id |-> [status |-> "new", enabled |-> FALSE, secret |-> "none"]]
    /\ views = [a \in Admin |-> Closed]
    /\ events = <<>>
    /\ links = [w \in Worker |-> "down"]
    /\ pending = [w \in Worker |-> <<>>]
    /\ jobs = [w \in Worker |-> Idle]
    /\ calls = <<>> /\ executions = {}
    /\ faults = 0
    /\ offSince = [id \in Id |-> 0]

Fault == faults < MaxFaults /\ faults' = faults + 1
Either(good, bad) == (good /\ UNCHANGED faults) \/ (bad /\ Fault)

Active(id) == rows[id].status = "live" /\ rows[id].enabled

-----------------------------------------------------------------------------
(* platform-api: rules and connectors *)

\* createRule or createConnector: enabled, a connector with its secret.
CreateRow(id) ==
    /\ rows[id].status = "new"
    /\ \E secret \in IF KindOf[id] = "rule" THEN {"none"} ELSE Password :
          rows' = [rows EXCEPT ![id] = [status |-> "live", enabled |-> TRUE,
                                        secret |-> secret]]
    /\ UNCHANGED <<views, events, busVars, jobs, calls, executions, faults, offSince>>

\* Mutant: rule_executions keeps the rows of a deleted rule.
DeleteRowAlone(id) ==
    /\ rows[id].status = "live"
    /\ rows' = [rows EXCEPT ![id].status = "deleted"]
    /\ offSince' = [offSince EXCEPT ![id] = IF Active(id) THEN Len(events) ELSE @]
    /\ UNCHANGED <<views, events, busVars, jobs, calls, executions, faults>>

\* deleteRule or deleteConnector; the executions of a rule go with it
\* (ON DELETE CASCADE).
DeleteRow(id) ==
    /\ rows[id].status = "live"
    /\ rows' = [rows EXCEPT ![id].status = "deleted"]
    /\ executions' = {x \in executions : x.id # id}
    /\ offSince' = [offSince EXCEPT ![id] = IF Active(id) THEN Len(events) ELSE @]
    /\ UNCHANGED <<views, events, busVars, jobs, calls, faults>>

\* What a session knows of a connector, its secret as given.
Shown(id, secret) == [step |-> "shown", id |-> id, enabled |-> rows[id].enabled,
                      kept |-> secret, new |-> FALSE, late |-> FALSE]

\* Mutant: the list holds the secrets themselves.
ShowUnmasked(id) == Shown(id, rows[id].secret)

\* maskConnector: the list masks what it holds of secrets, but for MCP.
MaskConnector(id) == Shown(id, IF KindOf[id] = "mcp" THEN rows[id].secret ELSE "mask")

\* The page loads a connector.
ShowConnector(a, id) ==
    /\ KindOf[id] \in Connector /\ rows[id].status = "live"
    /\ views' = [views EXCEPT ![a] = MaskConnector(id)]
    /\ UNCHANGED <<rows, events, busVars, jobs, calls, executions, faults, offSince>>

\* Mutant: only an absent password is taken from the stored one.
MergeConnectorSecretsIfEmpty(id, sent) == sent

\* mergeConnectorSecrets: a masked MQTT password stands for the stored one;
\* the headers of an HTTP connector are taken as they are sent.
MergeConnectorSecrets(id, sent) ==
    IF KindOf[id] = "mqtt" /\ sent = "mask" THEN rows[id].secret
    ELSE sent

\* toggleEnabled sends the row back as it was shown, with the opposite flag.
Toggled(v) == [v EXCEPT !.step = "saving", !.enabled = ~@,
                        !.kept = MergeConnectorSecrets(v.id, @)]

\* A request with a new password names no flag: the stored one stays.
Rekeyed(v, password) == [v EXCEPT !.step = "saving", !.enabled = rows[v.id].enabled,
                                  !.kept = password, !.new = TRUE]

\* updateConnector reads the stored row (404 when it is gone) ...
ReadForUpdate(a) ==
    LET v == views[a] IN
    /\ v.step = "shown"
    /\ IF rows[v.id].status # "live" THEN views' = [views EXCEPT ![a] = Closed]
       ELSE \/ views' = [views EXCEPT ![a] = Toggled(v)]
            \/ \E p \in Password : views' = [views EXCEPT ![a] = Rekeyed(v, p)]
    /\ UNCHANGED <<rows, events, busVars, jobs, calls, executions, faults, offSince>>

\* The requests that have read the row and not written it yet.
Saving(a, id) == views[a].step = "saving" /\ views[a].id = id

\* ... and writes all its columns.
UpdateConnector(a) ==
    LET v == views[a]
        off == Active(v.id) /\ ~v.enabled
    IN /\ v.step = "saving"
       /\ IF rows[v.id].status = "live"
          THEN /\ rows' = [rows EXCEPT ![v.id].enabled = v.enabled, ![v.id].secret = v.kept]
               /\ offSince' = [offSince EXCEPT ![v.id] = IF off THEN Len(events) ELSE @]
          ELSE UNCHANGED <<rows, offSince>>
       /\ views' = [b \in Admin |-> IF b = a THEN Closed
                                    ELSE IF Saving(b, v.id) THEN [views[b] EXCEPT !.late = TRUE]
                                    ELSE views[b]]
       /\ UNCHANGED <<events, busVars, jobs, calls, executions, faults>>

AdminStep ==
    \/ \E id \in Id : CreateRow(id) \/ DeleteRow(id)
    \/ \E a \in Admin, id \in Id : ShowConnector(a, id)
    \/ \E a \in Admin : ReadForUpdate(a) \/ UpdateConnector(a)

-----------------------------------------------------------------------------
(* NATS *)

\* The subscriptions that receive an event published now.
Receive(n) ==
    pending' = [w \in Worker |->
                  IF links[w] = "subscribed" /\ Len(pending[w]) < PendingLimit
                  THEN Append(pending[w], n) ELSE pending[w]]

Publish(e) ==
    /\ Len(events) < MaxEvents
    /\ events' = Append(events, e)
    /\ Receive(Len(events) + 1)
    /\ UNCHANGED <<rowVars, links, jobs, calls, executions, faults>>

Start(w) ==
    /\ links[w] = "down"
    /\ links' = [links EXCEPT ![w] = "subscribed"]
    /\ UNCHANGED <<rowVars, events, pending, jobs, calls, executions, faults>>

Disconnect(w) ==
    /\ links[w] = "subscribed"
    /\ Fault
    /\ links' = [links EXCEPT ![w] = "reconnecting"]
    /\ UNCHANGED <<rowVars, events, pending, jobs, calls, executions>>

\* The client library subscribes again by itself ...
Reconnect(w) ==
    /\ links[w] = "reconnecting"
    /\ links' = [links EXCEPT ![w] = "subscribed"]
    /\ UNCHANGED <<rowVars, events, pending, jobs, calls, executions, faults>>

\* ... or closes the connection after its last attempt; main keeps waiting
\* for a signal.
GiveUp(w) ==
    /\ links[w] = "reconnecting"
    /\ links' = [links EXCEPT ![w] = "closed"]
    /\ pending' = [pending EXCEPT ![w] = <<>>]
    /\ UNCHANGED <<rowVars, events, jobs, calls, executions, faults>>

Crash(w) ==
    /\ links[w] # "down"
    /\ Fault
    /\ links' = [links EXCEPT ![w] = "down"]
    /\ pending' = [pending EXCEPT ![w] = <<>>]
    /\ jobs' = [jobs EXCEPT ![w] = Idle]
    /\ UNCHANGED <<rowVars, events, calls, executions>>

-----------------------------------------------------------------------------
(* The handlers *)

\* matchCondition; an operator it does not know never matches.
MatchCondition(c, x) ==
    \/ c.op = "lt"  /\ x < c.value
    \/ c.op = "lte" /\ x <= c.value
    \/ c.op = "gt"  /\ x > c.value
    \/ c.op = "gte" /\ x >= c.value
    \/ c.op = "eq"  /\ x = c.value

\* What each service selects: rule-engine takes an event of no tenant to the
\* rules of no tenant, the connector services ignore it; connector-worker does
\* not select by type.
Selects(w, id, e) ==
    /\ OwnerOf[id] = e.tenant
    /\ CASE w = "rule-engine" -> /\ KindOf[id] = "rule"
                                 /\ MatchCondition(ConditionOf[id], e.reading)
         [] w = "connector-worker" -> KindOf[id] \in Connector
         [] w = "connector-mcp-worker" -> KindOf[id] = "mcp"

\* Mutant: the queries lose enabled = true.
ListEnabledOrNot(w, e) == {id \in Id : rows[id].status # "new" /\ Selects(w, id, e)}

\* Mutant: the queries lose the tenant.
ListEnabledOfAll(w, e) ==
    {id \in Id : Active(id) /\ (KindOf[id] = "rule" <=> w = "rule-engine")}

ListEnabled(w, e) == {id \in Id : Active(id) /\ Selects(w, id, e)}

\* A query that fails ends the handler: the event is gone.
Take(w) ==
    /\ links[w] # "down"
    /\ jobs[w] = Idle /\ pending[w] # <<>>
    /\ LET n == Head(pending[w])
           todo == ListEnabled(w, events[n])
           job == IF todo = {} THEN Idle ELSE [event |-> n, todo |-> todo, unlogged |-> {}]
       IN Either(jobs' = [jobs EXCEPT ![w] = job], UNCHANGED jobs)
    /\ pending' = [pending EXCEPT ![w] = Tail(@)]
    /\ UNCHANGED <<rowVars, events, links, calls, executions>>

\* Mutant: the "mqtt" branch of Dispatch is missing.
CallableOverHttp(w, id) == w = "connector-worker" => KindOf[id] = "http"

\* connector-worker has no way to call an MCP server.
Callable(w, id) == w = "connector-worker" => KindOf[id] # "mcp"

\* The job once the rows in todo and the execution in unlogged remain.
Left(w, todo, unlogged) ==
    IF todo \cup unlogged = {} THEN Idle
    ELSE [event |-> jobs[w].event, todo |-> todo, unlogged |-> unlogged]

\* The actions of a rule, or the delivery to a connector.  The other side may
\* refuse or not answer: that is logged, and the next row is served.
Call(w, id) ==
    /\ links[w] # "down"
    /\ jobs[w].unlogged = {} /\ id \in jobs[w].todo
    /\ calls' = IF Callable(w, id) THEN Append(calls, [id |-> id, event |-> jobs[w].event])
                ELSE calls
    /\ jobs' = [jobs EXCEPT ![w] = Left(w, @.todo \ {id},
                                        IF w = "rule-engine" THEN {id} ELSE {})]
    /\ UNCHANGED <<rowVars, events, busVars, executions, faults>>

\* ExecutionStore.Insert, once the actions have run; the foreign key refuses a
\* rule that is gone, and an error is only logged.
InsertExecution(w, id) ==
    /\ links[w] # "down"
    /\ id \in jobs[w].unlogged
    /\ jobs' = [jobs EXCEPT ![w] = Left(w, @.todo, {})]
    /\ LET x == [id |-> id, event |-> jobs[w].event]
       IN IF rows[id].status = "live"
          THEN Either(executions' = executions \cup {x}, UNCHANGED executions)
          ELSE UNCHANGED <<executions, faults>>
    /\ UNCHANGED <<rowVars, events, busVars, calls>>

HandlerStep(w) == Take(w) \/ \E id \in Id : Call(w, id) \/ InsertExecution(w, id)

\* Everything but the publication.
ConsumerNext ==
    \/ AdminStep
    \/ \E w \in Worker : Start(w) \/ Reconnect(w) \/ HandlerStep(w)
    \/ \E w \in Worker : Disconnect(w) \/ GiveUp(w) \/ Crash(w)

Next ==
    \/ \E e \in Event : Publish(e)
    \/ ConsumerNext

Spec == Init /\ [][Next]_vars

\* Docker restarts the services, and every step of the Go handlers ends: their
\* HTTP and MQTT calls have timeouts.  The MCP call has none.
Fairness ==
    /\ \A w \in Worker : WF_vars(Start(w))
    /\ \A w \in Worker \ {"connector-mcp-worker"} : WF_vars(HandlerStep(w))

FairSpec == Spec /\ Fairness

-----------------------------------------------------------------------------
(* Correctness *)

\* A call carries an event of one tenant to a rule or a connector of that
\* tenant, and a rule runs on no event that its condition rejects (the WHERE
\* clauses of the three services and matchCondition).
TenantsKeptApart ==
    \A i \in 1..Len(calls) :
        LET id == calls[i].id  e == events[calls[i].event]
        IN /\ OwnerOf[id] = e.tenant
           /\ KindOf[id] = "rule" => MatchCondition(ConditionOf[id], e.reading)

\* The execution log only speaks of rules that exist and of actions that ran
\* (rule_executions.rule_id and the order of Run and Insert).
LogOfRealRuns ==
    \A x \in executions :
        /\ rows[x.id].status = "live"
        /\ \E i \in 1..Len(calls) : calls[i] = x

\* A call carries an event of a tenant to a rule or connector of that tenant
\* which asked for it, and the execution log only speaks of rules that exist
\* and of actions that ran.
CallsAndLogAgree == TenantsKeptApart /\ LogOfRealRuns

\* Once a row is deleted or disabled, no event published from then on reaches
\* it, although handlers work on lists that they read earlier.
NoCallAfterOff ==
    [][calls' # calls =>
         LET c == calls'[Len(calls')]
         IN Active(c.id) \/ c.event <= offSince[c.id]]_vars

\* The password of an MQTT connector is never replaced by the mask that the
\* browsers are shown, and changes only when a request brings a new one, or when
\* two requests met: one wrote between the other's read and its write (the
\* update that is lost).  A page that is merely old, however many updates it has
\* missed, never brings an old password back.
PasswordKept ==
    [][\A id \in Id :
         KindOf[id] = "mqtt" /\ rows[id].status = "live" /\ rows'[id].secret # rows[id].secret
         => /\ rows'[id].secret \in Password
            /\ \E a \in Admin : /\ Saving(a, id) /\ views'[a] = Closed
                               /\ (views[a].new \/ views[a].late)]_vars

\* The Go service that serves a row.
ServiceOf(id) == IF KindOf[id] = "rule" THEN "rule-engine" ELSE "connector-worker"

Due(id, n) ==
    LET received == pending[ServiceOf(id)]
    IN /\ n \in {received[i] : i \in 1..Len(received)}
       /\ Active(id) /\ KindOf[id] # "mcp" /\ Selects(ServiceOf(id), id, events[n])

Called(id, n) == \E i \in 1..Len(calls) : calls[i] = [id |-> id, event |-> n]

\* Unless something fails or the row is switched off, an event that a Go
\* service has received reaches every row it is due to.
DueIsCalled ==
    \A id \in Id, n \in 1..MaxEvents :
        Due(id, n) ~> Called(id, n) \/ ~Active(id) \/ faults > 0
=============================================================================
