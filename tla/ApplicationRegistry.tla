------------------------- MODULE ApplicationRegistry -------------------------
(***************************************************************************)
(* Applications (services/platform-api, internal/handler/lorawan_write.go, *)
(* onboarding.go, tenant_ctx.go).  An application lives in a tenant of     *)
(* ChirpStack, its network here; tenant_applications files it under a      *)
(* tenant of the platform, which owns its devices and their telemetry.     *)
(* Requests list, create or bootstrap; each finds out twice which tenant   *)
(* it acts for, with ChirpStack's answer in between: first the network     *)
(* (effectiveTenantID), then the platform's tenant (platformTenantID).     *)
(* A new tenant files the applications of the network it adopts.           *)
(*                                                                         *)
(* A user is [tenant, chosen]: the network in the token (or that of an API *)
(* key's tenant), and the ?tenantId= of an administrator.  Authentication  *)
(* is on.  Device profiles, names and limits of lists are left out.        *)
(***************************************************************************)
EXTENDS Naturals, FiniteSets

CONSTANTS
    Request, Tenant, Network, Application,
    User,             \* the users that send requests
    DefaultNetwork,   \* CHIRPSTACK_TENANT_ID, None when not set
    NetworkAtFirst,   \* the tenants at first, each with its network or None
    None,
    MaxAppFaults      \* bound: failing calls and lost answers

VARIABLES
    net,          \* tenants: each tenant's network or None; "new", "gone"
    networks,     \* the tenants ChirpStack has
    app,          \* ChirpStack: each application's network; None before, "gone" after
    filed,        \* tenant_applications: the tenant of each application
    job,          \* each request: [at, kind, user, net, todo, owner, sound]
    booted,       \* history: the applications bootstraps made
    met,          \* history: the bootstraps that ran beside another one
    doubted,      \* history: the applications whose row has an excuse
    appFaults

(* The platform's words for a tenant's network are no network's name.      *)
AppsAssumption ==
    /\ None \notin Network \cup Tenant \cup {"new", "gone"} /\ {"new", "gone"} \cap Network = {}
    /\ DefaultNetwork \in Network \cup {None}
    /\ User \subseteq [tenant : Network \cup {None}, chosen : Tenant \cup {None}]
    /\ \A t \in DOMAIN NetworkAtFirst : NetworkAtFirst[t] \in Network \cup {None}

appVars == <<net, networks, app, filed, job, booted, met, doubted, appFaults>>

Kinds == {"list", "create", "bootstrap"}

Unasked == [at |-> "idle", kind |-> "list", user |-> [tenant |-> None, chosen |-> None],
            net |-> None, todo |-> {}, owner |-> None, sound |-> TRUE]

AppsInit ==
    /\ net = [t \in Tenant |-> IF t \in DOMAIN NetworkAtFirst THEN NetworkAtFirst[t] ELSE "new"]
    /\ networks = Network
    /\ app = [x \in Application |-> None] /\ filed = [x \in Application |-> None]
    /\ job = [a \in Request |-> Unasked]
    /\ booted = {} /\ met = {} /\ doubted = {} /\ appFaults = 0

Present == {t \in Tenant : net[t] \in Network \cup {None}}

Living == {x \in Application : app[x] \in Network}
Of(n) == {x \in Living : app[x] = n}

AppFault == appFaults < MaxAppFaults /\ appFaults' = appFaults + 1

(* What a request does after a fault, and the applications of its network, *)
(* have an excuse.                                                         *)
Doubt(a) == AppFault /\ doubted' = doubted \cup Of(job[a].net)
Sure == UNCHANGED <<doubted, appFaults>>

Go(a, from, next) == job[a].at = from /\ job' = [job EXCEPT ![a] = next]

At(a, to) == [job[a] EXCEPT !.at = to]
AtDoubting(a, to) == [job[a] EXCEPT !.at = to, !.sound = FALSE]

Tables == <<net, networks, app, filed>>

-----------------------------------------------------------------------------
(* Which tenant a request acts for (tenant_ctx.go) *)

Bearers(n) == {t \in Present : n # None /\ net[t] = n}

Linked(t) == t \in Present /\ net[t] # None

(* A token whose network no tenant has counts as out of date.              *)
ByToken(u, known) ==
    IF u.tenant = None \/ known \/ DefaultNetwork = None THEN u.tenant ELSE DefaultNetwork

EffectiveTenantID(u) ==
    IF Linked(u.chosen) THEN net[u.chosen] ELSE ByToken(u, Bearers(u.tenant) # {})

(* Every failure of a look-up counts as "not found".                       *)
EffectiveOnError(u) ==
    IF Linked(u.chosen) THEN ByToken(u, Bearers(u.tenant) # {}) ELSE ByToken(u, FALSE)

(* The tenant chosen is taken without a look.                              *)
PlatformTenantID(u, n) == IF u.chosen # None THEN {u.chosen} ELSE Bearers(n)

-----------------------------------------------------------------------------
(* The requests *)

Busy(a) == job[a].at \notin {"idle", "ended"}

AskApps(a) ==
    \E u \in User, k \in Kinds :
      /\ Go(a, "idle", [Unasked EXCEPT !.at = "scope", !.kind = k, !.user = u])
      /\ LET beside == {b \in Request \ {a} : Busy(b) /\ job[b].kind = "bootstrap"} IN
         met' = IF k = "bootstrap" /\ beside # {} THEN met \cup beside \cup {a} ELSE met
      /\ UNCHANGED <<Tables, booted>> /\ Sure

(* Whether the network is the one of the tenant that will be chosen: not   *)
(* when that tenant has none.                                              *)
Agrees(u) == u.chosen = None \/ Linked(u.chosen)

Scope(a) ==
    LET u == job[a].user
        to(n, s) == [job[a] EXCEPT !.at = "call", !.net = n, !.sound = s]
    IN  /\ \/ Go(a, "scope", to(EffectiveTenantID(u), Agrees(u))) /\ Sure
           \/ Go(a, "scope", to(EffectiveOnError(u), FALSE)) /\ AppFault /\ UNCHANGED doubted
        /\ UNCHANGED <<Tables, booted, met>>

Listed(n) == IF n = None THEN Living ELSE Of(n)

(* Without a network ChirpStack lists every application it has.            *)
ListApplications(a) ==
    /\ job[a].kind = "list"
    /\ \/ Go(a, "call", [At(a, "owner") EXCEPT !.todo = Listed(job[a].net)]) /\ Sure
       \/ Go(a, "call", At(a, "ended")) /\ Doubt(a)
    /\ UNCHANGED <<Tables, booted, met>>

(* onboardingBootstrap: the profile first, then the application, if there  *)
(* is none; any failure ends it.                                           *)
Bootstrap(a) ==
    /\ job[a].kind = "bootstrap"
    /\ \/ job[a].net # None /\ Of(job[a].net) = {} /\ Go(a, "call", At(a, "make")) /\ Sure
       \/ (job[a].net = None \/ Of(job[a].net) # {}) /\ Go(a, "call", At(a, "ended")) /\ Sure
       \/ Go(a, "call", At(a, "ended")) /\ Doubt(a)
    /\ UNCHANGED <<Tables, booted, met>>

Making(a) == job[a].at = IF job[a].kind = "bootstrap" THEN "make" ELSE "call"

(* CreateApplication: ChirpStack refuses an unknown tenant; or its answer  *)
(* is lost, and the application stays without a row.                       *)
CreateApplication(a) ==
    /\ job[a].kind \in {"create", "bootstrap"} /\ Making(a)
    /\ \/ /\ job[a].net \in networks
          /\ \E x \in Application :
               /\ app[x] = None
               /\ app' = [app EXCEPT ![x] = job[a].net]
               /\ booted' = IF job[a].kind = "bootstrap" THEN booted \cup {<<a, x>>} ELSE booted
               /\ \/ job' = [job EXCEPT ![a] = [At(a, "owner") EXCEPT !.todo = {x}]] /\ Sure
                  \/ /\ job' = [job EXCEPT ![a] = At(a, "ended")]
                     /\ AppFault /\ doubted' = doubted \cup {x}
       \/ /\ job[a].net \notin networks
          /\ job' = [job EXCEPT ![a] = At(a, "ended")]
          /\ Sure /\ UNCHANGED <<app, booted>>
       \/ /\ job' = [job EXCEPT ![a] = At(a, "ended")]
          /\ Doubt(a) /\ UNCHANGED <<app, booted>>
    /\ UNCHANGED <<net, networks, filed, met>>

(* The second look-up; without a tenant nothing is filed.                  *)
Owner(a) ==
    LET u == job[a].user
        owners == PlatformTenantID(u, EffectiveTenantID(u))
    IN  /\ \/ \E t \in owners : Go(a, "owner", [At(a, "file") EXCEPT !.owner = t]) /\ Sure
           \/ owners = {} /\ Go(a, "owner", At(a, "ended")) /\ Sure
           \/ \E t \in PlatformTenantID(u, EffectiveOnError(u)) :
                Go(a, "owner", [AtDoubting(a, "file") EXCEPT !.owner = t]) /\ Doubt(a)
           \/ Go(a, "owner", At(a, "ended")) /\ Doubt(a)
        /\ UNCHANGED <<Tables, booted, met>>

(* Mutant: an application that has a row keeps it.                         *)
UpsertIfAbsent(x, t) ==
    filed' = [filed EXCEPT ![x] = IF @ = None THEN t ELSE @]

(* ON CONFLICT DO UPDATE: the last one to list an application has it.      *)
UpsertApplication(x, t) == filed' = [filed EXCEPT ![x] = t]

(* One row after another; the first that fails, for want of the tenant or  *)
(* otherwise, is the last, and nobody is told.                             *)
SyncApplications(a) ==
    LET t == job[a].owner IN
    /\ \/ \E x \in job[a].todo :
            /\ t \in Present
            /\ Go(a, "file", [job[a] EXCEPT !.todo = @ \ {x}])
            /\ UpsertApplication(x, t)
            /\ doubted' = IF job[a].sound THEN doubted \ {x} ELSE doubted \cup {x}
            /\ UNCHANGED appFaults
       \/ /\ job[a].todo = {} \/ t \notin Present
          /\ Go(a, "file", At(a, "ended"))
          /\ doubted' = IF job[a].sound THEN doubted ELSE doubted \cup job[a].todo
          /\ UNCHANGED <<filed, appFaults>>
       \/ job[a].todo # {} /\ Go(a, "file", At(a, "ended")) /\ Doubt(a) /\ UNCHANGED filed
    /\ UNCHANGED <<net, networks, app, booted, met>>

-----------------------------------------------------------------------------
(* The tenants *)

(* createTenant, from the INSERT on: the applications of the network it    *)
(* brings are listed and filed under the new tenant.  A user whose token   *)
(* named this network was served for the default one until now.            *)
CreateTenant(a) ==
    \E t \in Tenant, n \in networks \cup {None} :
      /\ net[t] = "new" /\ net' = [net EXCEPT ![t] = n]
      /\ job[a].at = "idle"
      /\ job' = [b \in Request |->
           IF b = a THEN [Unasked EXCEPT !.at = IF n = None THEN "ended" ELSE "call", !.net = n,
                                          !.user = [tenant |-> None, chosen |-> t]]
           ELSE IF Busy(b) /\ job[b].user.tenant = n THEN AtDoubting(b, job[b].at) ELSE job[b]]
      /\ UNCHANGED <<networks, app, filed, booted, met>> /\ Sure

(* deleteTenant: the ChirpStack tenant with its applications, unless that  *)
(* fails, and the row, which takes the rows of its applications along.     *)
DeleteTenant(t) ==
    /\ t \in Present
    /\ net' = [net EXCEPT ![t] = "gone"]
    /\ filed' = [x \in Application |-> IF filed[x] = t THEN None ELSE filed[x]]
    /\ \/ /\ networks' = networks \ {net[t]}
          /\ app' = [x \in Application |-> IF x \in Of(net[t]) THEN "gone" ELSE app[x]]
          /\ Sure /\ UNCHANGED job
       \/ /\ net[t] \in networks /\ UNCHANGED <<networks, app>>
          /\ AppFault /\ doubted' = doubted \cup Of(net[t])
          /\ job' = [b \in Request |->
               IF job[b].net = net[t] THEN AtDoubting(b, job[b].at) ELSE job[b]]
    /\ UNCHANGED <<booted, met>>

AppsNext ==
    \/ \E a \in Request :
         \/ AskApps(a) \/ Scope(a) \/ ListApplications(a) \/ Bootstrap(a)
         \/ CreateApplication(a) \/ Owner(a) \/ SyncApplications(a) \/ CreateTenant(a)
    \/ \E t \in Tenant : DeleteTenant(t)

-----------------------------------------------------------------------------
(* An application is filed under a tenant of its own network.              *)
FiledAtHome ==
    \A x \in Living : filed[x] # None =>
      net[filed[x]] = app[x] \/ x \in doubted

(* An application of a tenant's network is filed, or about to be.          *)
NoneUnfiled ==
    \A x \in Living : filed[x] = None =>
      \/ Bearers(app[x]) = {}
      \/ \E a \in Request : Busy(a) /\ job[a].net = app[x]
      \/ x \in doubted

(* The assistant gives a network one application, however often it runs,   *)
(* one run after another.                                                  *)
OneIsEnough ==
    \A p, q \in booted :
      p # q /\ p[2] \in Living /\ app[p[2]] = app[q[2]] => {p[1], q[1]} \subseteq met

(* tenant_applications agrees with ChirpStack about whose an application   *)
(* is, although the network and the tenant of a request are looked up      *)
(* apart and every list moves rows; and the onboarding assistant can be    *)
(* run again (listApplications, createApplication, onboardingBootstrap).   *)
ApplicationsInPlace == FiledAtHome /\ NoneUnfiled /\ OneIsEnough
=============================================================================
