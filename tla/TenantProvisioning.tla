------------------------- MODULE TenantProvisioning -------------------------
(***************************************************************************)
(* Creating and deleting tenants (services/platform-api,                   *)
(* internal/handler/tenants.go).  A tenant is a row of the platform's      *)
(* database and, most of the time, a tenant of the ChirpStack network      *)
(* server.  No transaction spans the two: createTenant makes the           *)
(* ChirpStack tenant first and undoes it when the row cannot be inserted,  *)
(* deleteTenant deletes the ChirpStack tenant first and the row second.    *)
(* Requests run concurrently, calls fail, answers are lost and the process *)
(* crashes between the steps.                                              *)
(*                                                                         *)
(* A row and a ChirpStack tenant are both named after the request that     *)
(* made them; Root is the row the migrations insert, with its own network. *)
(***************************************************************************)
EXTENDS Naturals, FiniteSets, TLC

CONSTANTS
    Calls,        \* the POST /tenants requests
    Root,         \* the row of slug 'chirpstack-default', and its network
    Slugs,        \* the slugs requests ask for
    RootSlug,     \* 'chirpstack-default'
    NoNet,        \* a tenant without a chirpstack_tenant_id
    MaxFaults,    \* bound: failed calls and lost answers
    MaxCrashes    \* bound: restarts of platform-api

ASSUME NamesAreDistinct ==
    /\ Root \notin Calls
    /\ NoNet \notin Calls \cup {Root}
ASSUME BoundsAreNaturals == MaxFaults \in Nat /\ MaxCrashes \in Nat

Tenants == Calls \cup {Root}
Networks == Tenants

VARIABLES
    rows,         \* the ids in table tenants
    slug,         \* tenants.slug of each id
    net,          \* tenants.chirpstack_tenant_id of each id, or the id the request holds
    networks,     \* the tenants ChirpStack has
    make,         \* where each createTenant request is
    provision,    \* its provisionChirpstack field
    drop,         \* where the deleteTenant request of each row is
    dropNet,      \* the chirpstack_tenant_id that request read
    traffic,      \* the rows that uplink_frames, gateway_stats or rule_executions refer to
    asked,        \* history: the rows somebody asked to delete
    unsure,       \* history: the requests whose INSERT committed without an answer
    strays,       \* history: the networks a fault or a crash kept from being cleaned up
    faults, crashes

creation == <<slug, net, make, provision>>
deletion == <<drop, dropNet, asked>>
history == <<unsure, strays>>
vars == <<rows, networks, creation, deletion, history, traffic, faults, crashes>>

Steps == {"idle", "check", "network", "insert", "rollback", "created", "refused", "dead"}

Init ==
    /\ rows = {Root}
    /\ networks = {Root}
    /\ slug = [t \in Tenants |-> RootSlug]
    /\ net = [t \in Tenants |-> IF t = Root THEN Root ELSE NoNet]
    /\ make = [c \in Calls |-> "idle"]
    /\ provision = [c \in Calls |-> FALSE]
    /\ drop = [t \in Tenants |-> "none"]
    /\ dropNet = [t \in Tenants |-> NoNet]
    /\ traffic = {} /\ asked = {} /\ unsure = {} /\ strays = {}
    /\ faults = 0 /\ crashes = 0

Fault == faults < MaxFaults /\ faults' = faults + 1
NoFault == UNCHANGED faults

Step(c, from, to) == make[c] = from /\ make' = [make EXCEPT ![c] = to]

SlugTaken(s) == \E t \in rows : slug[t] = s

-----------------------------------------------------------------------------
(* createTenant *)

(* A request names its slug and either the ChirpStack tenant to adopt (one *)
(* the administrator sees in ChirpStack) or none.                          *)
Ask(c) ==
    /\ Step(c, "idle", "check")
    /\ \E s \in Slugs : slug' = [slug EXCEPT ![c] = s]
    /\ \E n \in networks \cup {NoNet} : net' = [net EXCEPT ![c] = n]
    /\ \E p \in BOOLEAN : provision' = [provision EXCEPT ![c] = p]
    /\ UNCHANGED <<rows, networks, deletion, history, traffic, faults, crashes>>

(* GetBySlug reports every failure as "not found", so a failed look-up     *)
(* lets the request through.                                               *)
CheckSlug(c) ==
    /\ \/ SlugTaken(slug[c]) /\ Step(c, "check", "refused") /\ NoFault
       \/ ~SlugTaken(slug[c]) /\ Step(c, "check", "network") /\ NoFault
       \/ SlugTaken(slug[c]) /\ Step(c, "check", "network") /\ Fault
    /\ UNCHANGED <<rows, networks, slug, net, provision, deletion, history, traffic, crashes>>

NeedsNetwork(c) == provision[c] /\ net[c] = NoNet

KeepId(c) == net' = [net EXCEPT ![c] = c]

(* ChirpStack makes the tenant and its id is kept; or it does not answer,  *)
(* having made the tenant or not, and the request is refused.              *)
MakeNetwork(c) ==
    /\ NeedsNetwork(c)
    /\ \/ /\ Step(c, "network", "insert")
          /\ networks' = networks \cup {c}
          /\ KeepId(c)
          /\ NoFault /\ UNCHANGED strays
       \/ /\ Step(c, "network", "refused")
          /\ Fault
          /\ \/ UNCHANGED <<networks, strays>>
             \/ networks' = networks \cup {c} /\ strays' = strays \cup {c}
          /\ UNCHANGED net
    /\ UNCHANGED <<rows, slug, provision, deletion, unsure, traffic, crashes>>

(* Nothing to make.  Without a network, a request that also wants a        *)
(* Keycloak member is refused.                                             *)
SkipNetwork(c) ==
    /\ ~NeedsNetwork(c)
    /\ \/ Step(c, "network", "insert")
       \/ net[c] = NoNet /\ Step(c, "network", "refused")
    /\ UNCHANGED <<rows, networks, slug, net, provision, deletion, history, traffic, faults, crashes>>

(* Mutant: the slug is not UNIQUE.                                         *)
InsertedAnyway(c) == rows' = rows \cup {c}

(* TenantStore.Create: slug is UNIQUE, chirpstack_tenant_id is not.        *)
Inserted(c) ==
    /\ ~SlugTaken(slug[c])
    /\ rows' = rows \cup {c}

(* Mutant: the answer to a successful INSERT is taken for an error.        *)
InsertThenRollback(c) ==
    /\ Inserted(c) /\ Step(c, "insert", "rollback") /\ NoFault
    /\ UNCHANGED <<networks, slug, net, provision, deletion, unsure, strays, traffic, crashes>>

(* Mutant: ON CONFLICT DO NOTHING.                                         *)
InsertOrNothing(c) ==
    /\ Step(c, "insert", "created") /\ NoFault
    /\ rows' = IF SlugTaken(slug[c]) THEN rows ELSE rows \cup {c}
    /\ UNCHANGED <<networks, slug, net, provision, deletion, unsure, strays, traffic, crashes>>

Insert(c) ==
    /\ \/ Inserted(c) /\ Step(c, "insert", "created") /\ NoFault /\ UNCHANGED unsure
       \/ SlugTaken(slug[c]) /\ Step(c, "insert", "rollback") /\ NoFault /\ UNCHANGED <<rows, unsure>>
       \/ Step(c, "insert", "rollback") /\ Fault /\ UNCHANGED <<rows, unsure>>
       \/ /\ Inserted(c) /\ Step(c, "insert", "rollback") /\ Fault
          /\ unsure' = unsure \cup {c}
    /\ UNCHANGED <<networks, slug, net, provision, deletion, strays, traffic, crashes>>

(* ChirpStack.DeleteTenant(n): done, or failed (its error is ignored by    *)
(* both callers).  "deleted" when there was nothing to delete, too.        *)
DeleteNetwork(n) ==
    \/ networks' = networks \ {n} /\ NoFault /\ UNCHANGED strays
    \/ n \in networks /\ Fault /\ strays' = strays \cup {n} /\ UNCHANGED networks

(* Mutant: the network is left behind.                                     *)
RollbackNothing(c) ==
    /\ Step(c, "rollback", "refused") /\ NoFault
    /\ UNCHANGED <<rows, networks, slug, net, provision, deletion, history, traffic, crashes>>

(* After a failed INSERT a request that asked for a network deletes the    *)
(* one it holds, made or adopted.                                          *)
Rollback(c) ==
    /\ Step(c, "rollback", "refused")
    /\ IF provision[c] /\ net[c] # NoNet
       THEN DeleteNetwork(net[c])
       ELSE NoFault /\ UNCHANGED <<networks, strays>>
    /\ UNCHANGED <<rows, slug, net, provision, deletion, unsure, traffic, crashes>>

-----------------------------------------------------------------------------
(* deleteTenant *)

(* GetByID; the default tenant cannot be deleted.                          *)
AskDelete(t) ==
    /\ t \in rows /\ drop[t] = "none"
    /\ slug[t] # RootSlug
    /\ drop' = [drop EXCEPT ![t] = "network"]
    /\ dropNet' = [dropNet EXCEPT ![t] = net[t]]
    /\ asked' = asked \cup {t}
    /\ UNCHANGED <<rows, networks, creation, history, traffic, faults, crashes>>

DropNetwork(t) ==
    /\ drop[t] = "network"
    /\ drop' = [drop EXCEPT ![t] = "row"]
    /\ IF dropNet[t] # NoNet
       THEN DeleteNetwork(dropNet[t])
       ELSE NoFault /\ UNCHANGED <<networks, strays>>
    /\ UNCHANGED <<rows, creation, dropNet, asked, unsure, traffic, crashes>>

(* DELETE FROM tenants: refused while rows of uplink_frames, gateway_stats *)
(* or rule_executions refer to the tenant (their foreign key has no ON     *)
(* DELETE), or failed.  The request is then answered 500 and can be made   *)
(* again.                                                                  *)
DropRow(t) ==
    /\ drop[t] = "row"
    /\ drop' = [drop EXCEPT ![t] = "none"]
    /\ \/ t \notin traffic /\ rows' = rows \ {t} /\ NoFault
       \/ t \in traffic /\ UNCHANGED rows /\ NoFault
       \/ Fault /\ UNCHANGED rows
    /\ UNCHANGED <<networks, creation, dropNet, asked, history, traffic, crashes>>

-----------------------------------------------------------------------------
(* The rest of the platform *)

(* mqtt-ingestion stores a frame under the tenant.                         *)
Traffic(t) ==
    /\ t \in rows \ traffic
    /\ net[t] \in networks
    /\ traffic' = traffic \cup {t}
    /\ UNCHANGED <<rows, networks, creation, deletion, history, faults, crashes>>

Held(c) == make[c] \in {"insert", "rollback"} /\ net[c] # NoNet

(* platform-api restarts: the requests under way are gone, with what they  *)
(* had not yet cleaned up.                                                 *)
Crash ==
    /\ crashes < MaxCrashes
    /\ crashes' = crashes + 1
    /\ make' = [c \in Calls |->
         IF make[c] \in {"idle", "created", "refused"} THEN make[c] ELSE "dead"]
    /\ drop' = [t \in Tenants |-> "none"]
    /\ strays' = strays \cup {net[c] : c \in {d \in Calls : Held(d)}}
    /\ UNCHANGED <<rows, networks, slug, net, provision, dropNet, asked, unsure, traffic, faults>>

Next ==
    \/ \E c \in Calls :
         \/ Ask(c) \/ CheckSlug(c) \/ MakeNetwork(c) \/ SkipNetwork(c)
         \/ Insert(c) \/ Rollback(c)
    \/ \E t \in Tenants :
         AskDelete(t) \/ DropNetwork(t) \/ DropRow(t) \/ Traffic(t)
    \/ Crash

Spec == Init /\ [][Next]_vars

-----------------------------------------------------------------------------
(* Properties *)

TypeOK ==
    /\ rows \subseteq Tenants /\ networks \subseteq Networks
    /\ slug \in [Tenants -> Slugs \cup {RootSlug}]
    /\ net \in [Tenants -> Networks \cup {NoNet}]
    /\ make \in [Calls -> Steps]
    /\ provision \in [Calls -> BOOLEAN]
    /\ drop \in [Tenants -> {"none", "network", "row"}]
    /\ dropNet \in [Tenants -> Networks \cup {NoNet}]
    /\ traffic \subseteq Tenants /\ asked \subseteq Tenants
    /\ unsure \subseteq Calls /\ strays \subseteq Networks
    /\ faults \in 0..MaxFaults /\ crashes \in 0..MaxCrashes

(* Two tenants never answer to one slug, however many requests for it pass *)
(* the check of createTenant together, and whatever look-up failed.        *)
OneRowPerSlug ==
    \A t, u \in rows : slug[t] = slug[u] => t = u

(* No ChirpStack tenant is forgotten: one the platform made belongs to a   *)
(* row, or the request that made it still has to insert that row or to     *)
(* undo it, or a call that failed or a crash kept the platform from        *)
(* cleaning up.                                                            *)
NoNetworkForgotten ==
    \A c \in networks \cap Calls :
      \/ \E t \in rows : net[t] = c
      \/ make[c] \in {"insert", "rollback"}
      \/ c \in strays

(* The tenants, rows or requests, that name the network of t.              *)
Shared(t) == \E u \in Tenants \ {t} : net[u] = net[t]

(* A row keeps its network.  It loses it only when its deletion was asked, *)
(* when another request named the same ChirpStack tenant, or when its own  *)
(* INSERT committed without an answer and was taken for a failure.         *)
RowKeepsNetwork ==
    \A t \in rows :
      net[t] \in networks \cup {NoNet} \/ t \in asked \cup unsure \/ Shared(t)

(* A request answered "conflict" or "error" leaves no tenant behind, and   *)
(* one answered 201 leaves its row until somebody deletes it.              *)
AnswerIsTrue ==
    \A c \in Calls :
      /\ make[c] = "refused" /\ c \notin unsure => c \notin rows
      /\ make[c] = "created" /\ c \notin asked => c \in rows


-----------------------------------------------------------------------------
\* For TLC: requests and slugs are interchangeable, Root and its slug apart.
Symmetry == Permutations(Calls) \cup Permutations(Slugs)
=============================================================================
