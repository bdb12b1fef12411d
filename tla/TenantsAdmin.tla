---------------------------- MODULE TenantsAdmin ----------------------------
(***************************************************************************)
(* The console's administration of the tenants (TenantsAdmin), with the    *)
(* panel of the users of the tenant that is unfolded (TenantUsersPanel).   *)
(* A list is served, then delivered; other requests take effect when       *)
(* answered, and nothing holds their buttons.  All tenants have a network. *)
(***************************************************************************)
EXTENDS Naturals

CONSTANTS
    Tenant,     \* records of tenants, each made once
    Name,       \* their names, of which no two at once are the same
    User,
    None,
    MaxClicks, MaxFaults

VARIABLES
    stored,     \* tenant -> [name, status, users], None before and after
    spare,      \* tenants not made yet
    rows,       \* the list shown: tenant -> [name, status] or None
    expanded,   \* the tenant unfolded
    users,      \* the panel of its users: those shown
    created,    \* the user whose password it shows
    mount,      \* how often a panel was opened
    success,    \* the tenant that is said to be created
    pending,
    wanted,     \* tenant -> the status its button last asked for
    doubled,    \* tenants whose button was clicked while a click was on its way
    crossed,    \* users were added while their list, or a new panel, was on its way
    failed, clicks

tenantVars == <<stored, spare, rows, expanded, users, created, mount, success, pending, wanted,
                doubled, crossed, failed, clicks>>

panel == <<users, created, mount, crossed>>

LoadTenants == [kind |-> "tenants"]
LoadUsers(t, m) == [kind |-> "users", of |-> t, mount |-> m]

TenantsInit ==
    /\ \E t \in Tenant, n \in Name :
          /\ stored = [u \in Tenant |-> IF u = t THEN [name |-> n, status |-> "active", users |-> {}]
                                                ELSE None]
          /\ spare = Tenant \ {t}
    /\ rows = [t \in Tenant |-> None] /\ expanded = None
    /\ users = {} /\ created = None /\ mount = 0 /\ success = None /\ pending = {LoadTenants}
    /\ wanted = [t \in Tenant |-> None] /\ doubled = {} /\ crossed = FALSE
    /\ failed = 0 /\ clicks = 0

Fault == failed < MaxFaults /\ failed' = failed + 1
Well == UNCHANGED failed
Click == clicks < MaxClicks /\ clicks' = clicks + 1

Listed(t) == t # None /\ rows[t] # None

\* A panel is mounted for the tenant that is unfolded while the list shows it:
\* a new one starts empty and loads, and answers to a former one are dropped.
ShowPanel(rest) ==
    LET now == expanded' # None /\ rows'[expanded'] # None
    IN  IF now /\ (expanded' # expanded \/ ~Listed(expanded))
        THEN /\ mount' = mount + 1 /\ users' = {} /\ created' = None
             /\ crossed' = \E p \in rest : p.kind = "add" /\ p.of = expanded'
             /\ pending' = rest \cup {LoadUsers(expanded', mount')}
        ELSE pending' = rest /\ UNCHANGED panel

Expand(t) ==
    /\ Click /\ Listed(t) /\ UNCHANGED rows
    /\ expanded' = IF expanded = t THEN None ELSE t
    /\ ShowPanel(pending)
    /\ UNCHANGED <<stored, spare, success, wanted, doubled, failed>>

Request(p) ==
    /\ Click /\ pending' = pending \cup {p}
    /\ UNCHANGED <<stored, spare, rows, expanded, failed>>

\* What the page would unfold on a refusal is settled when the form is sent.
CreateTenant(n) ==
    /\ \E t \in Tenant \cup {None} :
          /\ IF t = None THEN \A u \in Tenant : Listed(u) => rows[u].name # n
                         ELSE Listed(t) /\ rows[t].name = n
          /\ Request([kind |-> "create", name |-> n, existing |-> t, at |-> clicks])
    /\ success' = None /\ UNCHANGED <<panel, wanted, doubled>>

\* "Suspendre" or "Réactiver", by the status shown.
ToggleSuspend(t) ==
    /\ Listed(t)
    /\ LET next == IF rows[t].status = "suspended" THEN "active" ELSE "suspended"
       IN  /\ Request([kind |-> "status", of |-> t, to |-> next, at |-> clicks])
           /\ wanted' = [wanted EXCEPT ![t] = next]
    /\ doubled' = IF \E p \in pending : p.kind = "status" /\ p.of = t THEN doubled \cup {t} ELSE doubled
    /\ UNCHANGED <<panel, success>>

RemoveTenant(t) ==
    /\ Listed(t) /\ Request([kind |-> "remove", of |-> t])
    /\ UNCHANGED <<panel, success, wanted, doubled>>

AddMember(u) ==
    /\ Listed(expanded) /\ Request([kind |-> "add", of |-> expanded, user |-> u, mount |-> mount])
    /\ created' = None /\ UNCHANGED <<users, mount, crossed, success, wanted, doubled>>

-----------------------------------------------------------------------------
(* Answers *)

Serve(p) ==
    /\ p.kind \in {"tenants", "users"}
    /\ \E ok \in BOOLEAN :
          LET some(t) == ok /\ stored[t] # None
          IN  /\ IF ok THEN Well ELSE Fault
              /\ pending' = (pending \ {p}) \cup
                    {IF p.kind = "tenants"
                     THEN [kind |-> "rows", rows |-> [t \in Tenant |->
                             IF some(t) THEN [name |-> stored[t].name, status |-> stored[t].status]
                             ELSE None]]
                     ELSE [kind |-> "members", of |-> p.of, mount |-> p.mount,
                           users |-> IF some(p.of) THEN stored[p.of].users ELSE {}]}
    /\ UNCHANGED <<stored, spare, rows, expanded, panel, success, wanted, doubled, clicks>>

DeliverRows(p) ==
    /\ rows' = p.rows /\ UNCHANGED <<stored, spare, expanded, success, failed>>
    /\ ShowPanel(pending \ {p})

\* Mutant: an answer to a former panel is shown.
DeliverMembersLate(p) ==
    /\ users' = p.users /\ pending' = pending \ {p}
    /\ UNCHANGED <<stored, spare, rows, expanded, created, mount, crossed, success, failed>>

DeliverMembers(p) ==
    /\ users' = IF p.mount = mount THEN p.users ELSE users
    /\ pending' = pending \ {p}
    /\ UNCHANGED <<stored, spare, rows, expanded, created, mount, crossed, success, failed>>

\* A tenant is made with its administrator, unless none was wanted or making
\* that user failed, which the answer tells and no list shows as an error.
AnswerCreate(p) ==
    LET taken == \E t \in Tenant : stored[t] # None /\ stored[t].name = p.name
    IN  /\ UNCHANGED rows
        /\ \/ /\ ~taken /\ Well
              /\ \E t \in spare, admins \in {{}} \cup {{u} : u \in User} :
                    /\ stored' = [stored EXCEPT
                          ![t] = [name |-> p.name, status |-> "active", users |-> admins]]
                    /\ spare' = spare \ {t} /\ success' = t /\ expanded' = t
              /\ ShowPanel((pending \ {p}) \cup {LoadTenants})
           \/ /\ IF taken THEN Well ELSE Fault
              /\ expanded' = IF p.existing = None THEN expanded ELSE p.existing
              /\ ShowPanel(pending \ {p}) /\ UNCHANGED <<stored, spare, success>>

\* A suspension or a removal, and then the list; after an error, not even that.
AnswerTenant(p) ==
    /\ \/ /\ stored' = [stored EXCEPT ![p.of] = IF @ = None \/ p.kind = "remove" THEN None
                                                ELSE [@ EXCEPT !.status = p.to]]
          /\ Well /\ pending' = (pending \ {p}) \cup {LoadTenants}
       \/ Fault /\ pending' = pending \ {p} /\ UNCHANGED stored
    /\ UNCHANGED <<spare, rows, expanded, panel, success>>

\* The password is shown in the panel that asked, if it is still there.
AnswerAdd(p) ==
    /\ UNCHANGED <<spare, rows, expanded, users, mount, success>>
    /\ \/ /\ stored[p.of] # None /\ Well
          /\ stored' = [stored EXCEPT ![p.of].users = @ \cup {p.user}]
          /\ created' = IF p.mount = mount THEN p.user ELSE created
          /\ crossed' = (crossed \/ \E q \in pending :
                              q.kind \in {"users", "members"} /\ q.mount = mount)
          /\ pending' = (pending \ {p}) \cup {LoadUsers(p.of, p.mount)}
       \/ /\ IF stored[p.of] = None THEN Well ELSE Fault
          /\ pending' = pending \ {p} /\ UNCHANGED <<stored, created, crossed>>

Answer(p) ==
    /\ UNCHANGED <<wanted, doubled, clicks>>
    /\ \/ p.kind = "rows" /\ DeliverRows(p)
       \/ p.kind = "members" /\ DeliverMembers(p)
       \/ p.kind = "create" /\ AnswerCreate(p)
       \/ p.kind \in {"status", "remove"} /\ AnswerTenant(p)
       \/ p.kind = "add" /\ AnswerAdd(p)

TenantsNext ==
    \/ \E t \in Tenant : Expand(t) \/ ToggleSuspend(t) \/ RemoveTenant(t)
    \/ \E n \in Name : CreateTenant(n)
    \/ \E u \in User : AddMember(u)
    \/ \E p \in pending : Serve(p) \/ Answer(p)

-----------------------------------------------------------------------------
(* Property *)

\* The panel shows users and the password of the tenant that is unfolded, and all
\* its users once nothing is on its way, unless some were added while their list or
\* the panel itself was on its way; and a tenant then has the status its button
\* last asked for, unless it was clicked again before the first click was answered.
TenantsAsShown ==
    /\ Listed(expanded) /\ stored[expanded] # None =>
          /\ users \subseteq stored[expanded].users
          /\ created # None => created \in stored[expanded].users
          /\ pending = {} => failed > 0 \/ crossed \/ users = stored[expanded].users
    /\ pending = {} => \A t \in Tenant :
          \/ failed > 0 \/ t \in doubled \/ wanted[t] = None \/ stored[t] = None
          \/ stored[t].status = wanted[t]
=============================================================================
