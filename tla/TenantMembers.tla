---------------------------- MODULE TenantMembers ----------------------------
(***************************************************************************)
(* The people of a tenant (services/platform-api,                          *)
(* internal/handler/tenants.go and internal/keycloak/client.go).  A member *)
(* is an account of the Keycloak directory, which carries the tenant's     *)
(* ChirpStack id and a role, and a row of tenant_members.  A request looks *)
(* the email up, creates the account, gives it its role, sends an invite   *)
(* when asked, and inserts the row; nothing of it is undone when a later   *)
(* step fails, and the insert's own failure is only logged.                *)
(*                                                                         *)
(* An account is named after the request that made it.  Passwords, user    *)
(* names and the listing at the end of the request are left out.           *)
(***************************************************************************)
EXTENDS Naturals

CONSTANTS
    Request,      \* the requests: POST /tenants/{id}/members
    Tenant,
    Email,
    Role,
    NetworkOf,    \* tenants.chirpstack_tenant_id, None when not set
    None,
    MaxMemberFaults  \* bound: failing calls and lost answers

VARIABLES
    tenants,      \* the rows of table tenants
    call,         \* each request: [at, tenant, email, role, invite]
    account,      \* Keycloak: each account made, [email, network, role]
    member,       \* tenant_members: [tenant, user, email, role]
    spoilt,       \* history: the requests that met a fault
    memberFaults

(* None is not an account.                                                 *)
NoneIsNoAccount ==
    \A e \in Email, t \in Tenant, r \in Role \cup {None} :
        [email |-> e, network |-> NetworkOf[t], role |-> r] # None

memberVars == <<tenants, call, account, member, spoilt, memberFaults>>

NotAsked == [at |-> "idle", tenant |-> None, email |-> None, role |-> None, invite |-> FALSE]

MembersInit ==
    /\ tenants = Tenant
    /\ call = [c \in Request |-> NotAsked]
    /\ account = [c \in Request |-> None]
    /\ member = {} /\ spoilt = {} /\ memberFaults = 0

Well == UNCHANGED <<spoilt, memberFaults>>
Spoil(c) ==
    /\ memberFaults < MaxMemberFaults /\ memberFaults' = memberFaults + 1
    /\ spoilt' = spoilt \cup {c}

Moves(c, from, to) == call[c].at = from /\ call' = [call EXCEPT ![c].at = to]

Held(e) == \E c \in Request : account[c] # None /\ account[c].email = e

-----------------------------------------------------------------------------
(* createTenantMember *)

(* The role is valid and the tenant is there, with a ChirpStack tenant; or *)
(* the request is refused.                                                 *)
AskMember(c) ==
    \E t \in Tenant, e \in Email, r \in Role, i \in BOOLEAN :
      /\ call[c].at = "idle"
      /\ call' = [call EXCEPT ![c] =
           [at |-> IF t \in tenants /\ NetworkOf[t] # None THEN "find" ELSE "refused",
            tenant |-> t, email |-> e, role |-> r, invite |-> i]]
      /\ UNCHANGED <<tenants, account, member>> /\ Well

(* adminToken and findUserByEmail: an email that has an account is         *)
(* refused, whatever became of the request that made the account.          *)
FindUser(c) ==
    /\ \/ ~Held(call[c].email) /\ Moves(c, "find", "create") /\ Well
       \/ Held(call[c].email) /\ Moves(c, "find", "refused") /\ Well
       \/ Moves(c, "find", "refused") /\ Spoil(c)
    /\ UNCHANGED <<tenants, account, member>>

Opened(c) ==
    account' = [account EXCEPT ![c] =
        [email |-> call[c].email, network |-> NetworkOf[call[c].tenant], role |-> None]]

(* Mutant: the directory's refusal of a second account is taken for a      *)
(* success.                                                                *)
CreateUserAnyway(c) ==
    /\ Moves(c, "create", "role") /\ Well
    /\ IF Held(call[c].email) THEN UNCHANGED account ELSE Opened(c)
    /\ UNCHANGED <<tenants, member>>

(* Emails are unique in Keycloak, which refuses the second of two requests *)
(* that both found none.  Or no answer comes, or one without an id, the    *)
(* account being made or not.                                              *)
CreateUser(c) ==
    /\ \/ ~Held(call[c].email) /\ Moves(c, "create", "role") /\ Opened(c) /\ Well
       \/ Held(call[c].email) /\ Moves(c, "create", "refused") /\ Well /\ UNCHANGED account
       \/ ~Held(call[c].email) /\ Moves(c, "create", "refused") /\ Opened(c) /\ Spoil(c)
       \/ Moves(c, "create", "refused") /\ Spoil(c) /\ UNCHANGED account
    /\ UNCHANGED <<tenants, member>>

AfterRole(c) == IF call[c].invite THEN "invite" ELSE "insert"

Mapped(c) == account' = [account EXCEPT ![c].role = call[c].role]

(* Mutant: an error of the role mapping is ignored.                        *)
AssignOrNot(c) ==
    /\ Moves(c, "role", AfterRole(c))
    /\ \/ Mapped(c) /\ Well
       \/ Spoil(c) /\ UNCHANGED account
    /\ UNCHANGED <<tenants, member>>

(* The role is read, then mapped to the account; on any failure the        *)
(* request is refused, the account stays, with the role or without.        *)
AssignRealmRole(c) ==
    /\ \/ Moves(c, "role", AfterRole(c)) /\ Mapped(c) /\ Well
       \/ Moves(c, "role", "refused") /\ Mapped(c) /\ Spoil(c)
       \/ Moves(c, "role", "refused") /\ Spoil(c) /\ UNCHANGED account
    /\ UNCHANGED <<tenants, member>>

(* An invite that fails is reported in the answer and changes nothing.     *)
SendInvitationEmail(c) ==
    /\ Moves(c, "invite", "insert")
    /\ Well \/ Spoil(c)
    /\ UNCHANGED <<tenants, account, member>>

Recorded(c) ==
    member' = member \cup {[tenant |-> call[c].tenant, user |-> c,
                            email |-> call[c].email, role |-> call[c].role]}

(* The foreign key refuses a tenant that has gone meanwhile.  The answer   *)
(* is "created" all the same, and when the insert fails or its own answer  *)
(* is lost.                                                                *)
InsertMember(c) ==
    /\ Moves(c, "insert", "created")
    /\ \/ call[c].tenant \in tenants /\ Recorded(c) /\ Well
       \/ call[c].tenant \notin tenants /\ UNCHANGED member /\ Well
       \/ call[c].tenant \in tenants /\ Recorded(c) /\ Spoil(c)
       \/ Spoil(c) /\ UNCHANGED member
    /\ UNCHANGED <<tenants, account>>

(* The process ends in the middle of the request, which is never answered. *)
CutShort(c) ==
    /\ call[c].at \in {"find", "create", "role", "invite", "insert"}
    /\ call' = [call EXCEPT ![c].at = "refused"]
    /\ Spoil(c)
    /\ UNCHANGED <<tenants, account, member>>

(* deleteTenant: tenant_members follows (ON DELETE CASCADE), the accounts  *)
(* stay.                                                                   *)
RemoveTenant(t) ==
    /\ t \in tenants
    /\ tenants' = tenants \ {t}
    /\ member' = {m \in member : m.tenant # t}
    /\ UNCHANGED <<call, account>> /\ Well

MembersNext ==
    \/ \E c \in Request :
         \/ AskMember(c) \/ FindUser(c) \/ CreateUser(c) \/ AssignRealmRole(c)
         \/ SendInvitationEmail(c) \/ InsertMember(c) \/ CutShort(c)
    \/ \E t \in Tenant : RemoveTenant(t)

MembersSpec == MembersInit /\ [][MembersNext]_memberVars

-----------------------------------------------------------------------------
Complete(c) ==
    account[c] = [email |-> call[c].email, network |-> NetworkOf[call[c].tenant],
                  role |-> call[c].role]

(* Every row of a member is of a tenant that exists and describes an       *)
(* account of the directory exactly: its email, its tenant's network, its  *)
(* role.                                                                   *)
RowsDescribeAccounts ==
    \A m \in member :
      /\ m.tenant \in tenants
      /\ account[m.user] = [email |-> m.email, network |-> NetworkOf[m.tenant], role |-> m.role]

(* A request answered "created" has its account, with the role asked for,  *)
(* and its row, unless the tenant has gone or a fault is logged.           *)
CreatedIsComplete ==
    \A c \in Request : call[c].at = "created" =>
      /\ Complete(c)
      /\ \/ \E m \in member : m.user = c
         \/ call[c].tenant \notin tenants
         \/ c \in spoilt

(* An account that is not yet, or never, a member's: its request is still  *)
(* at work on it, or met a fault, or its tenant has gone.                  *)
NoAccountAdrift ==
    \A c \in Request : account[c] # None =>
      \/ \E m \in member : m.user = c
      \/ call[c].at \in {"role", "invite", "insert"}
      \/ call[c].tenant \notin tenants
      \/ c \in spoilt

(* A person has one account, so that the requests for one email that are   *)
(* answered "created" are at most one; the others change nothing.          *)
OneAccountPerEmail ==
    \A c1, c2 \in Request :
      account[c1] # None /\ account[c2] # None /\ account[c1].email = account[c2].email
      => c1 = c2

(* The directory and the table of members agree about who belongs to a     *)
(* tenant, and with which role, through concurrent requests for one email, *)
(* failures in mid-request and the deletion of the tenant                  *)
(* (provisionKeycloakMember, tenants.go).                                  *)
MembersMatchAccounts ==
    /\ RowsDescribeAccounts
    /\ CreatedIsComplete
    /\ NoAccountAdrift
    /\ OneAccountPerEmail
=============================================================================
