--------------------------- MODULE ConsoleSession ---------------------------
(***************************************************************************)
(* Who a tab of the console acts for (lib/auth.ts, lib/api.ts,             *)
(* lib/tenantScope.ts): the session and, for an administrator, the tenant  *)
(* in scope are in the browser's store, which all its tabs share and read  *)
(* at every request; and what the frame around the pages makes of them     *)
(* (AppShell, TenantScopeSelector, the login page).                        *)
(***************************************************************************)
EXTENDS Naturals

CONSTANTS
    Tab, User, Tenant, Feature,
    Admin,      \* the users with the role platform-admin
    Writer,     \* those whose roles may change things
    Home,       \* user -> the tenant of its token
    Bought,     \* tenant -> the features of its plan
    None,
    MaxClicks, MaxExpiries

VARIABLES
    session,    \* stored: the user logged in last, or None
    expired,    \* its token has
    scope,      \* stored: the tenant in scope, or None
    at,         \* tab -> "login" or "app"
    shown,      \* tab -> the tenant whose data its page shows, or None
    features,   \* tab -> the features its menu goes by
    asked,      \* tab -> the tenants whose features are on their way
    listing,    \* the tabs whose list of tenants is on its way
    moved,      \* the tabs under which another tab, or a list, changed the store since
                \* their page was loaded, and
    mixed,      \* since they were opened
    written,    \* the changes made: [tab, to, shown, moved]
    expiries, clicks

sessionVars == <<session, expired, scope, at, shown, features, asked, listing, moved, mixed,
                 written, expiries, clicks>>

Live == session # None /\ ~expired
IsAdmin == Live /\ session \in Admin

\* The platform goes by the path of an administrator and by the token of others.
DataTenant(user, chosen) == IF user \in Admin /\ chosen # None THEN chosen ELSE Home[user]

SessionInit ==
    /\ session \in User \cup {None} /\ expired = FALSE /\ scope \in Tenant \cup {None}
    /\ at = [t \in Tab |-> "login"] /\ shown = [t \in Tab |-> None]
    /\ features = [t \in Tab |-> {}] /\ asked = [t \in Tab |-> {}]
    /\ listing = {} /\ moved = {} /\ mixed = {} /\ written = {} /\ expiries = 0 /\ clicks = 0

Click == clicks < MaxClicks /\ clicks' = clicks + 1

\* A page that is opened goes to the login without a session; else it loads, and
\* the features with it.  The selector lists the tenants once the frame is there.
Open(t, afresh) ==
    IF session' # None /\ ~expired'
    THEN LET tenant == DataTenant(session', scope') IN
         /\ at' = [at EXCEPT ![t] = "app"] /\ shown' = [shown EXCEPT ![t] = tenant]
         /\ asked' = [asked EXCEPT ![t] = IF afresh THEN {tenant} ELSE @ \cup {tenant}]
         /\ features' = IF afresh THEN [features EXCEPT ![t] = {}] ELSE features
         /\ listing' = IF afresh /\ session' \in Admin THEN listing \cup {t} ELSE listing
    ELSE /\ at' = [at EXCEPT ![t] = "login"] /\ shown' = [shown EXCEPT ![t] = None]
         /\ asked' = [asked EXCEPT ![t] = {}] /\ features' = [features EXCEPT ![t] = {}]
         /\ listing' = listing \ {t}

\* What is on the screen of the other tabs stays.
UnderOthers(t) ==
    LET others == {u \in Tab : at[u] = "app"}
    IN  moved' = (moved \cup others) \ {t} /\ mixed' = (mixed \cup others) \ {t}

Login(t, user) ==
    /\ Click /\ at[t] = "login" /\ session' = user /\ expired' = FALSE /\ UNCHANGED scope
    /\ Open(t, TRUE) /\ UnderOthers(t) /\ UNCHANGED <<written, expiries>>

\* Both keys of the session are removed, the scope is not.
Logout(t) ==
    /\ Click /\ at[t] = "app" /\ session' = None /\ expired' = FALSE /\ UNCHANGED scope
    /\ Open(t, TRUE) /\ UnderOthers(t) /\ UNCHANGED <<written, expiries>>

\* A link of the menu, or the browser's address (afresh).
Navigate(t, afresh) ==
    /\ Click /\ (afresh \/ at[t] = "app") /\ UNCHANGED <<session, expired, scope>>
    /\ Open(t, afresh) /\ moved' = moved \ {t}
    /\ mixed' = IF afresh \/ ~Live THEN mixed \ {t} ELSE mixed
    /\ UNCHANGED <<written, expiries>>

\* Mutant: the tab goes on as it is.
ChooseScopeInPlace(t, tenant) ==
    /\ Click /\ at[t] = "app" /\ IsAdmin /\ t \notin listing
    /\ scope' = tenant /\ UNCHANGED <<session, expired, at, shown, features, asked, listing>>
    /\ UnderOthers(t) /\ UNCHANGED <<written, expiries>>

\* Choosing a tenant reloads the tab.
ChooseScope(t, tenant) ==
    /\ Click /\ at[t] = "app" /\ IsAdmin /\ t \notin listing
    /\ scope' = tenant /\ UNCHANGED <<session, expired>>
    /\ Open(t, TRUE) /\ UnderOthers(t) /\ UNCHANGED <<written, expiries>>

\* The list came, or not: without a scope, its first tenant becomes it, and no
\* page is loaded again.
AnswerTenants(t) ==
    /\ t \in listing /\ listing' = listing \ {t}
    /\ \/ UNCHANGED <<scope, moved>>
       \/ scope = None /\ scope' \in Tenant /\ moved' = moved \cup {u \in Tab : at[u] = "app"}
    /\ UNCHANGED <<session, expired, at, shown, features, asked, mixed, written, expiries, clicks>>

AnswerFeatures(t, tenant) ==
    /\ tenant \in asked[t] /\ asked' = [asked EXCEPT ![t] = @ \ {tenant}]
    /\ features' = [features EXCEPT ![t] = Bought[tenant]]
    /\ UNCHANGED <<session, expired, scope, at, shown, listing, moved, mixed, written, expiries, clicks>>

\* A page that polls shows what the request of now brings, or nothing.
Poll(t) ==
    /\ at[t] = "app"
    /\ shown' = [shown EXCEPT ![t] = IF Live THEN DataTenant(session, scope) ELSE None]
    /\ moved' = IF Live THEN moved \ {t} ELSE moved
    /\ UNCHANGED <<session, expired, scope, at, features, asked, listing, mixed, written, expiries, clicks>>

\* A page without a live session offers changes, which the platform refuses.
Write(t) ==
    /\ Click /\ at[t] = "app" /\ Live /\ session \in Writer
    /\ written' = written \cup {[to |-> DataTenant(session, scope), shown |-> shown[t],
                                 moved |-> t \in moved]}
    /\ UNCHANGED <<session, expired, scope, at, shown, features, asked, listing, moved, mixed, expiries>>

\* The refresh token is kept and never used.
Expire ==
    /\ Live /\ expiries < MaxExpiries /\ expiries' = expiries + 1 /\ expired' = TRUE
    /\ UNCHANGED <<session, scope, at, shown, features, asked, listing, moved, mixed, written, clicks>>

SessionNext ==
    \/ \E t \in Tab :
          \/ Logout(t) \/ AnswerTenants(t) \/ Poll(t) \/ Write(t)
          \/ \E user \in User : Login(t, user)
          \/ \E afresh \in BOOLEAN : Navigate(t, afresh)
          \/ \E tenant \in Tenant : ChooseScope(t, tenant) \/ AnswerFeatures(t, tenant)
    \/ Expire

-----------------------------------------------------------------------------
(* Property *)

\* The entries of the menu that go by a feature (visible, hasFeature).
Offered(t) == IF IsAdmin THEN Feature ELSE IF Live THEN features[t] ELSE {}

\* A change made in a tab lands in the tenant the tab shows, and its menu offers
\* no feature that tenant did not buy, unless another tab, or the tenants' list,
\* changed the session or the scope under it.
TabsInPlace ==
    /\ \A w \in written : w.to = w.shown \/ w.moved
    /\ \A t \in Tab : at[t] = "app" /\ t \notin mixed /\ Live /\ ~IsAdmin =>
          Offered(t) \subseteq Bought[Home[session]]
=============================================================================
