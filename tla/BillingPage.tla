---------------------------- MODULE BillingPage -----------------------------
(***************************************************************************)
(* The console's page of the subscription (BillingPage).  Its loads are    *)
(* made once and answered in any order: the subscription sets the interval *)
(* of payment, and what has come first decides which plan is preselected.  *)
(* A plan is bought at a checkout the platform answers with a link to.     *)
(***************************************************************************)
EXTENDS Naturals

CONSTANTS
    Plan,
    First,      \* the first of the list
    None,
    MaxClicks, MaxFaults,
    MaxChanges  \* bound: changes of the subscription by others

VARIABLES
    subscribed, \* stored: [plan, interval]
    sub,        \* the subscription the page knows, or None
    plans,      \* the plans it shows
    interval, selected,
    pending,    \* requests on their way
    chosen,     \* the interval the user clicked, since the subscription came
    clicked,    \* the plan the user clicked
    bought,     \* the checkouts asked for
    changes, failed, clicks

billingVars == <<subscribed, sub, plans, interval, selected, pending, chosen, clicked, bought,
                 changes, failed, clicks>>

Interval == {"month", "year"}

BillingInit ==
    /\ subscribed \in [plan : Plan, interval : Interval]
    /\ sub = None /\ plans = {} /\ interval = "month" /\ selected = None
    /\ pending = {"subscription", "plans"} /\ chosen = None /\ clicked = None
    /\ bought = {} /\ changes = 0 /\ failed = 0 /\ clicks = 0

Fault == failed < MaxFaults /\ failed' = failed + 1
Well == UNCHANGED failed
Click == clicks < MaxClicks /\ clicks' = clicks + 1

Current == IF sub = None THEN None ELSE sub.plan

\* Mutant: as often as anything is loaded.
PreselectAgain ==
    selected' = IF plans' = {} THEN selected
                ELSE IF sub' # None /\ sub'.plan \in plans' THEN sub'.plan ELSE First

\* The current plan if it is known and listed, else the first, and only once.
Preselect ==
    selected' = IF selected # None \/ plans' = {} THEN selected
                ELSE IF sub' # None /\ sub'.plan \in plans' THEN sub'.plan ELSE First

AnswerSubscription ==
    /\ "subscription" \in pending
    /\ \/ sub' = subscribed /\ interval' = subscribed.interval /\ chosen' = None /\ Well
       \/ Fault /\ UNCHANGED <<sub, interval, chosen>>
    /\ UNCHANGED plans /\ Preselect /\ pending' = pending \ {"subscription"}
    /\ UNCHANGED <<subscribed, clicked, bought, changes, clicks>>

AnswerPlans ==
    /\ "plans" \in pending
    /\ \/ plans' = Plan /\ Well
       \/ plans' = {} /\ Fault
    /\ UNCHANGED sub /\ Preselect /\ pending' = pending \ {"plans"}
    /\ UNCHANGED <<subscribed, interval, chosen, clicked, bought, changes, clicks>>

ChooseInterval(i) ==
    /\ Click /\ interval' = i /\ chosen' = i
    /\ UNCHANGED <<subscribed, sub, plans, selected, pending, clicked, bought, changes, failed>>

SelectPlan(p) ==
    /\ Click /\ p \in plans /\ selected' = p /\ clicked' = p
    /\ UNCHANGED <<subscribed, sub, plans, interval, pending, chosen, bought, changes, failed>>

\* "Choisir" is offered unless the plan selected is known to be the current one,
\* and stays offered while a checkout is on its way.
UpgradePlan ==
    /\ Click /\ selected \in plans /\ selected # Current
    /\ bought' = bought \cup {[plan |-> selected, interval |-> interval, knew |-> sub # None,
                               chosen |-> chosen, clicked |-> clicked, had |-> subscribed.plan,
                               changed |-> changes > 0]}
    /\ pending' = pending \cup {"checkout"}
    /\ UNCHANGED <<subscribed, sub, plans, interval, selected, chosen, clicked, changes, failed>>

\* The browser follows the link, and nothing more happens here; or the page says
\* that there is none.
AnswerCheckout ==
    /\ "checkout" \in pending
    /\ \/ pending' = {"left"} /\ Well
       \/ pending' = pending \ {"checkout"} /\ Fault
    /\ UNCHANGED <<subscribed, sub, plans, interval, selected, chosen, clicked, bought, changes, clicks>>

SubscribedElsewhere ==
    /\ changes < MaxChanges /\ changes' = changes + 1
    /\ subscribed' \in [plan : Plan, interval : Interval]
    /\ UNCHANGED <<sub, plans, interval, selected, pending, chosen, clicked, bought, failed, clicks>>

BillingNext ==
    /\ "left" \notin pending
    /\ \/ AnswerSubscription \/ AnswerPlans \/ AnswerCheckout
       \/ \E i \in Interval : ChooseInterval(i)
       \/ \E p \in Plan : SelectPlan(p)
       \/ UpgradePlan \/ SubscribedElsewhere

-----------------------------------------------------------------------------
(* Property *)

\* A checkout is for the plan the user clicked, or for the first when none was,
\* and by the interval clicked since the subscription came; and it is not for the
\* plan the tenant has, unless the subscription had not come or was changed by
\* others.
CheckoutAsChosen == \A b \in bought :
    /\ b.plan = (IF b.clicked = None THEN First ELSE b.clicked)
    /\ b.chosen \in {None, b.interval}
    /\ b.plan = b.had => ~b.knew \/ b.changed
=============================================================================
