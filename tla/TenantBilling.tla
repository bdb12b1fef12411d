---------------------------- MODULE TenantBilling ----------------------------
(***************************************************************************)
(* The plan of one tenant.  Stripe sells subscriptions                     *)
(* (internal/handler/stripe.go, createStripeCheckout) and tells            *)
(* platform-api what becomes of them by webhooks (stripeWebhook), which    *)
(* write the tenant's row and the limits of its ChirpStack tenant.         *)
(* DeviceRegistry says what both are good for.                             *)
(*                                                                         *)
(* The webhook answers 200 whatever became of the event, so Stripe repeats *)
(* an event only when the answer is lost.                                  *)
(***************************************************************************)
EXTENDS Naturals, FiniteSets

CONSTANTS
    Sub,          \* the subscriptions the tenant may take
    Plan,
    Starter,      \* the plan of a tenant without a subscription
    Hook,         \* the webhook calls that may be at work side by side
    None,
    MaxEvents,    \* bound: occasions on which Stripe has something to tell
    MaxBillingFaults \* bound: calls that fail, answers that are lost

ASSUME BillingAssumption ==
    /\ Starter \in Plan /\ None \notin Sub
    /\ MaxEvents \in Nat /\ MaxBillingFaults \in Nat

VARIABLES
    row,        \* tenants: [plan, status, sub, customer]
    limits,     \* the plan whose limits the ChirpStack tenant has
    stripe,     \* each subscription at Stripe: [status, plan, customer]
    outbox,     \* the events Stripe has not seen answered
    count,      \* the occasions so far
    hook,       \* each webhook call: [at, event]
    muddled,    \* history: events overtook each other, were lost, or two subscriptions met
    billingFaults

account == <<row, limits>>
market == <<stripe, outbox, count>>
billingVars == <<account, market, hook, muddled, billingFaults>>

Living == {"incomplete", "active", "past_due"}
Idle == [at |-> "idle", event |-> None]

BillingInit ==
    /\ \E p \in Plan :
         /\ row = [plan |-> p, status |-> "active", sub |-> None, customer |-> None]
         /\ limits = p
    /\ stripe = [s \in Sub |-> [status |-> "none", plan |-> Starter, customer |-> None]]
    /\ outbox = {} /\ count = 0
    /\ hook = [h \in Hook |-> Idle]
    /\ muddled = FALSE /\ billingFaults = 0

BillingFault == billingFaults < MaxBillingFaults /\ billingFaults' = billingFaults + 1
BillingWell == UNCHANGED billingFaults

-----------------------------------------------------------------------------
(* Stripe *)

Emit(es) ==
    /\ count < MaxEvents
    /\ count' = count + 1
    /\ outbox' = outbox \cup es

Change(s, n, status, p) == [no |-> n, kind |-> "change", sub |-> s, status |-> status, plan |-> p]

(* createStripeCheckout: the session names the plan and the customer the   *)
(* row has; Stripe makes a customer when there is none.  That the tenant   *)
(* has a subscription already is not looked at.                            *)
Checkout(s) ==
    /\ stripe[s].status = "none"
    /\ \E p \in Plan : stripe' = [stripe EXCEPT ![s] =
         [status |-> "open", plan |-> p,
          customer |-> IF row.customer = None THEN s ELSE row.customer]]
    /\ UNCHANGED <<account, outbox, count, hook, muddled, billingFaults>>

Alive(s) == stripe[s].status \in Living

(* The tenant pays: the subscription starts.                               *)
Subscribe(s) ==
    /\ stripe[s].status = "open"
    /\ \E status \in {"incomplete", "active"} :
         /\ stripe' = [stripe EXCEPT ![s].status = status]
         /\ Emit({Change(s, count, status, stripe[s].plan),
                  [no |-> count, kind |-> "completed", sub |-> s, customer |-> stripe[s].customer]})
    /\ muddled' = (muddled \/ \E t \in Sub : Alive(t))
    /\ UNCHANGED <<account, hook, billingFaults>>

(* A payment succeeds or fails.                                            *)
Renew(s) ==
    /\ Alive(s)
    /\ \E status \in Living \ {stripe[s].status, "incomplete"} :
         /\ stripe' = [stripe EXCEPT ![s].status = status]
         /\ Emit({Change(s, count, status, stripe[s].plan)})
    /\ UNCHANGED <<account, hook, muddled, billingFaults>>

Cancel(s) ==
    /\ Alive(s)
    /\ stripe' = [stripe EXCEPT ![s].status = "canceled"]
    /\ Emit({[no |-> count, kind |-> "deleted", sub |-> s]})
    /\ UNCHANGED <<account, hook, muddled, billingFaults>>

-----------------------------------------------------------------------------
(* stripeWebhook *)

AtWork(h) == hook[h].at # "idle"

(* The events that are waiting or being applied.                           *)
Pending == outbox \cup {hook[h].event : h \in {k \in Hook : AtWork(k)}}

(* An event arrives, in any order; a second time while it is at work only  *)
(* when Stripe gave up waiting.                                            *)
Receive(h) ==
    /\ ~AtWork(h)
    /\ \E e \in outbox :
         /\ hook' = [hook EXCEPT ![h] = [at |-> "write", event |-> e]]
         /\ muddled' = (muddled \/ \E older \in Pending : older.no < e.no)
         /\ IF \E k \in Hook : AtWork(k) /\ hook[k].event = e THEN BillingFault ELSE BillingWell
    /\ UNCHANGED <<account, market>>

Turn(h, to) == hook' = [hook EXCEPT ![h].at = to]

(* SetSubscription: an update whose error is dropped.                      *)
SetSubscription(plan, status, sub) ==
    \/ /\ row' = [row EXCEPT !.plan = plan, !.status = status, !.sub = sub]
       /\ BillingWell /\ UNCHANGED muddled
    \/ BillingFault /\ muddled' = TRUE /\ UNCHANGED row

(* Mutant: the limits of the plan the row had.                             *)
LimitsFirst(h) ==
    LET e == hook[h].event IN
    /\ hook[h].at = "write" /\ e.kind = "change"
    /\ SetSubscription(e.plan, e.status, e.sub)
    /\ limits' = row.plan
    /\ Turn(h, "answer")
    /\ UNCHANGED <<market>>

(* handleSubscriptionChange: the plan is granted whatever the status.      *)
ApplyChange(h) ==
    LET e == hook[h].event IN
    /\ hook[h].at = "write" /\ e.kind = "change"
    /\ SetSubscription(e.plan, e.status, e.sub)
    /\ Turn(h, "limit")
    /\ UNCHANGED <<limits, market>>

(* Mutant: the end of a subscription leaves the row its plan.              *)
KeepPlan(h) ==
    LET e == hook[h].event IN
    /\ hook[h].at = "write" /\ e.kind = "deleted"
    /\ SetSubscription(row.plan, "canceled", None)
    /\ Turn(h, "answer")
    /\ UNCHANGED <<limits, market>>

(* handleSubscriptionDeleted: any subscription that ends ends the plan of  *)
(* the row; the limits stay.                                               *)
ApplyDeletion(h) ==
    /\ hook[h].at = "write" /\ hook[h].event.kind = "deleted"
    /\ SetSubscription(Starter, "canceled", None)
    /\ Turn(h, "answer")
    /\ UNCHANGED <<limits, market>>

(* SetStripeCustomer                                                       *)
ApplyCompleted(h) ==
    /\ hook[h].at = "write" /\ hook[h].event.kind = "completed"
    /\ \/ row' = [row EXCEPT !.customer = hook[h].event.customer] /\ BillingWell /\ UNCHANGED muddled
       \/ BillingFault /\ muddled' = TRUE /\ UNCHANGED row
    /\ Turn(h, "answer")
    /\ UNCHANGED <<limits, market>>

(* UpdateTenantLimits, its error dropped.                                  *)
UpdateLimits(h) ==
    /\ hook[h].at = "limit"
    /\ \/ limits' = hook[h].event.plan /\ BillingWell /\ UNCHANGED muddled
       \/ BillingFault /\ muddled' = TRUE /\ UNCHANGED limits
    /\ Turn(h, "answer")
    /\ UNCHANGED <<row, market>>

(* 200, which Stripe may miss.                                             *)
Answer(h) ==
    /\ hook[h].at = "answer"
    /\ hook' = [hook EXCEPT ![h] = Idle]
    /\ \/ outbox' = outbox \ {hook[h].event} /\ BillingWell
       \/ BillingFault /\ UNCHANGED outbox
    /\ UNCHANGED <<account, stripe, count, muddled>>

-----------------------------------------------------------------------------

(* A restart of platform-api: Stripe sends again what had no answer.       *)
Restart ==
    /\ \E h \in Hook : AtWork(h)
    /\ BillingFault
    /\ hook' = [h \in Hook |-> Idle]
    /\ UNCHANGED <<account, market, muddled>>

BillingNext ==
    \/ \E s \in Sub : Checkout(s) \/ Subscribe(s) \/ Renew(s) \/ Cancel(s)
    \/ \E h \in Hook :
         \/ Receive(h) \/ ApplyChange(h) \/ ApplyDeletion(h) \/ ApplyCompleted(h)
         \/ UpdateLimits(h) \/ Answer(h)
    \/ Restart

BillingSpec == BillingInit /\ [][BillingNext]_billingVars

-----------------------------------------------------------------------------
(* Properties *)

BillingTypeOK ==
    /\ row.plan \in Plan /\ row.status \in Living \cup {"canceled"}
    /\ row.sub \in Sub \cup {None} /\ row.customer \in Sub \cup {None}
    /\ limits \in Plan
    /\ \A s \in Sub : stripe[s].status \in Living \cup {"none", "open", "canceled"}
    /\ \A e \in outbox : e.no < count /\ e.kind \in {"change", "completed", "deleted"}
    /\ count \in 0..MaxEvents
    /\ \A h \in Hook : AtWork(h) => hook[h].at \in {"write", "limit", "answer"}
    /\ muddled \in BOOLEAN /\ billingFaults \in 0..MaxBillingFaults

AllApplied == outbox = {} /\ \A h \in Hook : ~AtWork(h)

Started == {s \in Sub : stripe[s].status \in Living \cup {"canceled"}}

(* When Stripe has nothing left to tell, the row shows the subscription    *)
(* the tenant has: its plan, status and customer, and no plan but Starter  *)
(* when the last one has ended - unless events overtook each other, an     *)
(* update failed behind the 200, or a second subscription was taken while  *)
(* the first one lived.                                                    *)
RowShowsSubscription ==
    AllApplied /\ ~muddled /\ Started # {} =>
      IF \E s \in Sub : Alive(s)
      THEN \A s \in Sub : Alive(s) =>
             /\ row.sub = s /\ row.plan = stripe[s].plan
             /\ row.status = stripe[s].status /\ row.customer = stripe[s].customer
      ELSE row.plan = Starter /\ row.status = "canceled" /\ row.sub = None

(* ChirpStack then enforces the limits of the plan that is paid for.  They *)
(* outlive the subscription.                                               *)
LimitsFollowPlan ==
    AllApplied /\ ~muddled =>
      limits = row.plan \/ (row.sub = None /\ \E s \in Sub : limits = stripe[s].plan)
=============================================================================
