-------------------------- MODULE OnboardingWizard --------------------------
(***************************************************************************)
(* A tenant's dashboard in the console (ClientDashboard) with the wizard   *)
(* of its first steps (TenantOnboardingWizard), and what the platform has  *)
(* of the tenant and answers of it (handler/onboarding.go).  Each load     *)
(* fetches several things, which are served one by one and delivered       *)
(* together; an operation takes effect when it is answered.                *)
(***************************************************************************)
EXTENDS Naturals

CONSTANTS
    None,
    Waiting,    \* what a load has not been served yet
    MaxClicks, MaxFaults

VARIABLES
    have,       \* what the tenant has: a subset of Thing
    status,     \* what the wizard knows it has, or None
    openStep,
    busy,       \* an operation holds the buttons
    chosen,     \* the form of the device has an application, a profile
    counts,     \* what the dashboard shows the tenant has
    pending,    \* operations and loads on their way
    overlapped, \* a load was started while another of its kind was on its way
    failed, clicks

wizardVars == <<have, status, openStep, busy, chosen, counts, pending, overlapped, failed, clicks>>

Prerequisites == {"application", "profile"}
Thing == Prerequisites \cup {"gateway", "device", "traffic"}

\* onboardingCurrentStep: the fifth step, the agent, is never the current one.
CurrentStep(things) ==
    CASE ~(Prerequisites \subseteq things) -> 1
      [] Prerequisites \subseteq things /\ "gateway" \notin things -> 2
      [] Prerequisites \cup {"gateway"} \subseteq things /\ "device" \notin things -> 3
      [] Thing \ {"traffic"} = things -> 4
      [] OTHER -> 6

Complete(things) == CurrentStep(things) > 5

\* A load of the wizard fetches the status and the lists of the form; those of
\* the dashboard are as one.
Unserved(of) == IF of = "wizard" THEN <<Waiting, Waiting>> ELSE <<Waiting>>
Load(of, then) == [kind |-> of, then |-> then, at |-> clicks, got |-> Unserved(of)]

Loads(of) == {l \in pending : l.kind = of}

WizardInit ==
    /\ have \in {{}, {"profile"}, Prerequisites, Thing \ {"device", "traffic"}, Thing \ {"traffic"}}
    /\ status = None /\ openStep = 1 /\ busy = FALSE /\ chosen = {}
    /\ counts = {} /\ overlapped = FALSE /\ failed = 0 /\ clicks = 0
    /\ pending = {[kind |-> of, then |-> 0, at |-> 0, got |-> Unserved(of)] :
                     of \in {"wizard", "dashboard"}}

Fault == failed < MaxFaults /\ failed' = failed + 1
Well == UNCHANGED failed

\* The wizard is there until it knows that all is done.
Click ==
    /\ status # None /\ ~Complete(status)
    /\ clicks < MaxClicks /\ clicks' = clicks + 1

OpenStep(step) ==
    /\ Click /\ openStep' = step /\ step # openStep
    /\ UNCHANGED <<have, status, busy, chosen, counts, pending, overlapped, failed>>

Request(operation) ==
    /\ Click /\ ~busy /\ busy' = TRUE
    /\ pending' = pending \cup {[kind |-> operation]}
    /\ UNCHANGED <<have, status, openStep, chosen, counts, overlapped, failed>>

Bootstrap == openStep = 1 /\ Request("bootstrap") /\ ~(Prerequisites \subseteq status)
CreateGateway == openStep = 2 /\ Request("gateway")
CreateDevice == openStep = 3 /\ chosen = Prerequisites /\ Request("device")

\* Starts the loads, and notes those that overlap.
Start(loads, rest) ==
    /\ pending' = rest \cup loads
    /\ overlapped' = (overlapped \/ \E l \in loads, m \in rest : l.kind = m.kind)

Refresh ==
    /\ openStep = 4 /\ Click /\ Start({Load("wizard", 0), Load("dashboard", 0)}, pending)
    /\ UNCHANGED <<have, status, openStep, busy, chosen, counts, failed>>

\* Mutant: the wizard is not loaded again.
DoneUnloaded(p, step) == pending' = pending \ {p} /\ UNCHANGED overlapped

\* The buttons are free before the wizard has loaded again.
Done(p, step) ==
    Start({Load("wizard", step)}, pending \ {p})

Answer(p) ==
    /\ p.kind \in {"bootstrap", "gateway", "device"} /\ busy' = FALSE
    /\ LET made == IF p.kind = "bootstrap" THEN Prerequisites ELSE {p.kind}
           step == CASE p.kind = "bootstrap" -> 2 [] p.kind = "gateway" -> 3 [] p.kind = "device" -> 4
       IN  \/ have' = have \cup made /\ Well /\ Done(p, step)
           \/ Fault /\ pending' = pending \ {p} /\ UNCHANGED overlapped
              /\ have' \in {have, have \cup made} \cup
                    (IF p.kind = "bootstrap" THEN {have \cup {"profile"}} ELSE {})
    /\ UNCHANGED <<status, openStep, chosen, counts, clicks>>

\* A fetch may fail; the status says FALSE of what the network did not answer.
Serve(l) ==
    /\ l.kind \in {"wizard", "dashboard"}
    /\ \E i \in DOMAIN l.got :
          /\ l.got[i] = Waiting
          /\ \E answer \in {have, None} \cup {have \ {t} : t \in have} :
                /\ IF answer = have THEN Well ELSE Fault
                /\ answer \in {have, None} \/ (l.kind = "wizard" /\ i = 1)
                /\ pending' = (pending \ {l}) \cup {[l EXCEPT !.got[i] = answer]}
    /\ UNCHANGED <<have, status, openStep, busy, chosen, counts, overlapped, clicks>>

Served(l, i) == IF l.got[i] = None THEN {} ELSE l.got[i]

\* The step of the operation comes after the current one of the status; the form
\* keeps what it has.
DeliverWizard(l) ==
    /\ status' = IF l.got[1] = None THEN status ELSE l.got[1]
    /\ chosen' = chosen \cup (Served(l, 2) \cap Prerequisites)
    /\ openStep' = IF l.then # 0 THEN l.then
                   ELSE IF l.got[1] # None /\ ~Complete(l.got[1]) THEN CurrentStep(l.got[1])
                   ELSE openStep
    /\ IF l.then # 0 THEN Start({Load("dashboard", 0)}, pending \ {l})
                     ELSE pending' = pending \ {l} /\ UNCHANGED overlapped
    /\ UNCHANGED counts

\* Counts that failed are zero.
DeliverDashboard(l) ==
    /\ counts' = Served(l, 1)
    /\ pending' = pending \ {l} /\ UNCHANGED <<status, openStep, chosen, overlapped>>

Deliver(l) ==
    /\ l.kind \in {"wizard", "dashboard"} /\ \A i \in DOMAIN l.got : l.got[i] # Waiting
    /\ \/ l.kind = "wizard" /\ DeliverWizard(l)
       \/ l.kind = "dashboard" /\ DeliverDashboard(l)
    /\ UNCHANGED <<have, busy, failed, clicks>>

Traffic ==
    /\ Thing \ {"traffic"} = have /\ have' = Thing
    /\ UNCHANGED <<status, openStep, busy, chosen, counts, pending, overlapped, failed, clicks>>

WizardNext ==
    \/ \E step \in 1..5 : OpenStep(step)
    \/ Bootstrap \/ CreateGateway \/ CreateDevice \/ Refresh
    \/ \E p \in pending : Answer(p) \/ Serve(p) \/ Deliver(p)
    \/ Traffic

-----------------------------------------------------------------------------
(* Property *)

\* Once no operation and no load is on its way, none failed and none overlapped
\* another, the wizard and the dashboard show what the tenant has, but for
\* traffic that came later; and the buttons are held exactly while an operation is on its way.
StepsAsDone ==
    /\ pending = {} => \/ failed > 0 \/ overlapped
                       \/ \A shown \in {status, counts} : shown \cup {"traffic"} = have \cup {"traffic"}
    /\ busy = (\E p \in pending : p.kind \in {"bootstrap", "gateway", "device"})
=============================================================================
