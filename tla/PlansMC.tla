------------------------------- MODULE PlansMC -------------------------------
(***************************************************************************)
(* The billing of a tenant and its device registry, side by side: the      *)
(* initial state picks the one that runs.  The registry meets the changes  *)
(* of plan in its action Bill.                                             *)
(***************************************************************************)
EXTENDS TenantBilling, TLC

CONSTANTS Size, Device, Far, Reg, Edit, MaxRegistryFaults

ASSUME SizeAssumption == Size \subseteq Nat

VARIABLES
    part,       \* the component that runs
    plan, cap, present, off, reg, edit, loose, crossed, registryFaults

billingPart == <<row, limits, stripe, outbox, count, hook, muddled, billingFaults>>
registryPart == <<plan, cap, present, off, reg, edit, loose, crossed, registryFaults>>

Devs == INSTANCE DeviceRegistry WITH Plan <- Size

PlansInit ==
    /\ part \in {"billing", "registry"} /\ BillingInit /\ Devs!RegistryInit
    /\ part = "billing" => \A n \in Size : plan <= n
    /\ part = "registry" => row.plan = Starter

PlansNext ==
    /\ UNCHANGED part
    /\ \/ part = "billing" /\ UNCHANGED registryPart /\ BillingNext
       \/ part = "registry" /\ UNCHANGED billingPart /\ Devs!RegistryNext

plansVars == <<part, billingPart, registryPart>>

PlansSpec == PlansInit /\ [][PlansNext]_plansVars

(* For TLC: nothing is updated while there is a device that is not counted *)
(* or that is about to be one.                                             *)
FarOrEdited ==
    \/ \A u \in Edit : edit[u].at = "idle"
    \/ present \cap Far = {} /\ \A r \in Reg : reg[r].device \notin Far

PlansBounded == PlansInit /\ [][PlansNext /\ FarOrEdited']_plansVars

PlansSymmetry == Permutations(Sub) \cup Permutations(Hook)
       \cup Permutations(Device \ Far) \cup Permutations(Reg) \cup Permutations(Edit)

-----------------------------------------------------------------------------
(* The properties of the parts: those of TenantBilling and DeviceRegistry. *)

(* Once Stripe's events are applied, the tenant's row shows its            *)
(* subscription, and ChirpStack enforces the limits of its plan.           *)
SubscriptionInForce == RowShowsSubscription /\ LimitsFollowPlan

(* The plan bounds the registrations that nothing came in between, as far  *)
(* as the devices are counted.                                             *)
QuotaKept == Devs!QuotaKept

(* Nothing but a request that says so disables a device.                   *)
DisabledByRequest == Devs!DisabledByRequest
=============================================================================
