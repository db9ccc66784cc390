------------------------------ MODULE Tenants ------------------------------
(***************************************************************************)
(* The life of one tenant on the platform side: trial, paid plan, billing  *)
(* by Razorpay, read-only and suspended, its commercial terms, and the     *)
(* support-access grants (apps/api/src/platform-admin/*.service.ts,        *)
(* billing/billing.service.ts, platform-scheduled-jobs.processor.ts).  The *)
(* jobs loop over tenants and touch each by itself, so one is enough.      *)
(* Time counts in the unit of a trial; None is a null date.                *)
(***************************************************************************)
EXTENDS Calls, Sequences

CONSTANTS
    Plans,        \* the plans on sale
    Definitions,  \* what a plan may say: [modules, price, seats]
    Rates,        \* negotiated rates per seat
    SeatCounts,   \* negotiated seats
    Charges,      \* Razorpay's charges of the subscription
    None,
    Year,         \* a subscription's term
    LastTick      \* bound on time

ASSUME TenantsAssumption ==
    /\ Year \in Nat /\ LastTick \in Nat /\ None \notin Nat
    /\ Rates \subseteq Nat /\ SeatCounts \subseteq Nat
    /\ \A d \in Definitions : d.price \in Nat /\ d.seats \in Nat

VARIABLES
    now,
    tenant,     \* its tenants row and its subscriptions row
    catalog,    \* the plans table
    remote,     \* external: subscriptions created at Razorpay
    events,     \* the billing event ledger, in the order applied
    payments,   \* payments rows by charge
    grants      \* break-glass grants

tenantVars == <<now, tenant, catalog, remote, events, payments, grants>>
billingVars == <<remote, events, payments>>

Statuses == {"TRIAL", "ACTIVE", "READ_ONLY", "SUSPENDED"}
Good == {[type |-> "activated", id |-> None]} \cup [type : {"charged"}, id : Charges]
Bad == [type : {"pending", "halted", "cancelled", "other"}, id : {None}]
Past(date) == date # None /\ date <= now

(* snapshotFor(): the plan's modules now, and its seats and list price      *)
(* unless the contract gives them.                                          *)
SnapshotFor(p, seats, rate) ==
    [plan |-> p, modules |-> <<p, catalog[p].modules>>,
     seats |-> IF seats = None THEN catalog[p].seats ELSE seats,
     rate |-> IF rate = None THEN catalog[p].price ELSE rate]

With(row, change) == [f \in DOMAIN row |-> IF f \in DOMAIN change THEN change[f] ELSE row[f]]
Update(change) == tenant' = With(tenant, change)

TenantsInit ==
    /\ now = 0
    /\ catalog \in [Plans -> Definitions]
    /\ \E p \in Plans :
         tenant = With([status |-> "TRIAL", trialEnds |-> 1, graceEnds |-> None,
                        renews |-> None, sub |-> None, plan |-> p, modules |-> None,
                        seats |-> None, rate |-> None], SnapshotFor(p, None, None))
    /\ remote = 0 /\ events = <<>> /\ payments = [c \in Charges |-> 0]
    /\ grants = <<>>

Tick == now < LastTick /\ now' = now + 1
        /\ UNCHANGED <<callVars, tenant, catalog, billingVars, grants>>

OnlyTenant == UNCHANGED <<now, catalog, billingVars, grants>>

----------------------------------------------------------------------------
(* updateTenantStatus(): one unconditional write. *)
UpdateTenantStatus(s) ==
    /\ AtOnce /\ Update([status |-> s]) /\ OnlyTenant

(* setTrialEnd(): reopening is decided by the status read first; date and    *)
(* status are one transaction.                                               *)
SetTrialEndRead(h) ==
    /\ tenant.status \notin {"ACTIVE", "SUSPENDED"}
    /\ Begin(h, [pc |-> "trialEnd", reopening |-> tenant.status = "READ_ONLY"])
    /\ UNCHANGED tenantVars
SetTrialEndWrite(h) ==
    /\ calls[h].pc = "trialEnd"
    /\ \E date \in now + 1 .. LastTick + 1 :
         Update(IF calls[h].reopening THEN [trialEnds |-> date, status |-> "TRIAL"]
                                      ELSE [trialEnds |-> date])
    /\ Finish(h) /\ OnlyTenant

(* changeTenantPlan(): refused for the plan the tenant has; everything of    *)
(* the new plan is taken, its list price too.                                *)
ChangePlanRead(h) ==
    /\ \E p \in Plans \ {tenant.plan} : Begin(h, [pc |-> "plan", to |-> p, convert |-> FALSE])
    /\ UNCHANGED tenantVars
ChangePlanWrite(h) ==
    /\ calls[h].pc = "plan"
    /\ Update(SnapshotFor(calls[h].to, None, None))
    /\ IF calls[h].convert THEN Continue(h, [pc |-> "convert"]) ELSE Finish(h)
    /\ OnlyTenant

(* convertTenant(): refused when ACTIVE or SUSPENDED; a plan change is a     *)
(* call of its own before the conversion's transaction.                      *)
ConvertRead(h) ==
    /\ tenant.status \notin {"ACTIVE", "SUSPENDED"}
    /\ \E p \in Plans :
         Begin(h, IF p = tenant.plan THEN [pc |-> "convert"]
                  ELSE [pc |-> "plan", to |-> p, convert |-> TRUE])
    /\ UNCHANGED tenantVars
ConvertWrite(h) ==
    /\ calls[h].pc = "convert"
    /\ Update([status |-> "ACTIVE", trialEnds |-> None, renews |-> now + Year])
    /\ Finish(h) /\ OnlyTenant

(* renewSubscription(), by an operator or by runRenewals() once the date is  *)
(* due: modules afresh, seats and rate as read, a year more.                 *)
RenewRead(h) ==
    /\ Begin(h, [pc |-> "renew",
                 change |-> SnapshotFor(tenant.plan, tenant.seats, tenant.rate),
                 renews |-> (IF tenant.renews = None THEN now ELSE tenant.renews) + Year])
    /\ UNCHANGED tenantVars
RenewWrite(h) ==
    /\ calls[h].pc = "renew"
    /\ tenant' = With(With(tenant, [calls[h].change EXCEPT !.plan = tenant.plan]),
                      [renews |-> calls[h].renews])
    /\ Finish(h) /\ OnlyTenant
RunRenewals(h) == Past(tenant.renews) /\ RenewRead(h)

(* adjustPricing(): a rate, a seat count or both; what is not given is       *)
(* written back as read.                                                     *)
AdjustRead(h) ==
    /\ \E rate \in Rates \cup {tenant.rate}, seats \in SeatCounts \cup {tenant.seats} :
         /\ <<rate, seats>> # <<tenant.rate, tenant.seats>>
         /\ Begin(h, [pc |-> "price", rate |-> rate, seats |-> seats])
    /\ UNCHANGED tenantVars
AdjustWrite(h) ==
    /\ calls[h].pc = "price"
    /\ Update([rate |-> calls[h].rate, seats |-> calls[h].seats])
    /\ Finish(h) /\ OnlyTenant

(* PlansService.update(): the catalog changes, no live subscription does. *)
UpdatePlan(p, d) ==
    /\ catalog[p] # d
    /\ catalog' = [catalog EXCEPT ![p] = d]
    /\ AtOnce /\ UNCHANGED <<now, tenant, billingVars, grants>>

----------------------------------------------------------------------------
(* Mutant of ExpireTrialsRead: a converted tenant's old date counts too. *)
ExpireTrialsAnyStatus(h) ==
    /\ tenant.status \in {"TRIAL", "ACTIVE"} /\ now >= 1
    /\ Begin(h, [pc |-> "restrict"]) /\ UNCHANGED tenantVars

(* expireTrials() and enforceGrace(): find the tenant, then restrict it      *)
(* whatever it has become.                                                   *)
ExpireTrialsRead(h) ==
    /\ tenant.status = "TRIAL" /\ Past(tenant.trialEnds)
    /\ Begin(h, [pc |-> "restrict"]) /\ UNCHANGED tenantVars
EnforceGraceRead(h) ==
    /\ tenant.status = "ACTIVE" /\ Past(tenant.graceEnds)
    /\ Begin(h, [pc |-> "restrict"]) /\ UNCHANGED tenantVars
RestrictWrite(h) ==
    /\ calls[h].pc = "restrict"
    /\ Update([status |-> "READ_ONLY"])
    /\ Finish(h) /\ OnlyTenant

----------------------------------------------------------------------------
(* subscribeTenant(): refused when one is stored or the amount is zero;      *)
(* created at Razorpay, then stored.                                         *)
SubscribeRead(h) ==
    /\ tenant.sub = None /\ tenant.rate * tenant.seats > 0
    /\ Begin(h, [pc |-> "subscribe"]) /\ UNCHANGED tenantVars
SubscribeCreate(h) ==
    /\ calls[h].pc = "subscribe"
    /\ remote' = remote + 1
    /\ Continue(h, [pc |-> "store", sub |-> remote + 1])
    /\ UNCHANGED <<now, tenant, catalog, events, payments, grants>>
SubscribeStore(h) ==
    /\ calls[h].pc = "store"
    /\ Update([sub |-> calls[h].sub])
    /\ Finish(h) /\ OnlyTenant

(* Mutant of CanReactivate: a payment lifts a suspension. *)
ReactivatesSuspended(status) == status # "ACTIVE"

CanReactivate(status) == status \in {"TRIAL", "READ_ONLY"}
CanRestrict(status) == status \in {"TRIAL", "ACTIVE"}

(* What an event does to the rows, given what the webhook read of them. *)
EventEffect(type, seen) ==
    CASE type \in {"activated", "charged"} ->
           [trialEnds |-> None, graceEnds |-> None, renews |-> now + 1,
            status |-> IF CanReactivate(seen.status) THEN "ACTIVE" ELSE tenant.status]
      [] type = "pending" ->
           [graceEnds |-> IF seen.graceEnds = None THEN now + 1 ELSE tenant.graceEnds]
      [] type \in {"halted", "cancelled"} ->
           [status |-> IF CanRestrict(seen.status) THEN "READ_ONLY" ELSE tenant.status]
      [] OTHER -> <<>>

(* Mutant of Recorded: the ledger insert does not fail on a repeat. *)
NeverRecorded(event) == FALSE

(* The ledger's unique event id. *)
Recorded(event) == \E i \in DOMAIN events : events[i] = event

(* handleWebhook(): Razorpay delivers any event of a subscription it knows,  *)
(* in any order and more than once; an unknown subscription is ignored       *)
(* before the ledger.  Ledger row, payment and state change commit together, *)
(* with the status and grace date read at the start.                         *)
WebhookRead(h, event) ==
    /\ remote > 0 /\ tenant.sub \in 1..remote
    /\ Begin(h, [pc |-> "webhook", event |-> event,
                 seen |-> [status |-> tenant.status, graceEnds |-> tenant.graceEnds]])
    /\ UNCHANGED tenantVars
WebhookCommit(h) ==
    LET c == calls[h] IN
    /\ c.pc = "webhook"
    /\ IF Recorded(c.event) THEN UNCHANGED <<tenant, events, payments>>
       ELSE /\ Update(EventEffect(c.event.type, c.seen))
            /\ events' = Append(events, c.event)
            /\ payments' = IF c.event.type = "charged"
                           THEN [payments EXCEPT ![c.event.id] = @ + 1] ELSE payments
    /\ Finish(h) /\ UNCHANGED <<now, catalog, remote, grants>>

----------------------------------------------------------------------------
(* Break-glass grants. *)
Live(g) == g.status = "ACTIVE" /\ g.expires > now
OnlyGrants == UNCHANGED <<now, tenant, catalog, billingVars>>

(* requestBreakGlass(), revokeBreakGlass(), expireOverdueBreakGlassGrants(). *)
RequestRead(h) ==
    /\ ~\E i \in DOMAIN grants : Live(grants[i])
    /\ Begin(h, [pc |-> "grant"]) /\ UNCHANGED tenantVars
RequestCreate(h) ==
    /\ calls[h].pc = "grant"
    /\ grants' = Append(grants, [status |-> "ACTIVE", expires |-> now + 1])
    /\ Finish(h) /\ OnlyGrants
RevokeRead(h) ==
    /\ \E i \in DOMAIN grants :
         grants[i].status = "ACTIVE" /\ Begin(h, [pc |-> "close", grant |-> i, as |-> "REVOKED"])
    /\ UNCHANGED tenantVars

ExpireGrantsRead(h) ==
    /\ \E i \in DOMAIN grants :
         /\ grants[i].status = "ACTIVE" /\ grants[i].expires <= now
         /\ Begin(h, [pc |-> "close", grant |-> i, as |-> "EXPIRED"])
    /\ UNCHANGED tenantVars
CloseGrant(h) ==
    /\ calls[h].pc = "close"
    /\ grants' = [grants EXCEPT ![calls[h].grant].status = calls[h].as]
    /\ Finish(h) /\ OnlyGrants

----------------------------------------------------------------------------
TenantsLose(h) == Lose(h) /\ UNCHANGED tenantVars

LifecycleNext(h) ==
    \/ SetTrialEndRead(h) \/ SetTrialEndWrite(h)
    \/ ConvertRead(h) \/ ChangePlanWrite(h) \/ ConvertWrite(h)
    \/ ExpireTrialsRead(h) \/ EnforceGraceRead(h) \/ RestrictWrite(h)
    \/ SubscribeRead(h) \/ SubscribeCreate(h) \/ SubscribeStore(h)
    \/ (\E event \in Good \cup Bad : WebhookRead(h, event)) \/ WebhookCommit(h)
    \/ TenantsLose(h)
TermsNext(h) ==
    \/ ChangePlanRead(h) \/ ChangePlanWrite(h) \/ ConvertRead(h) \/ ConvertWrite(h)
    \/ RenewRead(h) \/ RunRenewals(h) \/ RenewWrite(h) \/ AdjustRead(h) \/ AdjustWrite(h)
    \/ TenantsLose(h)
GrantsNext(h) ==
    \/ RequestRead(h) \/ RequestCreate(h) \/ RevokeRead(h) \/ ExpireGrantsRead(h)
    \/ CloseGrant(h) \/ TenantsLose(h)
=============================================================================
