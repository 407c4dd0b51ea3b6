------------------------------- MODULE PlanChange -------------------------------
(***************************************************************************)
(* Plan changes of one tenant and their price preview (tenant-api:         *)
(* services/prorationService.ts, routes/billing.routes.ts, and the query   *)
(* cache of db/pool.ts).                                                   *)
(*                                                                         *)
(* A change reads the subscription, then tells Stripe, writes an invoice,  *)
(* the tenant, the subscription, and invalidates the cache, each in a      *)
(* statement of its own.  A preview computes the same prices from a cached *)
(* row.  Amounts are in cents; checkout and tax only read, and are left    *)
(* out with the invoice numbers.                                           *)
(***************************************************************************)
EXTENDS Integers, FiniteSets

CONSTANTS
    Plan, NoPlan,
    Price,          \* of each plan for a period
    Period,         \* days in a period; also the 30 days assumed without one
    Proc,           \* requests that may overlap
    MaxChanges,     \* bound: plan changes requested
    MaxPreviews,    \* bound: previews requested
    MaxFaults       \* bound: failed statements and crashes

ASSUME PlanChangeAssumption ==
    /\ NoPlan \notin Plan
    /\ Price \in [Plan -> Nat] /\ Period \in Nat \ {0}
    /\ \E p \in Plan : \A q \in Plan : Price[q] <= Price[p]      \* a dearest plan
    /\ MaxChanges \in Nat /\ MaxPreviews \in Nat /\ MaxFaults \in Nat

VARIABLES
    sub,        \* the subscription: its plan and status
    plan,       \* tenants.plan
    credit,     \* account_credit in tenants.metadata
    paid,       \* the sum of the paid invoices
    provider,   \* the plan Stripe charges for
    left,       \* days to the end of the period
    cache,      \* cached copies of the subscription row
    req, changes, previews, faults,
    base,       \* history: balance and plan when this day's changes began
    even,       \* history: since then one change after the other, no fault
    split       \* history: a change left the three plans apart

vars == <<sub, plan, credit, paid, provider, left, cache, req, changes, previews, faults,
          base, even, split>>
counters == <<changes, previews, faults>>
history == <<base, even, split>>

Upper(p) == <<"upper case", p>>
Status == {"trialing", "active", "past_due"}
Sub == [plan : Plan, status : Status]
\* What the SELECT finds: the row, or nothing when the tenant is past due.
NoSub == [plan |-> NoPlan, status |-> "past_due"]
Current == IF sub.status = "past_due" THEN NoSub ELSE sub

\* `alone' holds while no other change has run beside it.
Idle == [at |-> "free", to |-> NoPlan, seen |-> NoSub, net |-> 0, alone |-> FALSE]
Changing(p) == req[p].at \in {"stripe", "invoice", "tenant", "sub", "invalidate"}
Quiet == \A p \in Proc : ~Changing(p)
Balance == paid - credit
MaxPrice == LET top == CHOOSE p \in Plan : \A q \in Plan : Price[q] <= Price[p] IN Price[top]

\* Types: plans and amounts are in their ranges, and nobody is owed or charged
\* more than the requested changes can add up to.
TypeOK ==
    /\ sub \in Sub
    /\ plan \in {Upper(p) : p \in Plan}
    /\ credit \in 0 .. MaxChanges * MaxPrice /\ paid \in 0 .. MaxChanges * MaxPrice
    /\ provider \in Plan
    /\ left \in 0 .. Period
    /\ cache \subseteq [scoped : BOOLEAN, row : Sub \cup {NoSub}] /\ Cardinality(cache) <= 1
    /\ req \in [Proc -> [at : {"free", "stripe", "invoice", "tenant", "sub", "invalidate",
                               "query", "store"},
                         to : Plan \cup {NoPlan}, seen : Sub \cup {NoSub},
                         net : -MaxPrice .. MaxPrice, alone : BOOLEAN]]
    /\ changes \in 0 .. MaxChanges /\ previews \in 0 .. MaxPreviews /\ faults \in 0 .. MaxFaults
    /\ base \in [balance : Int, plan : Plan] /\ even \in BOOLEAN /\ split \in BOOLEAN

Init ==
    /\ sub \in [plan : Plan, status : {"trialing", "active"}]
    /\ plan = Upper(sub.plan) /\ provider = sub.plan
    /\ credit = 0 /\ paid = 0
    /\ left = Period
    /\ cache = {}
    /\ req = [p \in Proc |-> Idle]
    /\ changes = 0 /\ previews = 0 /\ faults = 0
    /\ base = [balance |-> 0, plan |-> sub.plan] /\ even = TRUE /\ split = FALSE

Goto(p, at) == req' = [req EXCEPT ![p].at = at]
End(p) == req' = [req EXCEPT ![p] = Idle]

-----------------------------------------------------------------------------
(* calculateProration *)

\* The share of a price for days of the period, to the cent.
Share(price, days) == (2 * price * days + Period) \div (2 * Period)

Net(old, to) ==
    IF old.status = "trialing" THEN 0
    ELSE IF old = NoSub THEN Share(Price[to], Period)
    ELSE Share(Price[to], left) - Share(Price[old.plan], left)

-----------------------------------------------------------------------------
(* executePlanChange *)

ChangePlan(p, to, viaStripe) ==
    /\ req[p] = Idle /\ changes < MaxChanges
    /\ changes' = changes + 1
    /\ req' = [q \in Proc |->
                IF q # p THEN [req[q] EXCEPT !.alone = FALSE]
                ELSE [at |-> IF viaStripe /\ Current # NoSub THEN "stripe" ELSE "invoice",
                      to |-> to, seen |-> Current, net |-> Net(Current, to), alone |-> Quiet]]
    /\ even' = (even /\ Quiet)
    /\ split' = (split \/ ~Quiet \/ Current = NoSub \/ ~viaStripe)
    /\ UNCHANGED <<sub, plan, credit, paid, provider, left, cache, previews, faults, base>>

\* POST /change-plan, for whichever plan and provider the tenant names.
PostChangePlan(p) == \E to \in Plan, viaStripe \in BOOLEAN : ChangePlan(p, to, viaStripe)

\* An error of Stripe is logged, and the change goes on without it.
TellStripe(p) ==
    /\ req[p].at = "stripe"
    /\ \/ provider' = req[p].to /\ UNCHANGED <<faults, split>>
       \/ faults < MaxFaults /\ faults' = faults + 1 /\ split' = TRUE /\ UNCHANGED provider
    /\ Goto(p, "invoice")
    /\ UNCHANGED <<sub, plan, credit, paid, left, cache, changes, previews, base, even>>

\* Mutant: a downgrade's invoice is negative.
BugInvoiceNegative(p) ==
    /\ req[p].at = "invoice"
    /\ paid' = paid + req[p].net
    /\ Goto(p, "tenant")
    /\ UNCHANGED <<sub, plan, credit, provider, left, cache, counters, history>>

Invoice(p) ==
    /\ req[p].at = "invoice"
    /\ paid' = IF req[p].net > 0 THEN paid + req[p].net ELSE paid
    /\ Goto(p, "tenant")
    /\ UNCHANGED <<sub, plan, credit, provider, left, cache, counters, history>>

\* Mutant: an upgrade uses up credit as well.
BugTenantSpendsCredit(p) ==
    /\ req[p].at = "tenant"
    /\ plan' = Upper(req[p].to)
    /\ credit' = IF credit > req[p].net THEN credit - req[p].net ELSE 0
    /\ Goto(p, IF req[p].seen = NoSub THEN "invalidate" ELSE "sub")
    /\ UNCHANGED <<sub, paid, provider, left, cache, counters, history>>

Tenant(p) ==
    /\ req[p].at = "tenant"
    /\ plan' = Upper(req[p].to)
    /\ credit' = IF req[p].net < 0 THEN credit - req[p].net ELSE credit
    /\ Goto(p, IF req[p].seen = NoSub THEN "invalidate" ELSE "sub")
    /\ UNCHANGED <<sub, paid, provider, left, cache, counters, history>>

\* Mutant: in a trial the subscription keeps its plan.
BugSubscriptionInTrial(p) ==
    /\ req[p].at = "sub"
    /\ sub' = IF req[p].seen.status = "trialing" THEN sub ELSE [sub EXCEPT !.plan = req[p].to]
    /\ Goto(p, "invalidate")
    /\ split' = (split /\ ~(req[p].alone /\ provider = req[p].to))
    /\ UNCHANGED <<plan, credit, paid, provider, left, cache, counters, base, even>>

Subscription(p) ==
    /\ req[p].at = "sub"
    /\ sub' = [sub EXCEPT !.plan = req[p].to]
    /\ Goto(p, "invalidate")
    \* a change by itself brings the three plans together
    /\ split' = (split /\ ~(req[p].alone /\ provider = req[p].to))
    /\ UNCHANGED <<plan, credit, paid, provider, left, cache, counters, base, even>>

\* invalidateTenantCache deletes the keys query:<tenant>:*, that is what was
\* cached with the tenant's id.
Invalidate(p) ==
    /\ req[p].at = "invalidate"
    /\ cache' = {e \in cache : ~e.scoped}
    /\ End(p)
    /\ UNCHANGED <<sub, plan, credit, paid, provider, left, counters, history>>

\* A statement fails or the server dies in the middle of a change.
Abort(p) ==
    /\ Changing(p) /\ faults < MaxFaults
    /\ faults' = faults + 1
    /\ End(p)
    /\ even' = FALSE /\ split' = TRUE
    /\ UNCHANGED <<sub, plan, credit, paid, provider, left, cache, changes, previews, base>>

-----------------------------------------------------------------------------
(* The preview, by executeCachedQuery *)

\* The preview passes no tenant id, so its keys are query:<hash>.
Scoped == FALSE

Preview(p) ==
    /\ req[p] = Idle /\ previews < MaxPreviews
    /\ previews' = previews + 1
    /\ \/ cache # {} /\ UNCHANGED req          \* a hit, answered by the copy
       \/ cache = {} /\ Goto(p, "query")
    /\ UNCHANGED <<sub, plan, credit, paid, provider, left, cache, changes, faults, history>>

Query(p) ==
    /\ req[p].at = "query"
    /\ req' = [req EXCEPT ![p].at = "store", ![p].seen = Current]
    /\ UNCHANGED <<sub, plan, credit, paid, provider, left, cache, counters, history>>

Store(p) ==
    /\ req[p].at = "store"
    /\ cache' = {[scoped |-> Scoped, row |-> req[p].seen]}
    /\ End(p)
    /\ UNCHANGED <<sub, plan, credit, paid, provider, left, counters, history>>

\* 60 seconds are over.
CacheExpires ==
    /\ cache # {}
    /\ cache' = {}
    /\ UNCHANGED <<sub, plan, credit, paid, provider, left, req, counters, history>>

-----------------------------------------------------------------------------
(* Time, and the other writers of the subscription *)

\* From here on the day's changes are reckoned from this plan and balance.
Rebase == base' = [balance |-> Balance, plan |-> sub.plan] /\ even' = Quiet

DayPasses ==
    /\ left > 0
    /\ left' = left - 1
    /\ Rebase
    /\ UNCHANGED <<sub, plan, credit, paid, provider, cache, req, counters, split>>

\* triggerDunning and checkTrialExpiry make it past due, each with an UPDATE
\* and an invalidation.
Lapse ==
    /\ sub.status # "past_due"
    /\ sub' = [sub EXCEPT !.status = "past_due"]
    /\ Rebase
    /\ UNCHANGED <<plan, credit, paid, provider, left, cache, req, counters, split>>

\* reactivateTenantSubscription, once the tenant has paid.
Reactivate ==
    /\ sub.status = "past_due"
    /\ sub' = [sub EXCEPT !.status = "active"]
    /\ Rebase
    /\ UNCHANGED <<plan, credit, paid, provider, left, cache, req, counters, split>>

Step(p) == TellStripe(p) \/ Invoice(p) \/ Tenant(p) \/ Subscription(p) \/ Invalidate(p)
           \/ Query(p) \/ Store(p)

Next ==
    \/ \E p \in Proc : Step(p) \/ Abort(p) \/ Preview(p)
    \/ \E p \in Proc : PostChangePlan(p)
    \/ CacheExpires \/ DayPasses \/ Lapse \/ Reactivate

Spec == Init /\ [][Next]_vars

-----------------------------------------------------------------------------
\* However often the plan is changed in a day, up and down, what the tenant has
\* paid less what it was credited is the difference between the last and the
\* first plan for the days left, and nothing in a trial; changes that overlap
\* or break off are excepted until the next day (prorationService.ts:62-68,
\* 140-176).
MoneyTelescopes == Quiet /\ even =>
    /\ sub.status = "active" => Balance - base.balance
                                  = Share(Price[sub.plan], left) - Share(Price[base.plan], left)
    /\ sub.status = "trialing" => Balance = base.balance
    /\ sub.status = "past_due" => Balance >= base.balance

\* Between changes the tenant, its subscription and Stripe have the same plan,
\* unless a change overlapped another, broke off, was made while past due or
\* without Stripe; the next change by itself repairs that.
PlansAgree == Quiet /\ ~split => plan = Upper(sub.plan) /\ provider = sub.plan

\* The cached copies left by the invalidation at the end of a change have the
\* new plan ("Tenant cache cleared", pool.ts:344).
InvalidationReachesPreview == [][\A p \in Proc : Invalidate(p) =>
    \A e \in cache' : e.row \in {NoSub, Current}]_vars
================================================================================
