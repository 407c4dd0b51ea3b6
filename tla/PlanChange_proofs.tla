--------------------------- MODULE PlanChange_proofs ---------------------------
(* Proofs about PlanChange: money adds up, within bounds, and the plans agree,  *)
(* for any plans, prices, periods, overlapping requests and bounds.            *)
EXTENDS PlanChange, FiniteSetTheorems, TLAPS

Steps == {"free", "stripe", "invoice", "tenant", "sub", "invalidate", "query", "store"}
Requests == [at : Steps, to : Plan \cup {NoPlan}, seen : Sub \cup {NoSub}, net : Int, alone : BOOLEAN]

\* The types the arithmetic needs; the bounds on the amounts follow at the end of the module.
Forms ==
    /\ sub \in Sub /\ credit \in Int /\ paid \in Int /\ left \in 0 .. Period
    /\ req \in [Proc -> Requests]
    /\ base \in [balance : Int, plan : Plan] /\ even \in BOOLEAN /\ split \in BOOLEAN
    /\ \A p \in Proc : Changing(p) => req[p].to \in Plan

\* A change nobody has run beside is the only one, and its tenant's plan is final
\* when it comes to the subscription.
AloneAt(p) ==
    Changing(p) /\ req[p].alone =>
        /\ \A q \in Proc : Changing(q) => q = p
        /\ req[p].at = "sub" => plan = Upper(req[p].to)

\* How far a change has brought the plans together.
PlansAt(p) ==
    ~split /\ Changing(p) =>
        /\ req[p].alone
        /\ req[p].at \in {"stripe", "invoice", "tenant"} => req[p].seen # NoSub
        /\ req[p].at \in {"invoice", "tenant", "sub"} => provider = req[p].to
        /\ req[p].at = "invalidate" => plan = Upper(sub.plan) /\ provider = sub.plan

Due(x) == Share(Price[x], left)

\* A balance b is what the plan x costs more than the plan of the day's beginning.
AddsUp(b, x) ==
    /\ sub.status = "active" => b - base.balance = Due(x) - Due(base.plan)
    /\ sub.status = "trialing" => b = base.balance
    /\ sub.status = "past_due" => b >= base.balance

\* What a change has charged or credited so far.
Posted(p) ==
    IF (req[p].at = "tenant" /\ req[p].net > 0) \/ req[p].at = "sub" THEN req[p].net ELSE 0

\* An even change knows the subscription as it is, and adds up step by step.
MoneyAt(p) ==
    even /\ Changing(p) =>
        /\ req[p].alone
        /\ req[p].at # "invalidate" => req[p].seen = Current /\ req[p].net = Net(Current, req[p].to)
        /\ req[p].at = "sub" => sub.status # "past_due"
        /\ AddsUp(Balance - Posted(p), sub.plan)

\* The inductive invariant.
IInv ==
    /\ Forms
    /\ \A p \in Proc : AloneAt(p) /\ PlansAt(p) /\ MoneyAt(p)
    /\ Quiet /\ even => AddsUp(Balance, sub.plan)
    /\ PlansAgree

-----------------------------------------------------------------------------
\* The share of a price is a natural number of cents.
LEMMA ShareIsNat ==
    ASSUME NEW price \in Nat, NEW days \in Nat
    PROVE  Share(price, days) \in Nat
<1> DEFINE n == 2 * price * days + Period
           d == 2 * Period
<1>1. n \in Nat /\ d \in Nat \ {0}
  BY PlanChangeAssumption
<1>2. \A a \in Nat, b \in Nat \ {0} : a \div b \in Nat
  OBVIOUS
<1> QED
  BY <1>1, <1>2 DEF Share

\* So are the costs of a plan for the days left, and for a whole period.
LEMMA DueIsNat ==
    ASSUME Forms, NEW x \in Plan
    PROVE  Due(x) \in Nat /\ Share(Price[x], Period) \in Nat
<1>1. Price[x] \in Nat /\ left \in Nat /\ Period \in Nat
  BY PlanChangeAssumption DEF Forms
<1> QED
  BY <1>1, ShareIsNat DEF Due

\* The row the SELECT finds is none exactly when the tenant is past due.
LEMMA CurrentIs ==
    ASSUME sub \in Sub
    PROVE  /\ Current = NoSub <=> sub.status = "past_due"
           /\ Current # NoSub => Current = sub
           /\ Current \in Sub \cup {NoSub}
BY PlanChangeAssumption DEF Current, NoSub, Sub, Status

\* The price of a change, by the status of the tenant.
LEMMA NetIs ==
    ASSUME Forms, NEW x \in Plan
    PROVE  /\ Net(Current, x) \in Int
           /\ sub.status = "trialing" => Net(Current, x) = 0
           /\ sub.status = "past_due" => Net(Current, x) >= 0
           /\ sub.status = "active" => Net(Current, x) = Due(x) - Due(sub.plan)
<1>1. sub \in Sub /\ sub.plan \in Plan
  BY DEF Forms, Sub
<1>2. Due(x) \in Nat /\ Due(sub.plan) \in Nat /\ Share(Price[x], Period) \in Nat
  BY <1>1, DueIsNat
<1>3. CASE sub.status = "trialing"
  <2>1. Current.status = "trialing"
    BY <1>1, <1>3, CurrentIs
  <2>2. Net(Current, x) = 0
    BY <2>1 DEF Net
  <2> QED
    BY <1>3, <2>2
<1>4. CASE sub.status = "past_due"
  <2>1. Current = NoSub /\ Current.status # "trialing"
    BY <1>1, <1>4, CurrentIs DEF NoSub
  <2>2. Net(Current, x) = Share(Price[x], Period)
    BY <2>1 DEF Net
  <2> QED
    BY <1>2, <1>4, <2>2
<1>5. CASE sub.status = "active"
  <2>1. Current = sub /\ Current # NoSub /\ Current.status # "trialing"
    BY <1>1, <1>5, CurrentIs
  <2>2. Net(Current, x) = Due(x) - Due(sub.plan)
    BY <2>1 DEF Net, Due
  <2> QED
    BY <1>2, <1>5, <2>2
<1> QED
  BY <1>1, <1>3, <1>4, <1>5 DEF Sub, Status

-----------------------------------------------------------------------------
\* Before the first change everything adds up and agrees.
LEMMA IInvInit == Init => IInv
<1> SUFFICES ASSUME Init PROVE IInv
  OBVIOUS
<1>1. sub \in Sub /\ sub.plan \in Plan /\ plan = Upper(sub.plan) /\ provider = sub.plan
  BY DEF Init, Sub, Status
<1>2. \A p \in Proc : req[p] = Idle
  BY DEF Init
<1>3. \A p \in Proc : ~Changing(p)
  BY <1>2 DEF Changing, Idle
<1>4. Idle \in Requests
  BY DEF Idle, Requests, Steps
<1>5. base = [balance |-> 0, plan |-> sub.plan] /\ left = Period /\ credit = 0 /\ paid = 0
  BY DEF Init
<1>6. Forms
  <2>1. req \in [Proc -> Requests]
    BY <1>4 DEF Init
  <2>2. base \in [balance : Int, plan : Plan]
    BY <1>1, <1>5
  <2>3. even \in BOOLEAN /\ split \in BOOLEAN
    BY DEF Init
  <2> QED
    BY <1>1, <1>3, <1>5, <2>1, <2>2, <2>3, PlanChangeAssumption DEF Forms
<1>7. AddsUp(Balance, sub.plan)
  BY <1>1, <1>5, <1>6, DueIsNat DEF AddsUp, Balance
<1> QED
  BY <1>1, <1>3, <1>6, <1>7 DEF IInv, AloneAt, PlansAt, MoneyAt, PlansAgree

\* A change p leaves the promises of the others alone: none of them is by itself.
LEMMA OthersKeep ==
    ASSUME IInv, NEW p \in Proc, Changing(p), NEW q \in Proc, q # p, req'[q] = req[q],
           even' => even, ~split' => ~split \/ req[p].alone
    PROVE  AloneAt(q)' /\ PlansAt(q)' /\ MoneyAt(q)'
<1>1. Changing(q)' <=> Changing(q)
  BY DEF Changing
<1>2. ~(Changing(q) /\ req[q].alone)
  BY DEF IInv, AloneAt
<1>3. AloneAt(q)'
  BY <1>1, <1>2 DEF AloneAt
<1>4. PlansAt(q)'
  <2> SUFFICES ASSUME ~split', Changing(q) PROVE FALSE
    BY <1>1 DEF PlansAt
  <2>1. CASE ~split
    BY <1>2, <2>1 DEF IInv, PlansAt
  <2>2. CASE req[p].alone
    BY <2>2 DEF IInv, AloneAt
  <2> QED
    BY <2>1, <2>2
<1>5. MoneyAt(q)'
  BY <1>1, <1>2 DEF IInv, MoneyAt
<1> QED
  BY <1>3, <1>4, <1>5

\* A change goes on to its step s and keeps its own promises there.
LEMMA GoesOn ==
    ASSUME IInv, Forms', NEW p \in Proc, Changing(p),
           NEW s \in {"invoice", "tenant", "sub", "invalidate"}, Goto(p, s),
           even' => even, ~split' => ~split \/ req[p].alone,
           s = "sub" /\ req[p].alone => plan' = Upper(req[p].to),
           PlansAt(p)', MoneyAt(p)'
    PROVE  IInv'
<1>1. /\ req'[p].at = s /\ req'[p].to = req[p].to /\ req'[p].alone = req[p].alone
      /\ \A q \in Proc \ {p} : req'[q] = req[q]
  BY DEF Goto, IInv, Forms, Requests
<1>2. Changing(p)' /\ \A q \in Proc : Changing(q)' => Changing(q)
  BY <1>1 DEF Changing
<1>3. AloneAt(p)'
  BY <1>1, <1>2 DEF IInv, AloneAt
<1>4. \A q \in Proc : AloneAt(q)' /\ PlansAt(q)' /\ MoneyAt(q)'
  BY <1>1, <1>3, OthersKeep
<1>5. ~Quiet'
  BY <1>2 DEF Quiet
<1> QED
  BY <1>4, <1>5 DEF IInv, PlansAgree

\* A step that touches neither plans, money nor changes keeps the invariant.
LEMMA OthersStep ==
    ASSUME IInv, Forms', UNCHANGED <<sub, plan, credit, paid, provider, left, history>>,
           \A q \in Proc : Changing(q)' <=> Changing(q),
           \A q \in Proc : Changing(q) => req'[q] = req[q]
    PROVE  IInv'
<1>1. UNCHANGED <<base, even, split>> /\ (Quiet' <=> Quiet)
  BY DEF history, Quiet
<1>2. \A x : Due(x)' = Due(x)
  BY DEF Due
<1>3. Balance' = Balance /\ Current' = Current
  BY DEF Balance, Current
<1>4. \A b, x : AddsUp(b, x)' <=> AddsUp(b, x)
  BY <1>1 DEF AddsUp, Due
<1>5. ASSUME NEW p \in Proc PROVE AloneAt(p)' /\ PlansAt(p)' /\ MoneyAt(p)'
  <2>1. CASE ~Changing(p)
    BY <2>1 DEF AloneAt, PlansAt, MoneyAt
  <2>2. CASE Changing(p)
    <3>1. req'[p] = req[p]
      BY <2>2
    <3>2. AloneAt(p)' /\ PlansAt(p)'
      BY <1>1, <3>1 DEF IInv, AloneAt, PlansAt
    <3>3. Net(Current, req[p].to)' = Net(Current, req[p].to) /\ Posted(p)' = Posted(p)
      BY <1>3, <3>1 DEF Net, Posted
    <3>4. AddsUp(Balance - Posted(p), sub.plan)' <=> AddsUp(Balance - Posted(p), sub.plan)
      BY <1>1, <1>3, <3>3 DEF AddsUp, Due
    <3>5. MoneyAt(p)'
      BY <1>1, <1>3, <2>2, <3>1, <3>3, <3>4 DEF IInv, MoneyAt
    <3> QED
      BY <3>2, <3>5
  <2> QED
    BY <2>1, <2>2
<1>6. AddsUp(Balance, sub.plan)' <=> AddsUp(Balance, sub.plan)
  BY <1>1, <1>3 DEF AddsUp, Due
<1> QED
  BY <1>1, <1>5, <1>6 DEF IInv, PlansAgree

-----------------------------------------------------------------------------
\* POST /change-plan begins a change.
LEMMA ChangeBegins ==
    ASSUME IInv, NEW p \in Proc, NEW to \in Plan, NEW viaStripe \in BOOLEAN, ChangePlan(p, to, viaStripe)
    PROVE  IInv'
<1> DEFINE at == IF viaStripe /\ Current # NoSub THEN "stripe" ELSE "invoice"
           new == [at |-> at, to |-> to, seen |-> Current, net |-> Net(Current, to), alone |-> Quiet]
<1>1. /\ UNCHANGED <<sub, plan, credit, paid, provider, left, base>>
      /\ req' = [q \in Proc |-> IF q # p THEN [req[q] EXCEPT !.alone = FALSE] ELSE new]
      /\ even' = (even /\ Quiet) /\ split' = (split \/ ~Quiet \/ Current = NoSub \/ ~viaStripe)
      /\ ~Changing(p)
  BY DEF ChangePlan, Changing, Idle
<1>2. sub \in Sub /\ req \in [Proc -> Requests] /\ Current \in Sub \cup {NoSub} /\ Net(Current, to) \in Int
  BY CurrentIs, NetIs DEF IInv, Forms
<1>3. at \in {"stripe", "invoice"} /\ Quiet \in BOOLEAN
  BY DEF Quiet
<1>4. new \in Requests
  BY <1>2, <1>3 DEF Requests, Steps
<1>5. \A q \in Proc \ {p} : /\ req'[q].at = req[q].at /\ req'[q].to = req[q].to
                            /\ req'[q].alone = FALSE /\ req'[q] \in Requests
  <2> SUFFICES ASSUME NEW q \in Proc \ {p}
               PROVE  /\ req'[q].at = req[q].at /\ req'[q].to = req[q].to
                      /\ req'[q].alone = FALSE /\ req'[q] \in Requests
    OBVIOUS
  <2>1. req'[q] = [req[q] EXCEPT !.alone = FALSE] /\ req[q] \in Requests
    BY <1>1, <1>2
  <2> QED
    BY <2>1 DEF Requests
<1>6. req'[p] = new
  BY <1>1
<1>7. Changing(p)' /\ \A q \in Proc \ {p} : Changing(q)' <=> Changing(q)
  BY <1>3, <1>5, <1>6 DEF Changing
<1>8. Forms'
  <2>1. req' \in [Proc -> Requests]
    <3>1. \A q \in Proc : req'[q] \in Requests
      BY <1>4, <1>5, <1>6
    <3>2. req' = [q \in Proc |-> req'[q]]
      BY <1>1
    <3> QED
      BY <3>1, <3>2
  <2>2. \A q \in Proc : Changing(q)' => req'[q].to \in Plan
    BY <1>5, <1>6, <1>7 DEF IInv, Forms
  <2>3. even' \in BOOLEAN /\ split' \in BOOLEAN
    BY <1>1, <1>3 DEF IInv, Forms
  <2> QED
    BY <1>1, <2>1, <2>2, <2>3 DEF IInv, Forms
<1>9. AloneAt(p)'
  <2>1. req'[p].alone = Quiet /\ req'[p].at = at
    BY <1>6
  <2> SUFFICES ASSUME Quiet, NEW q \in Proc, Changing(q)' PROVE q = p
    BY <1>3, <2>1 DEF AloneAt
  <2> QED
    BY <1>7 DEF Quiet
<1>10. PlansAt(p)'
  <2> SUFFICES ASSUME ~split' PROVE PlansAt(p)'
    BY DEF PlansAt
  <2>1. Quiet /\ Current # NoSub /\ viaStripe
    BY <1>1
  <2>2. req'[p].at = "stripe" /\ req'[p].seen # NoSub /\ req'[p].alone
    BY <1>6, <2>1
  <2>3. NoSub' = NoSub
    BY DEF NoSub
  <2> QED
    BY <2>2, <2>3 DEF PlansAt
<1>11. MoneyAt(p)'
  <2> SUFFICES ASSUME even' PROVE MoneyAt(p)'
    BY DEF MoneyAt
  <2>1. even /\ Quiet
    BY <1>1
  <2>2. AddsUp(Balance, sub.plan)
    BY <2>1 DEF IInv
  <2>3. req'[p].at \in {"stripe", "invoice"} /\ req'[p].seen = Current /\ req'[p].net = Net(Current, to)
        /\ req'[p].to = to /\ req'[p].alone
    BY <1>3, <1>6, <2>1
  <2>4. Current' = Current /\ Balance' = Balance
    BY <1>1 DEF Current, Balance
  <2>5. Net(Current, req[p].to)' = Net(Current, to)
    BY <1>1, <2>3, <2>4 DEF Net
  <2>6. Posted(p)' = 0
    BY <2>3 DEF Posted
  <2>7. AddsUp(Balance - Posted(p), sub.plan)'
    BY <1>1, <2>2, <2>4, <2>6 DEF AddsUp, Due, Balance, IInv, Forms
  <2> QED
    BY <2>3, <2>4, <2>5, <2>7 DEF MoneyAt
<1>12. ASSUME NEW q \in Proc \ {p} PROVE AloneAt(q)' /\ PlansAt(q)' /\ MoneyAt(q)'
  <2>1. ~req'[q].alone
    BY <1>5
  <2>2. ~split' \/ even' => ~Changing(q)'
    BY <1>1, <1>7 DEF Quiet
  <2> QED
    BY <2>1, <2>2 DEF AloneAt, PlansAt, MoneyAt
<1>13. ~Quiet'
  BY <1>7 DEF Quiet
<1> QED
  BY <1>8, <1>9, <1>10, <1>11, <1>12, <1>13 DEF IInv, PlansAgree

\* Stripe is told, or fails.
LEMMA TellStripeKeeps == ASSUME IInv, NEW p \in Proc, TellStripe(p) PROVE IInv'
<1>1. /\ Changing(p) /\ req[p].at = "stripe" /\ Goto(p, "invoice")
      /\ UNCHANGED <<sub, plan, credit, paid, left, base, even>>
      /\ \/ provider' = req[p].to /\ split' = split
         \/ split' = TRUE
  BY DEF TellStripe, Changing
<1>2. req'[p] = [req[p] EXCEPT !.at = "invoice"] /\ req[p] \in Requests
  BY <1>1 DEF Goto, IInv, Forms
<1>3. /\ req'[p].at = "invoice" /\ req'[p].to = req[p].to /\ req'[p].seen = req[p].seen
      /\ req'[p].net = req[p].net /\ req'[p].alone = req[p].alone
  BY <1>2 DEF Requests
<1>4. Forms'
  <2>1. req' \in [Proc -> Requests]
    BY <1>1 DEF Goto, IInv, Forms, Requests, Steps
  <2>2. \A q \in Proc : Changing(q)' => Changing(q) /\ req'[q].to = req[q].to
    BY <1>1, <1>3 DEF Goto, IInv, Forms, Changing
  <2> QED
    BY <1>1, <2>1, <2>2 DEF IInv, Forms
<1>5. PlansAt(p)'
  BY <1>1, <1>3 DEF IInv, PlansAt, NoSub
<1>6. MoneyAt(p)'
  <2> SUFFICES ASSUME even PROVE MoneyAt(p)'
    BY <1>1 DEF MoneyAt
  <2>1. Current' = Current /\ Balance' = Balance /\ Posted(p)' = 0 /\ Posted(p) = 0
    BY <1>1, <1>3 DEF Current, Balance, Posted
  <2>2. Net(Current, req[p].to)' = Net(Current, req[p].to)
    BY <1>1, <1>3, <2>1 DEF Net
  <2>3. AddsUp(Balance - Posted(p), sub.plan)' <=> AddsUp(Balance - Posted(p), sub.plan)
    BY <1>1, <2>1 DEF AddsUp, Due
  <2> QED
    BY <1>1, <1>3, <2>1, <2>2, <2>3 DEF IInv, MoneyAt
<1> QED
  BY <1>1, <1>4, <1>5, <1>6, GoesOn

\* What a step of a change does to its record.
LEMMA StepOf ==
    ASSUME IInv, NEW p \in Proc, Changing(p), NEW s \in {"invoice", "tenant", "sub", "invalidate"}, Goto(p, s),
           sub' \in Sub, credit' \in Int, paid' \in Int, left' = left, base' = base, even' = even, split' \in BOOLEAN
    PROVE  /\ Forms'
           /\ req'[p].at = s /\ req'[p].to = req[p].to /\ req'[p].seen = req[p].seen
           /\ req'[p].net = req[p].net /\ req'[p].alone = req[p].alone
<1>1. req'[p] = [req[p] EXCEPT !.at = s] /\ req[p] \in Requests
  BY DEF Goto, IInv, Forms
<1>2. /\ req'[p].at = s /\ req'[p].to = req[p].to /\ req'[p].seen = req[p].seen
      /\ req'[p].net = req[p].net /\ req'[p].alone = req[p].alone
  BY <1>1 DEF Requests
<1>3. req' \in [Proc -> Requests]
  BY DEF Goto, IInv, Forms, Requests, Steps
<1>4. \A q \in Proc : Changing(q)' => Changing(q) /\ req'[q].to = req[q].to
  BY <1>2 DEF Goto, IInv, Forms, Changing
<1> QED
  BY <1>2, <1>3, <1>4 DEF IInv, Forms

\* The invoice is written.
LEMMA InvoiceKeeps == ASSUME IInv, NEW p \in Proc, Invoice(p) PROVE IInv'
<1>1. /\ Changing(p) /\ req[p].at = "invoice" /\ Goto(p, "tenant")
      /\ paid' = IF req[p].net > 0 THEN paid + req[p].net ELSE paid
      /\ UNCHANGED <<sub, plan, credit, provider, left, base, even, split>>
  BY DEF Invoice, Changing, history
<1>2. req[p].net \in Int /\ paid \in Int /\ credit \in Int
  BY DEF IInv, Forms, Requests
<1>3. /\ Forms'
      /\ req'[p].at = "tenant" /\ req'[p].to = req[p].to /\ req'[p].seen = req[p].seen
      /\ req'[p].net = req[p].net /\ req'[p].alone = req[p].alone
  BY <1>1, <1>2, StepOf DEF IInv, Forms
<1>4. PlansAt(p)'
  BY <1>1, <1>3 DEF IInv, PlansAt, NoSub
<1>5. MoneyAt(p)'
  <2> SUFFICES ASSUME even PROVE MoneyAt(p)'
    BY <1>1 DEF MoneyAt
  <2>1. Current' = Current
    BY <1>1 DEF Current
  <2>2. Balance' - Posted(p)' = Balance - Posted(p)
    BY <1>1, <1>2, <1>3 DEF Balance, Posted
  <2>3. Net(Current, req[p].to)' = Net(Current, req[p].to)
    BY <1>1, <1>3, <2>1 DEF Net
  <2>4. AddsUp(Balance - Posted(p), sub.plan)' <=> AddsUp(Balance - Posted(p), sub.plan)
    BY <1>1, <2>2 DEF AddsUp, Due
  <2> QED
    BY <1>1, <1>3, <2>1, <2>3, <2>4 DEF IInv, MoneyAt
<1> QED
  BY <1>1, <1>3, <1>4, <1>5, GoesOn

\* The tenant gets the plan, and a credit.
LEMMA TenantKeeps == ASSUME IInv, NEW p \in Proc, Tenant(p) PROVE IInv'
<1> DEFINE s == IF req[p].seen = NoSub THEN "invalidate" ELSE "sub"
<1>1. /\ Changing(p) /\ req[p].at = "tenant" /\ Goto(p, s) /\ s \in {"invoice", "tenant", "sub", "invalidate"}
      /\ plan' = Upper(req[p].to)
      /\ credit' = IF req[p].net < 0 THEN credit - req[p].net ELSE credit
      /\ UNCHANGED <<sub, paid, provider, left, base, even, split>>
  BY DEF Tenant, Changing, history
<1>2. req[p].net \in Int /\ paid \in Int /\ credit \in Int /\ base.balance \in Int
  BY DEF IInv, Forms, Requests
<1>3. /\ Forms'
      /\ req'[p].at = s /\ req'[p].to = req[p].to /\ req'[p].seen = req[p].seen
      /\ req'[p].net = req[p].net /\ req'[p].alone = req[p].alone
  BY <1>1, <1>2, StepOf DEF IInv, Forms
<1>4. PlansAt(p)'
  BY <1>1, <1>3 DEF IInv, PlansAt, NoSub
<1>5. MoneyAt(p)'
  <2> SUFFICES ASSUME even PROVE MoneyAt(p)'
    BY <1>1 DEF MoneyAt
  <2>1. Current' = Current
    BY <1>1 DEF Current
  <2>2. /\ req[p].alone /\ req[p].seen = Current /\ req[p].net = Net(Current, req[p].to)
        /\ AddsUp(Balance - Posted(p), sub.plan)
    BY <1>1 DEF IInv, MoneyAt
  <2>3. Net(Current, req[p].to)' = Net(Current, req[p].to)
    BY <1>1, <1>3, <2>1 DEF Net
  <2>4. req[p].to \in Plan /\ sub \in Sub /\ Forms
    BY <1>1 DEF IInv, Forms
  <2>5. AddsUp(Balance - Posted(p), sub.plan)'
    <3>1. CASE req[p].seen = NoSub
      <4>1. sub.status = "past_due" /\ req[p].net >= 0
        BY <2>2, <2>4, <3>1, CurrentIs, NetIs
      <4>2. Balance' = Balance /\ Posted(p)' = 0
        BY <1>1, <1>2, <1>3, <3>1, <4>1 DEF Balance, Posted
      <4>3. Balance - Posted(p) >= base.balance /\ Balance \in Int
        BY <1>2, <2>2, <4>1 DEF AddsUp, Balance
      <4>4. Posted(p) \in Int /\ Posted(p) >= 0
        BY <1>1, <1>2 DEF Posted
      <4>5. Balance >= base.balance
        BY <1>2, <4>3, <4>4
      <4> QED
        BY <1>1, <1>2, <4>1, <4>2, <4>3, <4>5 DEF AddsUp
    <3>2. CASE req[p].seen # NoSub
      <4>1. Balance' - Posted(p)' = Balance - Posted(p)
        BY <1>1, <1>2, <1>3, <3>2 DEF Balance, Posted
      <4> QED
        BY <1>1, <2>2, <4>1 DEF AddsUp, Due
    <3> QED
      BY <3>1, <3>2
  <2>6. req'[p].at = "sub" => sub.status # "past_due"
    BY <1>3, <2>2, <2>4, CurrentIs
  <2> QED
    BY <1>1, <1>3, <2>1, <2>2, <2>3, <2>5, <2>6 DEF MoneyAt
<1> QED
  BY <1>1, <1>3, <1>4, <1>5, GoesOn

\* The subscription gets the plan.
LEMMA SubscriptionKeeps == ASSUME IInv, NEW p \in Proc, Subscription(p) PROVE IInv'
<1>1. /\ Changing(p) /\ req[p].at = "sub" /\ Goto(p, "invalidate")
      /\ sub' = [sub EXCEPT !.plan = req[p].to]
      /\ split' = (split /\ ~(req[p].alone /\ provider = req[p].to))
      /\ UNCHANGED <<plan, credit, paid, provider, left, base, even>>
  BY DEF Subscription, Changing
<1>2. req[p].to \in Plan /\ req[p].net \in Int /\ sub \in Sub
  BY <1>1 DEF IInv, Forms, Requests
<1>3. sub' \in Sub /\ sub'.plan = req[p].to /\ sub'.status = sub.status /\ split' \in BOOLEAN
  BY <1>1, <1>2 DEF Sub, IInv, Forms
<1>4. /\ Forms'
      /\ req'[p].at = "invalidate" /\ req'[p].to = req[p].to /\ req'[p].seen = req[p].seen
      /\ req'[p].net = req[p].net /\ req'[p].alone = req[p].alone
  BY <1>1, <1>3, StepOf DEF IInv, Forms
<1>5. ~split' => req[p].alone /\ provider = req[p].to
  BY <1>1 DEF IInv, PlansAt
<1>6. PlansAt(p)'
  BY <1>1, <1>3, <1>4, <1>5 DEF IInv, AloneAt, PlansAt
<1>7. MoneyAt(p)'
  <2> SUFFICES ASSUME even PROVE MoneyAt(p)'
    BY <1>1 DEF MoneyAt
  <2>1. /\ req[p].alone /\ req[p].net = Net(Current, req[p].to) /\ sub.status # "past_due"
        /\ AddsUp(Balance - Posted(p), sub.plan)
    BY <1>1 DEF IInv, MoneyAt
  <2>2. Balance' = Balance /\ Posted(p)' = 0 /\ Posted(p) = req[p].net /\ Balance \in Int /\ base.balance \in Int
    BY <1>1, <1>4 DEF Balance, Posted, IInv, Forms
  <2>3. sub.plan \in Plan /\ base.plan \in Plan /\ Forms
    BY <1>2 DEF Sub, IInv, Forms
  <2>4. Due(req[p].to) \in Nat /\ Due(sub.plan) \in Nat /\ Due(base.plan) \in Nat
    BY <1>2, <2>3, DueIsNat
  <2>5. /\ sub.status = "trialing" => req[p].net = 0
        /\ sub.status = "active" => req[p].net = Due(req[p].to) - Due(sub.plan)
    BY <1>2, <2>1, <2>3, NetIs
  <2>6. /\ sub.status = "active" => Balance - base.balance = Due(req[p].to) - Due(base.plan)
        /\ sub.status = "trialing" => Balance = base.balance
    BY <1>2, <2>1, <2>2, <2>4, <2>5 DEF AddsUp
  <2>7. AddsUp(Balance - Posted(p), sub.plan)'
    BY <1>1, <1>3, <2>1, <2>2, <2>6 DEF AddsUp, Due
  <2> QED
    BY <1>4, <2>1, <2>7 DEF MoneyAt
<1> QED
  BY <1>1, <1>4, <1>5, <1>6, <1>7, GoesOn

\* A request that comes to its end is no change any more; the others go on.
LEMMA Ended ==
    ASSUME IInv, NEW p \in Proc, End(p)
    PROVE  /\ ~Changing(p)' /\ req' \in [Proc -> Requests]
           /\ \A q \in Proc \ {p} : req'[q] = req[q]
           /\ \A q \in Proc : Changing(q)' => Changing(q) /\ q # p /\ req'[q] = req[q]
<1>1. Idle \in Requests
  BY DEF Idle, Requests, Steps
<1>2. req'[p] = Idle /\ (\A q \in Proc \ {p} : req'[q] = req[q]) /\ req' \in [Proc -> Requests]
  BY <1>1 DEF End, IInv, Forms
<1>3. ~Changing(p)'
  BY <1>2 DEF Changing, Idle
<1> QED
  BY <1>2, <1>3 DEF Changing

\* The change is over.
LEMMA InvalidateKeeps == ASSUME IInv, NEW p \in Proc, Invalidate(p) PROVE IInv'
<1>1. /\ Changing(p) /\ req[p].at = "invalidate" /\ End(p)
      /\ UNCHANGED <<sub, plan, credit, paid, provider, left, base, even, split>>
  BY DEF Invalidate, Changing, history
<1>2. Forms'
  BY <1>1, Ended DEF IInv, Forms
<1>3. ASSUME NEW q \in Proc PROVE AloneAt(q)' /\ PlansAt(q)' /\ MoneyAt(q)'
  <2>1. CASE q = p
    BY <1>1, <2>1, Ended DEF AloneAt, PlansAt, MoneyAt
  <2>2. CASE q # p
    BY <1>1, <2>2, Ended, OthersKeep
  <2> QED
    BY <2>1, <2>2
<1>4. even => AddsUp(Balance, sub.plan)'
  <2> SUFFICES ASSUME even PROVE AddsUp(Balance, sub.plan)'
    OBVIOUS
  <2>1. AddsUp(Balance - Posted(p), sub.plan) /\ Posted(p) = 0 /\ Balance \in Int
    BY <1>1 DEF IInv, Forms, MoneyAt, Posted, Balance
  <2>2. Balance' = Balance /\ Balance - Posted(p) = Balance
    BY <1>1, <2>1 DEF Balance
  <2> QED
    BY <1>1, <2>1, <2>2 DEF AddsUp, Due
<1>5. ~split => plan = Upper(sub.plan) /\ provider = sub.plan
  BY <1>1 DEF IInv, PlansAt
<1> QED
  BY <1>1, <1>2, <1>3, <1>4, <1>5 DEF IInv, PlansAgree

\* A change that breaks off is neither even nor, until the next, in agreement.
LEMMA AbortKeeps == ASSUME IInv, NEW p \in Proc, Abort(p) PROVE IInv'
<1>1. /\ Changing(p) /\ End(p) /\ even' = FALSE /\ split' = TRUE
      /\ UNCHANGED <<sub, plan, credit, paid, provider, left, base>>
  BY DEF Abort
<1>2. Forms'
  BY <1>1, Ended DEF IInv, Forms
<1>3. ASSUME NEW q \in Proc PROVE AloneAt(q)' /\ PlansAt(q)' /\ MoneyAt(q)'
  <2>1. CASE q = p
    BY <1>1, <2>1, Ended DEF AloneAt, PlansAt, MoneyAt
  <2>2. CASE q # p
    BY <1>1, <2>2, Ended, OthersKeep
  <2> QED
    BY <2>1, <2>2
<1> QED
  BY <1>1, <1>2, <1>3 DEF IInv, PlansAgree

\* Previews and the cache touch no change.
LEMMA PreviewKeeps ==
    ASSUME IInv, NEW p \in Proc, Preview(p) \/ Query(p) \/ Store(p)
    PROVE  IInv'
<1>1. UNCHANGED <<sub, plan, credit, paid, provider, left, history>> /\ ~Changing(p)
  BY DEF Preview, Query, Store, Changing, Idle
<1>2. UNCHANGED <<base, even, split>>
  BY <1>1 DEF history
<1>3. Current \in Sub \cup {NoSub} /\ Idle \in Requests
  BY CurrentIs DEF IInv, Forms, Idle, Requests, Steps
<1>4. /\ req' \in [Proc -> Requests] /\ ~Changing(p)'
      /\ \A q \in Proc \ {p} : req'[q] = req[q]
  <2>1. CASE Preview(p)
    <3>1. CASE UNCHANGED req
      BY <1>1, <3>1 DEF IInv, Forms, Changing
    <3>2. CASE Goto(p, "query")
      <4>1. req' \in [Proc -> Requests] /\ req'[p].at = "query" /\ \A q \in Proc \ {p} : req'[q] = req[q]
        BY <3>2 DEF Goto, IInv, Forms, Requests, Steps
      <4> QED
        BY <4>1 DEF Changing
    <3> QED
      BY <2>1, <3>1, <3>2 DEF Preview
  <2>2. CASE Query(p)
    <3>1. /\ req' = [req EXCEPT ![p].at = "store", ![p].seen = Current]
      BY <2>2 DEF Query
    <3>2. req'[p].at = "store" /\ req' \in [Proc -> Requests] /\ \A q \in Proc \ {p} : req'[q] = req[q]
      BY <1>3, <3>1 DEF IInv, Forms, Requests, Steps
    <3> QED
      BY <3>2 DEF Changing
  <2>3. CASE Store(p)
    BY <2>3, Ended DEF Store
  <2> QED
    BY <2>1, <2>2, <2>3
<1>5. \A q \in Proc : (Changing(q)' <=> Changing(q)) /\ (Changing(q) => req'[q] = req[q])
  BY <1>1, <1>4 DEF Changing
<1>6. Forms'
  BY <1>1, <1>2, <1>4, <1>5 DEF IInv, Forms
<1> QED
  BY <1>1, <1>5, <1>6, OthersStep

\* A new day, and the writers of the status: what follows is reckoned from here.
LEMMA RebaseKeeps ==
    ASSUME IInv, sub' \in Sub, sub'.plan = sub.plan, left' \in 0 .. Period, Rebase,
           UNCHANGED <<plan, credit, paid, provider, req, split>>
    PROVE  IInv'
<1>1. /\ base' = [balance |-> Balance, plan |-> sub.plan] /\ even' = Quiet /\ sub.plan \in Plan /\ Balance \in Int
  BY DEF Rebase, IInv, Forms, Sub, Balance
<1>2. (\A p \in Proc : Changing(p)' <=> Changing(p)) /\ (Quiet' <=> Quiet) /\ Balance' = Balance /\ Quiet \in BOOLEAN
  BY DEF Changing, Quiet, Balance
<1>3. Forms'
  BY <1>1, <1>2 DEF IInv, Forms
<1>4. ASSUME NEW p \in Proc PROVE AloneAt(p)' /\ PlansAt(p)' /\ MoneyAt(p)'
  <2>1. AloneAt(p)' /\ PlansAt(p)'
    BY <1>2 DEF IInv, AloneAt, PlansAt, NoSub
  <2>2. ~(even' /\ Changing(p)')
    BY <1>1, <1>2 DEF Quiet
  <2> QED
    BY <2>1, <2>2 DEF MoneyAt
<1>5. AddsUp(Balance, sub.plan)'
  <2>1. base'.balance = Balance' /\ base'.plan = sub'.plan /\ Balance' \in Int
    BY <1>1, <1>2
  <2>2. Due(sub.plan)' \in Nat
    <3>1. Price[sub'.plan] \in Nat /\ left' \in Nat
      BY <1>1, PlanChangeAssumption
    <3> QED
      BY <3>1, ShareIsNat DEF Due
  <2> QED
    BY <2>1, <2>2 DEF AddsUp
<1>6. PlansAgree'
  BY <1>2 DEF IInv, PlansAgree
<1> QED
  BY <1>3, <1>4, <1>5, <1>6 DEF IInv

LEMMA TimeKeeps == ASSUME IInv, DayPasses \/ Lapse \/ Reactivate PROVE IInv'
<1>1. sub \in Sub /\ left \in 0 .. Period /\ Period \in Nat
  BY PlanChangeAssumption DEF IInv, Forms
<1>2. sub' \in Sub /\ sub'.plan = sub.plan
  BY <1>1 DEF DayPasses, Lapse, Reactivate, Sub, Status
<1>3. left' \in 0 .. Period
  BY <1>1 DEF DayPasses, Lapse, Reactivate
<1>4. Rebase /\ UNCHANGED <<plan, credit, paid, provider, req, split>>
  BY DEF DayPasses, Lapse, Reactivate
<1> QED
  BY <1>2, <1>3, <1>4, RebaseKeeps

\* Every step keeps the invariant.
LEMMA IInvNext == IInv /\ [Next]_vars => IInv'
<1> SUFFICES ASSUME IInv, [Next]_vars PROVE IInv'
  OBVIOUS
<1>1. ASSUME NEW p \in Proc, Step(p) PROVE IInv'
  BY <1>1, TellStripeKeeps, InvoiceKeeps, TenantKeeps, SubscriptionKeeps, InvalidateKeeps, PreviewKeeps DEF Step
<1>2. ASSUME NEW p \in Proc, PostChangePlan(p) PROVE IInv'
  BY <1>2, ChangeBegins DEF PostChangePlan
<1>3. CASE CacheExpires \/ UNCHANGED vars
  <2>1. UNCHANGED <<sub, plan, credit, paid, provider, left, req, base, even, split>>
    BY <1>3 DEF CacheExpires, vars, history
  <2>2. \A q \in Proc : (Changing(q)' <=> Changing(q)) /\ req'[q] = req[q]
    BY <2>1 DEF Changing
  <2>3. Forms'
    BY <2>1, <2>2 DEF IInv, Forms
  <2> QED
    BY <2>1, <2>2, <2>3, OthersStep DEF history
<1> QED
  BY <1>1, <1>2, <1>3, AbortKeeps, PreviewKeeps, TimeKeeps DEF Next

LEMMA Inductive == Spec => []IInv
BY IInvInit, IInvNext, PTL DEF Spec

-----------------------------------------------------------------------------
\* However many changes there are in a day, what the tenant has paid less what it
\* was credited is the difference of the last and the first plan for the days
\* left, for all prices and periods (prorationService.ts:62-68, 140-176).
THEOREM MoneyAddsUp == Spec => []MoneyTelescopes
<1>1. IInv => MoneyTelescopes
  BY DEF IInv, MoneyTelescopes, AddsUp, Due
<1> QED
  BY <1>1, Inductive, PTL

\* Between changes, tenant, subscription and Stripe agree on the plan, unless one
\* overlapped another, broke off or did without Stripe, and again after the next
\* change by itself (prorationService.ts:91-213).
THEOREM PlansStayTogether == Spec => []PlansAgree
<1>1. IInv => PlansAgree
  BY DEF IInv
<1> QED
  BY <1>1, Inductive, PTL
-----------------------------------------------------------------------------
(* The bounds on the amounts *)

\* The changes that have yet to charge their net, and those that have yet to credit it.
Charging == {p \in Proc : req[p].at \in {"stripe", "invoice"}}
Crediting == {p \in Proc : req[p].at \in {"stripe", "invoice", "tenant"}}

\* Every change that was requested costs or credits the dearest plan at most: those
\* that have come so far, and those that still can.
Amounts ==
    /\ IsFiniteSet(Charging) /\ IsFiniteSet(Crediting)
    /\ paid \in Nat /\ paid + Cardinality(Charging) * MaxPrice <= changes * MaxPrice
    /\ credit \in Nat /\ credit + Cardinality(Crediting) * MaxPrice <= changes * MaxPrice

Entry == [scoped : BOOLEAN, row : Sub \cup {NoSub}]
Cached == cache = {} \/ \E e \in Entry : cache = {e}
Plans == plan \in {Upper(x) : x \in Plan} /\ provider \in Plan
Counters == changes \in 0 .. MaxChanges /\ previews \in 0 .. MaxPreviews /\ faults \in 0 .. MaxFaults
Nets == \A p \in Proc : req[p].net \in -MaxPrice .. MaxPrice

Bounded == Amounts /\ Cached /\ Plans /\ Counters /\ Nets

\* Facts of arithmetic.
LEMMA Times ==
    ASSUME NEW n \in Nat, NEW m \in Nat
    PROVE  n * m \in Nat /\ (n + 1) * m = n * m + m
OBVIOUS

LEMMA TimesMore ==
    ASSUME NEW n \in Nat, NEW k \in Nat, NEW m \in Nat, n <= k
    PROVE  n * m <= k * m /\ m * n <= m * k
OBVIOUS

LEMMA Quotient ==
    ASSUME NEW x \in Nat, NEW d \in Nat \ {0}, NEW k \in Nat, x < d * (k + 1)
    PROVE  x \div d \in 0 .. k
<1>1. x \div d \in Nat /\ d * (x \div d) <= x
  OBVIOUS
<1> DEFINE q == x \div d
<1>2. q \in Nat /\ d * q <= x
  BY <1>1
<1> HIDE DEF q
<1>3. CASE k + 1 <= q
  <2>1. d * (k + 1) <= d * q
    BY <1>2, <1>3, TimesMore
  <2>2. d * (k + 1) \in Nat /\ d * q \in Nat
    BY <1>2
  <2> QED
    BY <1>2, <2>1, <2>2
<1>4. CASE ~ (k + 1 <= q)
  BY <1>2, <1>4 DEF q
<1> QED
  BY <1>3, <1>4

\* The share of a price is at most that price.
LEMMA ShareIsLess ==
    ASSUME NEW price \in Nat, NEW days \in 0 .. Period
    PROVE  Share(price, days) \in 0 .. price
<1> DEFINE n == 2 * price * days + Period
           d == 2 * Period
<1>1. Period \in Nat \ {0} /\ days \in Nat /\ d \in Nat \ {0}
  BY PlanChangeAssumption
<1>2. price * days <= price * Period /\ price * days \in Nat /\ price * Period \in Nat
  BY <1>1, TimesMore
<1>3. 2 * price * days = 2 * (price * days)
  BY <1>1
<1>4. d * (price + 1) = 2 * (price * Period) + 2 * Period
  BY <1>1
<1>5. n \in Nat /\ n < d * (price + 1)
  BY <1>1, <1>2, <1>3, <1>4
<1> HIDE DEF n, d
<1>6. n \div d \in 0 .. price
  BY <1>1, <1>5, Quotient
<1> QED
  BY <1>6 DEF Share, n, d

LEMMA MaxPriceIs == MaxPrice \in Nat /\ \A x \in Plan : Price[x] \in Nat /\ Price[x] <= MaxPrice
<1>1. PICK top \in Plan : \A q \in Plan : Price[q] <= Price[top]
  BY PlanChangeAssumption
<1> DEFINE t == CHOOSE p \in Plan : \A q \in Plan : Price[q] <= Price[p]
<1>2. t \in Plan /\ \A q \in Plan : Price[q] <= Price[t]
  BY <1>1
<1>3. MaxPrice = Price[t]
  BY DEF MaxPrice
<1> QED
  BY <1>2, <1>3, PlanChangeAssumption

\* So no change costs or credits more than the dearest plan.
LEMMA NetIsBounded ==
    ASSUME Forms, NEW x \in Plan
    PROVE  Net(Current, x) \in -MaxPrice .. MaxPrice
<1>1. sub \in Sub /\ sub.plan \in Plan /\ left \in 0 .. Period /\ Period \in 0 .. Period
  BY PlanChangeAssumption DEF Forms, Sub
<1>2. MaxPrice \in Nat /\ \A y \in Plan : Price[y] \in Nat /\ Price[y] <= MaxPrice
  BY MaxPriceIs
<1>3. /\ Share(Price[x], left) \in 0 .. Price[x] /\ Share(Price[x], Period) \in 0 .. Price[x]
      /\ Share(Price[sub.plan], left) \in 0 .. Price[sub.plan]
  BY <1>1, <1>2, ShareIsLess
<1>4. Current = NoSub \/ Current = sub
  BY <1>1, CurrentIs
<1>5. \/ Net(Current, x) = 0
      \/ Net(Current, x) = Share(Price[x], Period)
      \/ Net(Current, x) = Share(Price[x], left) - Share(Price[sub.plan], left)
  BY <1>4 DEF Net
<1>6. Price[x] \in Nat /\ Price[x] <= MaxPrice /\ Price[sub.plan] \in Nat /\ Price[sub.plan] <= MaxPrice
  BY <1>1, <1>2
<1> HIDE DEF Share
<1> QED
  BY <1>2, <1>3, <1>5, <1>6

-----------------------------------------------------------------------------
\* What a step of p alone does to a set of requests.
LEMMA OneLess ==
    ASSUME NEW S, NEW T, IsFiniteSet(S), NEW p, T = S \/ T = S \ {p}
    PROVE  /\ IsFiniteSet(T) /\ Cardinality(T) \in Nat /\ Cardinality(S) \in Nat
           /\ Cardinality(T) <= Cardinality(S)
           /\ p \in S /\ p \notin T => Cardinality(S) = Cardinality(T) + 1
<1>1. Cardinality(S) \in Nat
  BY FS_CardinalityType
<1>2. IsFiniteSet(S \ {p}) /\ Cardinality(S \ {p}) = IF p \in S THEN Cardinality(S) - 1 ELSE Cardinality(S)
  BY FS_RemoveElement
<1>3. Cardinality(S \ {p}) \in Nat
  BY <1>2, FS_CardinalityType
<1> QED
  BY <1>1, <1>2, <1>3

LEMMA OneMore ==
    ASSUME NEW S, IsFiniteSet(S), NEW p
    PROVE  /\ IsFiniteSet(S \cup {p}) /\ Cardinality(S \cup {p}) \in Nat /\ Cardinality(S) \in Nat
           /\ Cardinality(S \cup {p}) <= Cardinality(S) + 1
<1>1. /\ IsFiniteSet(S \cup {p})
      /\ Cardinality(S \cup {p}) = IF p \in S THEN Cardinality(S) ELSE Cardinality(S) + 1
  BY FS_AddElement
<1>2. Cardinality(S) \in Nat
  BY FS_CardinalityType
<1> QED
  BY <1>1, <1>2

\* Room for n more changes below a bound: fewer leave as much, and one that has come
\* leaves its own.
Room(amount, n, all) == amount \in Nat /\ amount + n * MaxPrice <= all * MaxPrice

LEMMA RoomLeft ==
    ASSUME NEW a, NEW n \in Nat, NEW k \in Nat, NEW all \in Nat, Room(a, n, all), k <= n
    PROVE  Room(a, k, all)
<1>1. MaxPrice \in Nat
  BY MaxPriceIs
<1>2. k * MaxPrice <= n * MaxPrice /\ k * MaxPrice \in Nat /\ n * MaxPrice \in Nat /\ all * MaxPrice \in Nat
  BY <1>1, Times, TimesMore
<1> QED
  BY <1>1, <1>2 DEF Room

LEMMA RoomTaken ==
    ASSUME NEW a, NEW k \in Nat, NEW all \in Nat, Room(a, k + 1, all), NEW x \in 0 .. MaxPrice
    PROVE  Room(a + x, k, all)
<1>1. MaxPrice \in Nat
  BY MaxPriceIs
<1>2. (k + 1) * MaxPrice = k * MaxPrice + MaxPrice /\ k * MaxPrice \in Nat /\ all * MaxPrice \in Nat
  BY <1>1, Times
<1> QED
  BY <1>1, <1>2 DEF Room

LEMMA RoomMade ==
    ASSUME NEW a, NEW n \in Nat, NEW k \in Nat, NEW all \in Nat, Room(a, n, all), k <= n + 1
    PROVE  Room(a, k, all + 1)
<1>1. MaxPrice \in Nat
  BY MaxPriceIs
<1>2. /\ (n + 1) * MaxPrice = n * MaxPrice + MaxPrice /\ (all + 1) * MaxPrice = all * MaxPrice + MaxPrice
      /\ n * MaxPrice \in Nat /\ all * MaxPrice \in Nat
  BY <1>1, Times
<1>3. k * MaxPrice <= (n + 1) * MaxPrice /\ k * MaxPrice \in Nat
  BY <1>1, Times, TimesMore
<1> QED
  BY <1>1, <1>2, <1>3 DEF Room

\* A step that leaves the amounts, and takes nothing but p out of either set.
LEMMA AmountsStay ==
    ASSUME Amounts, Counters, NEW p, paid' = paid, credit' = credit, changes' = changes,
           Charging' = Charging \/ Charging' = Charging \ {p},
           Crediting' = Crediting \/ Crediting' = Crediting \ {p}
    PROVE  Amounts'
<1>1. /\ IsFiniteSet(Charging') /\ Cardinality(Charging') \in Nat /\ Cardinality(Charging) \in Nat
      /\ Cardinality(Charging') <= Cardinality(Charging)
  BY OneLess DEF Amounts
<1>2. /\ IsFiniteSet(Crediting') /\ Cardinality(Crediting') \in Nat /\ Cardinality(Crediting) \in Nat
      /\ Cardinality(Crediting') <= Cardinality(Crediting)
  BY OneLess DEF Amounts
<1>3. changes \in Nat /\ Room(paid, Cardinality(Charging), changes) /\ Room(credit, Cardinality(Crediting), changes)
  BY PlanChangeAssumption DEF Amounts, Counters, Room
<1>4. Room(paid, Cardinality(Charging'), changes) /\ Room(credit, Cardinality(Crediting'), changes)
  BY <1>1, <1>2, <1>3, RoomLeft
<1> QED
  BY <1>1, <1>2, <1>4 DEF Amounts, Room

\* Only the step of p changes.
Elsewhere(p) == \A q \in Proc \ {p} : req'[q].at = req[q].at
LEMMA SetsMove ==
    ASSUME NEW p \in Proc, Elsewhere(p)
    PROVE  /\ req'[p].at \in {"stripe", "invoice"} => Charging' = Charging \cup {p}
           /\ req'[p].at \notin {"stripe", "invoice"} => Charging' = Charging \ {p} /\ p \notin Charging'
           /\ req'[p].at \in {"stripe", "invoice", "tenant"} => Crediting' = Crediting \cup {p}
           /\ req'[p].at \notin {"stripe", "invoice", "tenant"} => Crediting' = Crediting \ {p} /\ p \notin Crediting'
BY DEF Charging, Crediting, Elsewhere

-----------------------------------------------------------------------------
LEMMA BoundedInit == Init => Bounded
<1> SUFFICES ASSUME Init PROVE Bounded
  OBVIOUS
<1>1. MaxPrice \in Nat
  BY MaxPriceIs
<1>2. Charging = {} /\ Crediting = {} /\ Nets
  BY <1>1 DEF Init, Charging, Crediting, Nets, Idle
<1>3. IsFiniteSet({}) /\ Cardinality({}) = 0
  BY FS_EmptySet
<1>4. Amounts
  BY <1>1, <1>2, <1>3, Times DEF Init, Amounts
<1>5. Plans
  BY DEF Init, Plans, Sub
<1> QED
  BY <1>2, <1>4, <1>5, PlanChangeAssumption DEF Init, Bounded, Cached, Counters

\* A step of p, which leaves the counters but for a fault, and writes no net.
LEMMA StepKeepsBounds ==
    ASSUME IInv, IInv', Bounded, NEW p \in Proc, Step(p) \/ Abort(p) \/ Preview(p)
    PROVE  Bounded'
<1>1. req \in [Proc -> Requests] /\ MaxPrice \in Nat /\ req[p] \in Requests /\ req[p].net \in -MaxPrice .. MaxPrice
  BY MaxPriceIs DEF IInv, Forms, Bounded, Nets
<1>2. Elsewhere(p)
  BY <1>1 DEF Step, TellStripe, Invoice, Tenant, Subscription, Invalidate, Query, Store, Abort, Preview,
              Goto, End, Elsewhere
<1>3. Nets'
  <2>1. ASSUME NEW s, Goto(p, s) PROVE req'[p].net = req[p].net
    <3>1. req'[p] = [req[p] EXCEPT !.at = s]
      BY <1>1, <2>1 DEF Goto
    <3> QED
      BY <1>1, <3>1 DEF Requests
  <2>2. ASSUME End(p) PROVE req'[p].net = 0
    BY <1>1, <2>2 DEF End, Idle
  <2>3. ASSUME Query(p) PROVE req'[p].net = req[p].net
    <3>1. req'[p] = [req[p] EXCEPT !.at = "store", !.seen = Current]
      BY <1>1, <2>3 DEF Query
    <3> QED
      BY <1>1, <3>1 DEF Requests
  <2>4. req'[p].net = req[p].net \/ req'[p].net = 0
    <3>1. Goto(p, "invoice") \/ Goto(p, "tenant") \/ Goto(p, "sub") \/ Goto(p, "invalidate") \/ Goto(p, "query")
          \/ End(p) \/ Query(p) \/ req' = req
      BY DEF Step, TellStripe, Invoice, Tenant, Subscription, Invalidate, Store, Abort, Preview
    <3>2. (\E s : Goto(p, s)) \/ End(p) \/ Query(p) \/ req' = req
      BY <3>1
    <3> QED
      BY <2>1, <2>2, <2>3, <3>2
  <2>5. \A q \in Proc \ {p} : req'[q] = req[q]
    BY <1>1 DEF Step, TellStripe, Invoice, Tenant, Subscription, Invalidate, Query, Store, Abort, Preview,
              Goto, End
  <2> QED
    BY <1>1, <2>4, <2>5 DEF Bounded, Nets
<1>4. Counters'
  BY PlanChangeAssumption DEF Bounded, Counters, counters, Step, TellStripe, Invoice, Tenant, Subscription,
              Invalidate, Query, Store, Abort, Preview
<1>5. Plans'
  <2>1. Changing(p) => req[p].to \in Plan
    BY DEF IInv, Forms
  <2> QED
    BY <2>1 DEF Bounded, Plans, Changing, Step, TellStripe, Invoice, Tenant, Subscription,
              Invalidate, Query, Store, Abort, Preview
<1>6. Cached'
  <2>1. CASE Store(p)
    <3>1. [scoped |-> Scoped, row |-> req[p].seen] \in Entry
      BY <1>1 DEF Requests, Entry, Scoped
    <3> QED
      BY <2>1, <3>1 DEF Store, Cached
  <2>2. CASE Invalidate(p)
    <3>1. cache' = {e \in cache : ~e.scoped}
      BY <2>2 DEF Invalidate
    <3> QED
      BY <3>1 DEF Bounded, Cached
  <2>3. CASE ~Store(p) /\ ~Invalidate(p)
    <3>1. cache' = cache
      BY <2>3 DEF Step, TellStripe, Invoice, Tenant, Subscription, Query, Abort, Preview
    <3> QED
      BY <3>1 DEF Bounded, Cached
  <2> QED
    BY <2>1, <2>2, <2>3
<1>7. Amounts'
  <2>1. CASE Invoice(p)
    <3>1. req[p].at = "invoice" /\ req'[p].at = "tenant" /\ credit' = credit /\ changes' = changes
      BY <1>1, <2>1 DEF Invoice, Goto, counters
    <3> DEFINE x == IF req[p].net > 0 THEN req[p].net ELSE 0
    <3>2. x \in 0 .. MaxPrice /\ paid' = paid + x
      BY <1>1, <2>1 DEF Invoice, Bounded, Amounts
    <3> HIDE DEF x
    <3>3. /\ Charging' = Charging \ {p} /\ p \in Charging /\ p \notin Charging' /\ Crediting' = Crediting
      BY <1>2, <3>1, SetsMove DEF Charging, Crediting
    <3>4. /\ IsFiniteSet(Charging') /\ Cardinality(Charging') \in Nat
          /\ Cardinality(Charging) = Cardinality(Charging') + 1
      BY <3>3, OneLess DEF Bounded, Amounts
    <3>5. changes \in Nat /\ Room(paid, Cardinality(Charging') + 1, changes)
      BY <3>4, PlanChangeAssumption DEF Bounded, Amounts, Counters, Room
    <3>6. Room(paid + x, Cardinality(Charging'), changes)
      BY <3>2, <3>4, <3>5, RoomTaken
    <3> QED
      BY <3>1, <3>2, <3>3, <3>4, <3>6 DEF Bounded, Amounts, Room
  <2>2. CASE Tenant(p)
    <3>1. req[p].at = "tenant" /\ req'[p].at \in {"sub", "invalidate"} /\ paid' = paid /\ changes' = changes
      BY <1>1, <2>2 DEF Tenant, Goto, counters
    <3> DEFINE x == IF req[p].net < 0 THEN -req[p].net ELSE 0
    <3>2. x \in 0 .. MaxPrice /\ credit' = credit + x
      BY <1>1, <2>2 DEF Tenant, Bounded, Amounts
    <3> HIDE DEF x
    <3>3. /\ Crediting' = Crediting \ {p} /\ p \in Crediting /\ p \notin Crediting' /\ Charging' = Charging
      BY <1>2, <3>1, SetsMove DEF Charging, Crediting
    <3>4. /\ IsFiniteSet(Crediting') /\ Cardinality(Crediting') \in Nat
          /\ Cardinality(Crediting) = Cardinality(Crediting') + 1
      BY <3>3, OneLess DEF Bounded, Amounts
    <3>5. changes \in Nat /\ Room(credit, Cardinality(Crediting') + 1, changes)
      BY <3>4, PlanChangeAssumption DEF Bounded, Amounts, Counters, Room
    <3>6. Room(credit + x, Cardinality(Crediting'), changes)
      BY <3>2, <3>4, <3>5, RoomTaken
    <3> QED
      BY <3>1, <3>2, <3>3, <3>4, <3>6 DEF Bounded, Amounts, Room
  <2>3. CASE ~Invoice(p) /\ ~Tenant(p)
    <3>1. paid' = paid /\ credit' = credit /\ changes' = changes
      BY <2>3 DEF Step, TellStripe, Subscription, Invalidate, Query, Store, Abort, Preview, counters
    <3>2. \/ req'[p].at \notin {"stripe", "invoice", "tenant"}
          \/ req[p].at = "stripe" /\ req'[p].at = "invoice"
          \/ req'[p].at = req[p].at
      <4>1. CASE TellStripe(p)
        BY <1>1, <4>1 DEF TellStripe, Goto
      <4>2. CASE Subscription(p)
        BY <1>1, <4>2 DEF Subscription, Goto
      <4>3. CASE Query(p)
        <5>1. req'[p] = [req[p] EXCEPT !.at = "store", !.seen = Current]
          BY <1>1, <4>3 DEF Query
        <5> QED
          BY <1>1, <5>1 DEF Requests
      <4>4. CASE Invalidate(p) \/ Store(p) \/ Abort(p)
        BY <1>1, <4>4 DEF Invalidate, Store, Abort, End, Idle
      <4>5. CASE Preview(p)
        <5>1. req' = req \/ Goto(p, "query")
          BY <4>5 DEF Preview
        <5>2. Goto(p, "query") => req'[p] = [req[p] EXCEPT !.at = "query"]
          BY <1>1 DEF Goto
        <5>3. Goto(p, "query") => req'[p].at = "query"
          BY <1>1, <5>2 DEF Requests
        <5> QED
          BY <5>1, <5>3
      <4> QED
        BY <2>3, <4>1, <4>2, <4>3, <4>4, <4>5 DEF Step
    <3>3. Charging' = Charging \/ Charging' = Charging \ {p}
      BY <1>2, <3>2, SetsMove DEF Charging
    <3>4. Crediting' = Crediting \/ Crediting' = Crediting \ {p}
      BY <1>2, <3>2, SetsMove DEF Crediting
    <3> QED
      BY <3>1, <3>3, <3>4, AmountsStay DEF Bounded
  <2> QED
    BY <2>1, <2>2, <2>3
<1> QED
  BY <1>3, <1>4, <1>5, <1>6, <1>7 DEF Bounded

\* A new change makes room for its net.
LEMMA ChangeKeepsBounds ==
    ASSUME IInv, Bounded, NEW p \in Proc, PostChangePlan(p)
    PROVE  Bounded'
<1>1. PICK to \in Plan, viaStripe \in BOOLEAN : ChangePlan(p, to, viaStripe)
  BY DEF PostChangePlan
<1>2. /\ changes < MaxChanges /\ changes' = changes + 1 /\ req[p] = Idle
      /\ UNCHANGED <<plan, credit, paid, provider, cache, previews, faults>>
  BY <1>1 DEF ChangePlan
<1>3. req'[p].at \in {"stripe", "invoice"} /\ req'[p].net = Net(Current, to)
  BY <1>1 DEF ChangePlan
<1>4. \A q \in Proc \ {p} : req'[q].at = req[q].at /\ req'[q].net = req[q].net
  <2>1. \A q \in Proc : req[q] \in Requests
    BY DEF IInv, Forms
  <2>2. \A q \in Proc \ {p} : req'[q] = [req[q] EXCEPT !.alone = FALSE]
    BY <1>1 DEF ChangePlan
  <2> QED
    BY <2>1, <2>2 DEF Requests
<1>5. Nets'
  <2>1. Net(Current, to) \in -MaxPrice .. MaxPrice
    BY NetIsBounded DEF IInv
  <2> QED
    BY <1>3, <1>4, <2>1 DEF Bounded, Nets
<1>6. Charging' = Charging \cup {p} /\ Crediting' = Crediting \cup {p}
  BY <1>3, <1>4, SetsMove DEF Elsewhere
<1>7. /\ IsFiniteSet(Charging') /\ Cardinality(Charging') \in Nat /\ Cardinality(Charging) \in Nat
      /\ Cardinality(Charging') <= Cardinality(Charging) + 1
  BY <1>6, OneMore DEF Bounded, Amounts
<1>8. /\ IsFiniteSet(Crediting') /\ Cardinality(Crediting') \in Nat /\ Cardinality(Crediting) \in Nat
      /\ Cardinality(Crediting') <= Cardinality(Crediting) + 1
  BY <1>6, OneMore DEF Bounded, Amounts
<1>9. changes \in Nat /\ Room(paid, Cardinality(Charging), changes) /\ Room(credit, Cardinality(Crediting), changes)
  BY PlanChangeAssumption DEF Bounded, Amounts, Counters, Room
<1>10. /\ Room(paid, Cardinality(Charging'), changes + 1)
       /\ Room(credit, Cardinality(Crediting'), changes + 1)
  BY <1>7, <1>8, <1>9, RoomMade
<1>11. Amounts'
  BY <1>2, <1>7, <1>8, <1>10 DEF Amounts, Room
<1>12. Counters'
  BY <1>2, PlanChangeAssumption DEF Bounded, Counters
<1> QED
  BY <1>2, <1>5, <1>11, <1>12 DEF Bounded, Cached, Plans

\* The clock and the other writers change no amount.
LEMMA BoundedNext == IInv /\ IInv' /\ Bounded /\ [Next]_vars => Bounded'
<1> SUFFICES ASSUME IInv, IInv', Bounded, [Next]_vars PROVE Bounded'
  OBVIOUS
<1>1. CASE UNCHANGED vars \/ CacheExpires \/ DayPasses \/ Lapse \/ Reactivate
  <2>1. /\ UNCHANGED <<req, changes, previews, faults, paid, credit, plan, provider>>
        /\ cache' = cache \/ cache' = {}
    BY <1>1 DEF vars, CacheExpires, DayPasses, Lapse, Reactivate, counters
  <2>2. Charging' = Charging /\ Crediting' = Crediting
    BY <2>1 DEF Charging, Crediting
  <2> QED
    BY <2>1, <2>2 DEF Bounded, Amounts, Cached, Plans, Counters, Nets
<1>2. ASSUME NEW p \in Proc, Step(p) \/ Abort(p) \/ Preview(p) PROVE Bounded'
  BY <1>2, StepKeepsBounds
<1>3. ASSUME NEW p \in Proc, PostChangePlan(p) PROVE Bounded'
  BY <1>3, ChangeKeepsBounds
<1> QED
  BY <1>1, <1>2, <1>3 DEF Next

\* Within the bounds the amounts have their types.
LEMMA BoundedIsTyped == IInv /\ Bounded => TypeOK
<1> SUFFICES ASSUME IInv, Bounded PROVE TypeOK
  OBVIOUS
<1>1. MaxPrice \in Nat /\ changes \in Nat /\ MaxChanges \in Nat /\ changes <= MaxChanges
  BY MaxPriceIs, PlanChangeAssumption DEF Bounded, Counters
<1>2. changes * MaxPrice <= MaxChanges * MaxPrice /\ changes * MaxPrice \in Nat /\ MaxChanges * MaxPrice \in Nat
  BY <1>1, Times, TimesMore
<1>3. Cardinality(Charging) \in Nat /\ Cardinality(Crediting) \in Nat
  BY FS_CardinalityType DEF Bounded, Amounts
<1>4. Cardinality(Charging) * MaxPrice \in Nat /\ Cardinality(Crediting) * MaxPrice \in Nat
  BY <1>1, <1>3, Times
<1>5. credit \in 0 .. MaxChanges * MaxPrice /\ paid \in 0 .. MaxChanges * MaxPrice
  BY <1>2, <1>4 DEF Bounded, Amounts
<1>6. cache \subseteq Entry /\ Cardinality(cache) <= 1
  <2>1. Cardinality({}) = 0 /\ \A e : Cardinality({e}) = 1
    BY FS_EmptySet, FS_Singleton
  <2> QED
    BY <2>1 DEF Bounded, Cached
<1>7. req \in [Proc -> [at : {"free", "stripe", "invoice", "tenant", "sub", "invalidate", "query", "store"},
                        to : Plan \cup {NoPlan}, seen : Sub \cup {NoSub},
                        net : -MaxPrice .. MaxPrice, alone : BOOLEAN]]
  BY <1>1 DEF IInv, Forms, Bounded, Nets, Requests, Steps
<1> QED
  BY <1>5, <1>6, <1>7 DEF TypeOK, IInv, Forms, Bounded, Plans, Counters, Entry

\* Whatever is upgraded and downgraded, side by side and broken off, nobody is charged
\* or credited more than the requested changes can cost at the dearest plan, and all
\* other variables have their types (prorationService.ts:91-213).
THEOREM WithinBounds == Spec => []TypeOK
<1>1. Init /\ [][Next]_vars => []Bounded
  <2>1. IInv /\ IInv' /\ Bounded /\ [Next]_vars => Bounded'
    BY BoundedNext
  <2> QED
    BY <2>1, BoundedInit, Inductive, PTL DEF Spec
<1> QED
  BY <1>1, Inductive, BoundedIsTyped, PTL DEF Spec
================================================================================
