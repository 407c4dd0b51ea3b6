------------------------- MODULE Hosting_proofs -------------------------------
(* Proofs about Hosting: every user is charged once a month and pays an invoice  *)
(* once, a row's limits are its container's, and a job that has completed has    *)
(* missed nobody, for any users, instances, servers, requests and bounds.        *)
EXTENDS Hosting, FiniteSetTheorems, TLAPS

Item == User \cup Inst
ItemOf(k) == IF k = "invoice" THEN User ELSE Inst
Worker == [at : {"down", "idle", "list", "read", "write"}, todo : SUBSET Item, cur : Item \cup {NoItem}]
Request == [at : {"free", "update", "record", "again", "pay"}, inst : Inst \cup {NoItem},
            lim : Limit, gen : Nat, inv : Nat]
Invoice == [id : Nat, user : User, month : Nat, payments : Nat]

\* Types, without the bounds.
AccountTypes == user \in [User -> {"none", "ACTIVE", "PENDING", "SUSPENDED", "gone"}] /\ session \subseteq User
BoxTypes ==
    /\ row \in [Inst -> {"none", "RUNNING", "STOPPED", "gone"}]
    /\ limits \in [Inst -> Limit] /\ box \in [Inst -> Nat] /\ gen \in [Inst -> Nat] /\ off \subseteq Inst
BillTypes == invoices \subseteq Invoice /\ ids \in Nat /\ raced \subseteq Nat
StampTypes == stamp \in [Inst -> [{"backup", "monitor"} -> Nat]]
JobTypes ==
    /\ cron \subseteq Job
    /\ job \in [Job -> {"idle", "waiting", "active", "completed", "failed"}]
    /\ run \in [Job -> Nat] /\ stalls \in [Job -> {0, 1}] /\ redone \subseteq Nat
    /\ listed \in [Job -> SUBSET Item] /\ missed \in [Job -> SUBSET Item]
WorkTypes == w \in [Server -> [Job -> Worker]]
AskTypes == req \in [Proc -> Request] /\ requests \in Nat
Types == /\ AccountTypes /\ BoxTypes /\ BillTypes /\ StampTypes /\ JobTypes /\ WorkTypes /\ AskTypes
         /\ faults \in Nat

\* What a request is about, by its step.
AskShape(q) ==
    /\ req[q].at \in {"update", "record", "again"} <=> req[q].inst # NoItem
    /\ req[q].inv # 0 => req[q].at = "pay" /\ req[q].inv <= ids

\* What a worker has at hand is not on its list as well.
Busy(s, k) == w[s][k].at \in {"read", "write"}
Working(s, k) == w[s][k].at = "list" \/ Busy(s, k)
Left(s, k) == w[s][k].todo \cup {w[s][k].cur}
WorkShape(s, k) == Busy(s, k) =>
    /\ Left(s, k) \subseteq ItemOf(k)
    /\ w[s][k].cur \notin w[s][k].todo

\* A job has a worker only while it is active, and one at most.
OneWorker == \A k \in Job :
    /\ \A s \in Server : Working(s, k) => job[k] = "active"
    /\ \A s, t \in Server : Working(s, k) /\ Working(t, k) => s = t

\* Invoices are numbered, and none is ahead of its time.
Numbered ==
    /\ \A v \in invoices : v.id \in 1 .. ids /\ v.month <= run["invoice"]
    /\ \A u, v \in invoices : u.id = v.id => u = v

\* One invoice a month, but for a month whose job was run again.
Monthly == \A u, v \in invoices :
    u.user = v.user /\ u.month = v.month /\ u.month > 0 /\ u.month \notin redone => u = v

\* Whom the run under way has still to bill it has not billed.
Month == run["invoice"]
Billed == {v.user : v \in {v \in invoices : v.month = Month}}
Unbilled == Month > 0 /\ Month \notin redone =>
    /\ job["invoice"] = "waiting" => Billed = {}
    /\ \A s \in Server : /\ w[s]["invoice"].at = "list" => Billed = {}
                         /\ Busy(s, "invoice") => Billed \cap Left(s, "invoice") = {}

\* An invoice that is being paid, by one request, has not been paid.
Payments == \A v \in invoices : v.id \notin raced =>
    /\ v.payments <= 1
    /\ \A q \in Proc : req[q].inv = v.id => v.payments = 0
    /\ \A q, r \in Proc : req[q].inv = v.id /\ req[r].inv = v.id => q = r

\* One scaling at a time, and the number in the row follows the container's MiB
\* when it records, whatever its unit.
LimitsAt(i) == There(i) /\ i \notin off =>
    /\ \A q, r \in Scaling(i) : q = r
    /\ box[i] # 0 =>
        \/ ParseInt(limits[i]) = box[i] /\ \A q \in Scaling(i) : req[q].at # "record"
        \/ \E q \in Scaling(i) : req[q].at = "record" /\ ParseInt(req[q].lim) = box[i]
LimitsFollow == \A i \in Inst : LimitsAt(i) /\ (row[i] = "none" => Scaling(i) = {})

\* All that was found and is there has been handled, has failed or is still to come.
Were(k, x) == IF k = "invoice" THEN user[x] # "none" ELSE row[x] # "none"
Accounted(k, x) == Present(k, x) =>
    Handled(k, x) \/ x \in missed[k] \/ \E s \in Server : Busy(s, k) /\ x \in Left(s, k)
NoneLostBy(k) ==
    /\ listed[k] \subseteq ItemOf(k) /\ \A x \in listed[k] : Were(k, x)
    /\ job[k] = "completed" \/ (\E s \in Server : Busy(s, k)) => \A x \in listed[k] : Accounted(k, x)
NoneLost == \A k \in Job : NoneLostBy(k)

\* The inductive invariant.
IInv == /\ Types /\ \A q \in Proc : AskShape(q)
        /\ \A s \in Server, k \in Job : WorkShape(s, k)
        /\ OneWorker /\ Numbered /\ Monthly /\ Unbilled /\ Payments /\ LimitsFollow /\ NoneLost

-----------------------------------------------------------------------------
(* What the operators of the actions do *)

LEMMA FreeIs == Free \in Request /\ Free.at = "free" /\ Free.inst = NoItem /\ Free.inv = 0
BY DEF Free, Request, MB, Limit

LEMMA IdleIs == Idle \in Worker /\ Idle.at = "idle" /\ Down \in Worker /\ Down.at = "down"
<1>1. Idle \in Worker /\ Idle.at = "idle"
  BY DEF Idle, Worker
<1> QED
  BY <1>1 DEF Down, Worker

LEMMA LimitsAre ==
    /\ \A plan \in Plan : /\ BoxLimits[plan] \in Nat /\ RowLimits[plan] \in Nat /\ ManualLimits[plan] \in Nat
                          /\ BoxLimits[plan] # 0
                          /\ plan # "ENTERPRISE" => RowLimits[plan] = BoxLimits[plan]
                          /\ plan \notin {"ENTERPRISE", "BUSINESS"} => ManualLimits[plan] = BoxLimits[plan]
    /\ \A lim : PlanFor(lim) \in Plan
BY DEF Plan, BoxLimits, RowLimits, ManualLimits, PlanFor

LEMMA BoxedIs ==
    ASSUME BoxTypes, NEW i \in Inst, NEW plan \in Plan, Boxed(i, plan)
    PROVE  /\ box' \in [Inst -> Nat] /\ gen' \in [Inst -> Nat]
           /\ \A j \in Inst \ {i} : box'[j] = box[j] /\ gen'[j] = gen[j]
           /\ IF box[i] = 0 THEN box'[i] = BoxLimits[plan] ELSE box'[i] = box[i] /\ gen'[i] = gen[i]
BY LimitsAre DEF Boxed, BoxTypes

\* Only the request of q changes, to r.
Asked(q, r) == req'[q] = r /\ \A p \in Proc \ {q} : req'[p] = req[p]
LEMMA AskIs ==
    ASSUME AskTypes, NEW q \in Proc, NEW r \in Request, req' = [req EXCEPT ![q] = r]
    PROVE  req' \in [Proc -> Request] /\ Asked(q, r)
BY DEF AskTypes, Asked

LEMMA EndIs ==
    ASSUME AskTypes, NEW q \in Proc, EndRequest(q)
    PROVE  req' \in [Proc -> Request] /\ Asked(q, Free)
BY FreeIs, AskIs DEF EndRequest

\* Only the worker for k of s changes, to r.
Goes(s, k, r) ==
    /\ w'[s][k] = r
    /\ \A t \in Server, l \in Job : t # s \/ l # k => w'[t][l] = w[t][l]
LEMMA GoIs ==
    ASSUME WorkTypes, NEW s \in Server, NEW k \in Job, NEW r \in Worker, w' = [w EXCEPT ![s][k] = r]
    PROVE  WorkTypes' /\ Goes(s, k, r)
BY DEF WorkTypes, Goes

At(a, r) == [at |-> a, todo |-> r.todo, cur |-> r.cur]
LEMMA StepIs ==
    ASSUME WorkTypes, NEW s \in Server, NEW k \in Job, NEW a \in {"list", "write"},
           w' = [w EXCEPT ![s][k].at = a]
    PROVE  WorkTypes' /\ Goes(s, k, At(a, w[s][k]))
<1>1. w[s][k] \in Worker
  BY DEF WorkTypes
<1>2. [w[s][k] EXCEPT !.at = a] = At(a, w[s][k]) /\ At(a, w[s][k]) \in Worker
  BY <1>1 DEF Worker, At
<1>3. w' = [w EXCEPT ![s][k] = [w[s][k] EXCEPT !.at = a]]
  BY DEF WorkTypes
<1> QED
  BY <1>2, <1>3, GoIs

JobIs(k, how) == job'[k] = how /\ \A l \in Job \ {k} : job'[l] = job[l]
LEMMA EndsIs ==
    ASSUME WorkTypes, JobTypes, NEW s \in Server, NEW k \in Job, NEW how \in {"completed", "failed"}, Ends(s, k, how)
    PROVE  /\ WorkTypes' /\ Goes(s, k, Idle) /\ JobIs(k, how)
           /\ job' \in [Job -> {"idle", "waiting", "active", "completed", "failed"}]
BY IdleIs, GoIs DEF Ends, JobTypes, JobIs

LEMMA OnwardIs ==
    ASSUME WorkTypes, JobTypes, NEW s \in Server, NEW k \in Job, NEW todo \in SUBSET Item, Onward(s, k, todo)
    PROVE  /\ WorkTypes' /\ job' \in [Job -> {"idle", "waiting", "active", "completed", "failed"}]
           /\ \/ todo = {} /\ Goes(s, k, Idle) /\ JobIs(k, "completed")
              \/ /\ job' = job
                 /\ \E x \in todo : Goes(s, k, [at |-> "read", todo |-> todo \ {x}, cur |-> x])
<1>1. CASE todo = {}
  BY <1>1, EndsIs DEF Onward
<1>2. CASE todo # {}
  <2>1. PICK x \in todo : w' = [w EXCEPT ![s][k] = [at |-> "read", todo |-> todo \ {x}, cur |-> x]]
    BY <1>2 DEF Onward
  <2>2. [at |-> "read", todo |-> todo \ {x}, cur |-> x] \in Worker
    BY DEF Worker
  <2> QED
    BY <1>2, <2>1, <2>2, GoIs DEF Onward, JobTypes
<1> QED
  BY <1>1, <1>2

-----------------------------------------------------------------------------
(* What a request leaves as it was *)

\* Nobody who was there is new, and who has gone does not come back.
UsersStay == \A u \in User : /\ user[u] = "gone" => user'[u] = "gone"
                             /\ user[u] # "none" => user'[u] # "none"
RowsStay == \A i \in Inst : /\ row[i] = "gone" => row'[i] = "gone"
                            /\ row[i] # "none" => row'[i] # "none"

LEMMA AccountedKept ==
    ASSUME BoxTypes, UsersStay, RowsStay, NEW k \in Job, NEW x \in ItemOf(k),
           Were(k, x), Accounted(k, x),
           run'[k] = run[k], k # "invoice" => stamp'[x][k] \in {stamp[x][k], run[k]},
           \A v \in invoices : user'[v.user] # "gone" => \E u \in invoices' : u.user = v.user /\ u.month = v.month,
           missed[k] \subseteq missed'[k],
           \A s \in Server : Busy(s, k) /\ x \in Left(s, k) /\ Present(k, x)' =>
              Handled(k, x)' \/ x \in missed'[k] \/ \E t \in Server : Busy(t, k)' /\ x \in Left(t, k)'
    PROVE  Accounted(k, x)'
<1> SUFFICES ASSUME Present(k, x)' PROVE Accounted(k, x)'
  BY DEF Accounted
<1>1. Present(k, x) /\ (k = "invoice" => user'[x] # "gone")
  BY DEF Present, Account, There, Were, ItemOf, UsersStay, RowsStay, BoxTypes
<1>2. Handled(k, x) => Handled(k, x)'
  BY <1>1 DEF Handled
<1> QED
  BY <1>1, <1>2 DEF Accounted

LEMMA JobsKept ==
    ASSUME IInv, Types', UNCHANGED jobs, UsersStay, RowsStay,
           \A v \in invoices : user'[v.user] # "gone" => \E u \in invoices' : u.user = v.user /\ u.month = v.month
    PROVE  (\A s \in Server, k \in Job : WorkShape(s, k)') /\ OneWorker' /\ NoneLost'
<1>1. UNCHANGED <<job, w, run, stalls, listed, missed, stamp>>
  BY DEF jobs
<1>2. (\A s \in Server, k \in Job : WorkShape(s, k)') /\ OneWorker'
  BY <1>1 DEF IInv, WorkShape, OneWorker, Working, Busy, Left, ItemOf
<1>3. ASSUME NEW k \in Job, NEW x \in listed[k], Accounted(k, x) PROVE Accounted(k, x)'
  <2>1. x \in ItemOf(k) /\ Were(k, x)
    BY DEF IInv, NoneLost, NoneLostBy
  <2>2. ASSUME NEW s \in Server, Busy(s, k), x \in Left(s, k)
        PROVE  \E t \in Server : Busy(t, k)' /\ x \in Left(t, k)'
    BY <1>1, <2>2 DEF Busy, Left
  <2>3. BoxTypes
    BY DEF IInv, Types
  <2>4. \A s \in Server : Busy(s, k) /\ x \in Left(s, k) /\ Present(k, x)' =>
            Handled(k, x)' \/ x \in missed'[k] \/ \E t \in Server : Busy(t, k)' /\ x \in Left(t, k)'
    BY <2>2
  <2>5. run'[k] = run[k] /\ (k # "invoice" => stamp'[x][k] \in {stamp[x][k], run[k]}) /\ missed[k] \subseteq missed'[k]
    BY <1>1
  <2> QED
    BY <1>3, <2>1, <2>3, <2>4, <2>5, AccountedKept
<1>4. NoneLost'
  <2>1. \A k \in Job : \A x \in listed[k] : Were(k, x)'
    BY DEF IInv, NoneLost, NoneLostBy, Were, UsersStay, RowsStay, ItemOf
  <2> QED
    BY <1>1, <1>3, <2>1 DEF IInv, NoneLost, NoneLostBy, Busy, ItemOf
<1> QED
  BY <1>2, <1>4

\* The months are billed as they were.
LEMMA BillsKept ==
    ASSUME IInv, UNCHANGED jobs, invoices' = invoices, ids' = ids
    PROVE  Numbered' /\ Monthly' /\ Unbilled'
BY DEF IInv, jobs, Numbered, Monthly, Unbilled, Month, Billed, Busy, Left

LEMMA PaymentsKept ==
    ASSUME IInv, invoices' = invoices, raced' = raced, \A q \in Proc : req'[q].inv \in {0, req[q].inv}
    PROVE  Payments'
<1>1. \A v \in invoices : v.id # 0
  BY DEF IInv, Numbered, Types, BillTypes, Invoice
<1> QED
  BY <1>1 DEF IInv, Payments

\* A request about users or rows only.
LEMMA RowsKeep ==
    ASSUME IInv, UNCHANGED <<limits, box, gen, off, invoices, ids, raced, req, jobs, faults>>,
           requests' \in Nat, AccountTypes', BoxTypes', UsersStay,
           \A i \in Inst : (There(i)' <=> There(i)) /\ (row'[i] = "none" <=> row[i] = "none")
    PROVE  IInv'
<1>1. Types'
  BY DEF IInv, Types, BillTypes, StampTypes, JobTypes, WorkTypes, AskTypes, jobs
<1>2. RowsStay
  BY DEF RowsStay, There, BoxTypes, IInv, Types
<1>3. (\A s \in Server, k \in Job : WorkShape(s, k)') /\ OneWorker' /\ NoneLost'
  BY <1>1, <1>2, JobsKept
<1>4. Numbered' /\ Monthly' /\ Unbilled'
  BY BillsKept
<1>5. Payments'
  BY PaymentsKept
<1>6. \A q \in Proc : AskShape(q)'
  BY DEF IInv, AskShape
<1>7. LimitsFollow'
  BY DEF IInv, LimitsFollow, LimitsAt, Scaling
<1> QED
  BY <1>1, <1>3, <1>4, <1>5, <1>6, <1>7 DEF IInv

LEMMA ServedIs == ASSUME IInv, Served PROVE requests' \in Nat
BY DEF Served, Counted, IInv, Types, AskTypes

LEMMA UserKeeps ==
    ASSUME IInv, NEW u \in User, SignUp(u) \/ Approve(u) \/ SetStatus(u) \/ Login(u)
    PROVE  IInv'
<1>1. AccountTypes /\ BoxTypes /\ requests' \in Nat
  BY ServedIs DEF IInv, Types, SignUp, Approve, SetStatus, Login
<1>2. UNCHANGED <<limits, box, gen, off, invoices, ids, raced, req, jobs, faults>>
  BY DEF SignUp, Approve, SetStatus, Login, boxes, bills
<1>3. CASE SignUp(u) \/ Login(u)
  <2>1. AccountTypes' /\ UsersStay /\ row' = row
    BY <1>1, <1>3 DEF SignUp, Login, AccountTypes, UsersStay, boxes
  <2> QED
    BY <1>1, <1>2, <2>1, RowsKeep DEF BoxTypes, There
<1>4. CASE Approve(u) \/ SetStatus(u)
  <2>1. AccountTypes' /\ UsersStay
    BY <1>1, <1>4 DEF Approve, SetStatus, AccountTypes, UsersStay, Account
  <2>2. PICK done \in SUBSET Mine(u), st \in {"RUNNING", "STOPPED"} : row' = row \/ Rows(done, st)
    <3>1. CASE SetStatus(u)
      BY <3>1 DEF SetStatus
    <3>2. CASE Approve(u)
      <4>1. row' = row \/ \E i \in Mine(u), ok \in BOOLEAN : Rows(IF ok /\ box[i] # 0 THEN {i} ELSE {}, "RUNNING")
        BY <3>2 DEF Approve
      <4> QED
        BY <4>1
    <3> QED
      BY <1>4, <3>1, <3>2
  <2>3. /\ row' \in [Inst -> {"none", "RUNNING", "STOPPED", "gone"}]
        /\ \A i \in Inst : (There(i)' <=> There(i)) /\ (row'[i] = "none" <=> row[i] = "none")
    BY <1>1, <2>2 DEF Rows, Mine, There, BoxTypes
  <2> QED
    BY <1>1, <1>2, <2>1, <2>3, RowsKeep DEF BoxTypes
<1> QED
  BY <1>3, <1>4

LEMMA HaltKeeps ==
    ASSUME IInv, NEW i \in Inst, Halt(i)
    PROVE  IInv'
<1>1. AccountTypes /\ BoxTypes /\ requests' \in Nat
  BY ServedIs DEF IInv, Types, Halt
<1>2. UNCHANGED <<limits, box, gen, off, invoices, ids, raced, req, jobs, faults>>
  BY DEF Halt, bills
<1>3. AccountTypes' /\ UsersStay
  BY <1>1 DEF Halt, accounts, AccountTypes, UsersStay
<1>4. BoxTypes' /\ \A j \in Inst : (There(j)' <=> There(j)) /\ (row'[j] = "none" <=> row[j] = "none")
  BY <1>1, <1>2 DEF Halt, There, BoxTypes
<1> QED
  BY <1>1, <1>2, <1>3, <1>4, RowsKeep

-----------------------------------------------------------------------------
(* Instances, their limits and the requests about them *)

LEMMA FaultIs ==
    ASSUME IInv, Fault \/ faults' = faults
    PROVE  faults' \in Nat
BY DEF Fault, IInv, Types

LEMMA RequestTypes ==
    ASSUME IInv, UNCHANGED jobs, AccountTypes', BoxTypes', BillTypes', AskTypes', faults' \in Nat
    PROVE  Types'
BY DEF IInv, Types, StampTypes, JobTypes, WorkTypes, jobs

\* A request that leaves users and invoices as they are.
LEMMA BoxesKeep ==
    ASSUME IInv, UNCHANGED <<accounts, bills, jobs>>, BoxTypes', AskTypes', faults' \in Nat, RowsStay,
           \A q \in Proc : AskShape(q)' /\ req'[q].inv \in {0, req[q].inv}, LimitsFollow'
    PROVE  IInv'
<1>1. AccountTypes' /\ BillTypes' /\ UsersStay
  BY DEF IInv, Types, AccountTypes, BillTypes, accounts, bills, UsersStay
<1>2. Types'
  BY <1>1, RequestTypes
<1>3. invoices' = invoices /\ ids' = ids /\ raced' = raced
  BY DEF bills
<1>4. (\A s \in Server, k \in Job : WorkShape(s, k)') /\ OneWorker' /\ NoneLost'
  BY <1>1, <1>2, <1>3, JobsKept
<1> QED
  BY <1>2, <1>3, <1>4, BillsKept, PaymentsKept DEF IInv

LEMMA ShapesKept ==
    ASSUME IInv, NEW q \in Proc, NEW r \in Request, Asked(q, r), ids' \in Nat, ids' >= ids,
           r.at \in {"update", "record", "again"} <=> r.inst # NoItem,
           r.inv # 0 => r.at = "pay" /\ r.inv <= ids
    PROVE  \A p \in Proc : AskShape(p)'
<1>1. ids \in Nat /\ \A p \in Proc : req[p] \in Request /\ AskShape(p)
  BY DEF IInv, Types, AskTypes, BillTypes
<1>2. AskShape(q)'
  BY <1>1 DEF AskShape, Asked, Request
<1>3. ASSUME NEW p \in Proc \ {q} PROVE AskShape(p)'
  BY <1>1, <1>3 DEF AskShape, Asked, Request
<1> QED
  BY <1>2, <1>3

\* What nobody touches keeps its limits.
LimitsFor(i) == LimitsAt(i) /\ (row[i] = "none" => Scaling(i) = {})
LEMMA LimitsStay ==
    ASSUME IInv, NEW i \in Inst, row'[i] = row[i], limits'[i] = limits[i], box'[i] \in {0, box[i]},
           i \in off => i \in off',
           \A p \in Proc : /\ req'[p].inst = i <=> req[p].inst = i
                           /\ req[p].inst = i => req'[p] = req[p]
    PROVE  LimitsFor(i)'
<1>1. Scaling(i)' = Scaling(i) /\ \A p \in Scaling(i) : req'[p] = req[p]
  BY DEF Scaling
<1>2. LimitsFor(i)
  BY DEF IInv, LimitsFollow, LimitsFor
<1> QED
  BY <1>1, <1>2 DEF LimitsFor, LimitsAt, There

LEMMA DeployKeeps ==
    ASSUME IInv, HostingAssumption, NEW i \in Inst, Deploy(i)
    PROVE  IInv'
<1>1. PICK manual \in BOOLEAN, plan \in Plan :
        /\ Boxed(i, plan)
        /\ \/ /\ row' = [row EXCEPT ![i] = "RUNNING"]
              /\ limits' = [limits EXCEPT ![i] = MB(IF manual THEN ManualLimits[plan] ELSE RowLimits[plan])]
              /\ off' = IF box[i] # 0 \/ plan = "ENTERPRISE" \/ (manual /\ plan = "BUSINESS")
                        THEN off \cup {i} ELSE off
              /\ UNCHANGED faults
           \/ Fault /\ UNCHANGED <<row, limits, off>>
  BY DEF Deploy, HostingAssumption
<1>2. row[i] = "none" /\ UNCHANGED <<accounts, bills, jobs, req>> /\ requests' \in Nat
  BY ServedIs DEF Deploy
<1>3. BoxTypes /\ AskTypes /\ IInv /\ Scaling(i) = {} /\ Scaling(i)' = {}
  BY <1>2 DEF IInv, Types, LimitsFollow, Scaling
<1>4. /\ box' \in [Inst -> Nat] /\ gen' \in [Inst -> Nat]
      /\ \A j \in Inst \ {i} : box'[j] = box[j] /\ gen'[j] = gen[j]
      /\ IF box[i] = 0 THEN box'[i] = BoxLimits[plan] ELSE box'[i] = box[i] /\ gen'[i] = gen[i]
  BY <1>1, <1>3, BoxedIs
<1>12. /\ MB(IF manual THEN ManualLimits[plan] ELSE RowLimits[plan]) \in Limit
       /\ ParseInt(MB(IF manual THEN ManualLimits[plan] ELSE RowLimits[plan]))
            = IF manual THEN ManualLimits[plan] ELSE RowLimits[plan]
  BY LimitsAre DEF MB, Limit, ParseInt
<1>5. BoxTypes'
  BY <1>1, <1>3, <1>4, <1>12 DEF BoxTypes
<1>6. AskTypes' /\ faults' \in Nat
  BY <1>1, <1>2, <1>3, FaultIs DEF AskTypes
<1>7. RowsStay
  BY <1>1, <1>2, <1>3 DEF RowsStay, BoxTypes
<1>8. \A q \in Proc : AskShape(q)' /\ req'[q].inv \in {0, req[q].inv}
  BY <1>2 DEF IInv, AskShape, bills
<1>9. ASSUME NEW j \in Inst \ {i} PROVE LimitsFor(j)'
  BY <1>1, <1>2, <1>3, <1>4, LimitsStay DEF BoxTypes
<1>10. LimitsFor(i)'
  <2>1. CASE row' = row
    BY <1>2, <1>3, <2>1 DEF LimitsFor, LimitsAt, There
  <2>2. CASE row' # row
    BY <1>1, <1>3, <1>4, <1>12, <2>2, LimitsAre DEF LimitsFor, LimitsAt, There, BoxTypes
  <2> QED
    BY <2>1, <2>2
<1>11. LimitsFollow'
  BY <1>9, <1>10 DEF LimitsFollow, LimitsFor
<1> QED
  BY <1>2, <1>5, <1>6, <1>7, <1>8, <1>11, BoxesKeep

LEMMA BootKeeps ==
    ASSUME IInv, HostingAssumption, NEW i \in Inst, Boot(i)
    PROVE  IInv'
<1>1. /\ There(i) /\ row' = [row EXCEPT ![i] = "RUNNING"] /\ limits' = limits
      /\ Boxed(i, PlanOf[Owner[i]]) /\ PlanOf[Owner[i]] \in Plan
      /\ off' = IF box[i] = 0 THEN off \cup {i} ELSE off
      /\ UNCHANGED <<accounts, bills, jobs, req, faults>> /\ requests' \in Nat
  BY ServedIs DEF Boot, HostingAssumption
<1>2. BoxTypes /\ AskTypes
  BY DEF IInv, Types
<1>3. /\ box' \in [Inst -> Nat] /\ gen' \in [Inst -> Nat]
      /\ \A j \in Inst \ {i} : box'[j] = box[j] /\ gen'[j] = gen[j]
      /\ IF box[i] = 0 THEN box'[i] = BoxLimits[PlanOf[Owner[i]]] ELSE box'[i] = box[i] /\ gen'[i] = gen[i]
  BY <1>1, <1>2, BoxedIs
<1>4. BoxTypes' /\ AskTypes' /\ faults' \in Nat /\ RowsStay
  BY <1>1, <1>2, <1>3, FaultIs DEF BoxTypes, AskTypes, RowsStay, There
<1>5. \A q \in Proc : AskShape(q)' /\ req'[q].inv \in {0, req[q].inv}
  BY <1>1 DEF IInv, AskShape, bills
<1>6. ASSUME NEW j \in Inst \ {i} PROVE LimitsFor(j)'
  BY <1>1, <1>2, <1>3, LimitsStay DEF BoxTypes
<1>7. LimitsFor(i)'
  <2>1. LimitsFor(i) /\ Scaling(i)' = Scaling(i) /\ There(i)' /\ row'[i] # "none"
    BY <1>1, <1>2 DEF IInv, LimitsFollow, LimitsFor, Scaling, There, BoxTypes
  <2>2. LimitsAt(i)'
    BY <1>1, <1>3, <2>1 DEF LimitsFor, LimitsAt
  <2> QED
    BY <2>1, <2>2 DEF LimitsFor
<1>8. LimitsFollow'
  BY <1>6, <1>7 DEF LimitsFollow, LimitsFor
<1> QED
  BY <1>1, <1>4, <1>5, <1>8, BoxesKeep

LEMMA VanishKeeps ==
    ASSUME IInv, NEW i \in Inst, Vanish(i)
    PROVE  IInv'
<1>1. /\ UNCHANGED <<accounts, row, limits, gen, off, bills, jobs, req, requests>>
      /\ box' = [box EXCEPT ![i] = 0] /\ faults' \in Nat
  BY FaultIs DEF Vanish, asks
<1>2. BoxTypes' /\ AskTypes' /\ RowsStay
  BY <1>1 DEF IInv, Types, BoxTypes, AskTypes, RowsStay
<1>3. \A q \in Proc : AskShape(q)' /\ req'[q].inv \in {0, req[q].inv}
  BY <1>1 DEF IInv, AskShape, bills
<1>4. ASSUME NEW j \in Inst PROVE LimitsFor(j)'
  BY <1>1, LimitsStay DEF IInv, Types, BoxTypes
<1> QED
  BY <1>1, <1>2, <1>3, <1>4, BoxesKeep DEF LimitsFollow, LimitsFor

\* A scaling or a re-provisioning begins; the second one at a time is told apart.
LEMMA AskKeeps ==
    ASSUME IInv, NoItem \notin Inst, NEW i \in Inst, NEW q \in Proc, NEW r \in Request,
           r.at \in {"update", "again"}, r.inst = i, r.inv = 0, req[q] = Free, There(i),
           req' = [req EXCEPT ![q] = r], off' = IF Scaling(i) # {} THEN off \cup {i} ELSE off,
           UNCHANGED <<accounts, row, limits, box, gen, bills, jobs, faults>>, requests' \in Nat
    PROVE  IInv'
<1>1. BoxTypes /\ AskTypes /\ ids \in Nat /\ ids' = ids
  BY DEF IInv, Types, BillTypes, bills
<1>2. Asked(q, r) /\ req' \in [Proc -> Request]
  BY <1>1, AskIs
<1>3. BoxTypes' /\ AskTypes' /\ faults' \in Nat /\ RowsStay
  BY <1>1, <1>2, FaultIs DEF BoxTypes, AskTypes, RowsStay
<1>4. \A p \in Proc : AskShape(p)'
  BY <1>1, <1>2, ShapesKept
<1>5. \A p \in Proc : req'[p].inv \in {0, req[p].inv}
  BY <1>2 DEF Asked
<1>6. ASSUME NEW j \in Inst \ {i} PROVE LimitsFor(j)'
  <2>1. req[q].inst # j /\ req'[q].inst # j
    BY <1>2, FreeIs DEF Asked
  <2> QED
    BY <1>1, <1>2, <2>1, LimitsStay DEF Asked, BoxTypes
<1>7. LimitsFor(i)'
  <2>1. CASE Scaling(i) # {}
    BY <2>1, <1>1 DEF LimitsFor, LimitsAt, There, BoxTypes
  <2>2. CASE Scaling(i) = {}
    <3>1. Scaling(i)' = {q}
      BY <1>2, <2>2 DEF Scaling, Asked
    <3>2. req'[q].at # "record"
      BY <1>2 DEF Asked
    <3>3. LimitsAt(i) /\ off' = off
      BY <2>2 DEF IInv, LimitsFollow
    <3> QED
      BY <2>2, <3>1, <3>2, <3>3 DEF LimitsFor, LimitsAt, There
  <2> QED
    BY <2>1, <2>2
<1> QED
  BY <1>3, <1>4, <1>5, <1>6, <1>7, BoxesKeep DEF LimitsFollow, LimitsFor

LEMMA AskingKeeps ==
    ASSUME IInv, HostingAssumption, NEW q \in Proc, NEW i \in Inst, Scale(q, i) \/ Reprovision(q, i)
    PROVE  IInv'
<1>1. NoItem \notin Inst /\ limits[i] \in Limit /\ gen[i] \in Nat /\ Scaled \subseteq Limit
  BY DEF HostingAssumption, IInv, Types, BoxTypes
<1>2. /\ There(i) /\ off' = IF Scaling(i) # {} THEN off \cup {i} ELSE off
      /\ UNCHANGED <<accounts, row, limits, box, gen, bills, jobs, faults>>
  BY DEF Scale, Reprovision
<1>3. CASE Scale(q, i)
  <2>1. PICK l \in Scaled : Ask(q, [Free EXCEPT !.at = "update", !.inst = i, !.lim = l, !.gen = gen[i]])
    BY <1>3 DEF Scale
  <2> DEFINE r == [Free EXCEPT !.at = "update", !.inst = i, !.lim = l, !.gen = gen[i]]
  <2>2. r \in Request /\ r.at = "update" /\ r.inst = i /\ r.inv = 0
    BY <1>1, FreeIs DEF Request
  <2> HIDE DEF r
  <2>4. req' = [req EXCEPT ![q] = r]
    BY <2>1 DEF Ask, r
  <2>3. req[q] = Free /\ requests' \in Nat
    BY <2>1, ServedIs DEF Ask
  <2> QED
    BY <1>1, <1>2, <2>2, <2>3, <2>4, AskKeeps
<1>4. CASE Reprovision(q, i)
  <2> DEFINE r == [Free EXCEPT !.at = "again", !.inst = i, !.lim = limits[i]]
  <2>1. r \in Request /\ r.at = "again" /\ r.inst = i /\ r.inv = 0
    BY <1>1, FreeIs DEF Request
  <2> HIDE DEF r
  <2>3. req' = [req EXCEPT ![q] = r]
    BY <1>4 DEF Reprovision, r
  <2>2. req[q] = Free /\ requests' \in Nat
    BY <1>4 DEF Reprovision, Counted, IInv, Types, AskTypes
  <2> QED
    BY <1>1, <1>2, <2>1, <2>2, <2>3, AskKeeps
<1> QED
  BY <1>3, <1>4

\* A request about an instance goes on, as r, or ends.
LEMMA OtherLimits ==
    ASSUME IInv, NEW q \in Proc, NEW r \in Request, Asked(q, r), NEW i \in Inst, req[q].inst = i, r.inst \in {i, NoItem},
           NEW j \in Inst \ {i}, row' = row, limits'[j] = limits[j], box'[j] = box[j], j \in off => j \in off',
           NoItem \notin Inst
    PROVE  LimitsFor(j)'
BY LimitsStay DEF Asked

LEMMA ScaleBoxKeeps ==
    ASSUME IInv, HostingAssumption, NEW q \in Proc, ScaleBox(q)
    PROVE  IInv'
<1>1. /\ BoxTypes /\ AskTypes /\ ids \in Nat /\ ids' = ids /\ AskShape(q) /\ req[q] \in Request
      /\ req[q].at = "update" /\ NoItem \notin Inst
      /\ UNCHANGED <<accounts, row, limits, gen, off, bills, jobs, requests>>
  BY DEF IInv, Types, BillTypes, AskTypes, bills, ScaleBox, HostingAssumption
<1>2. PICK i \in Inst : i = req[q].inst /\ LimitsFor(i) /\ req[q].inv = 0
  BY <1>1 DEF AskShape, Request, IInv, LimitsFollow, LimitsFor
<1>3. PICK r \in {[req[q] EXCEPT !.at = "record"], Free} :
        /\ req' = [req EXCEPT ![q] = r] /\ faults' \in Nat
        /\ \/ r.at = "record" /\ r.inst = i /\ r.inv = 0 /\ r.lim = req[q].lim /\ box' = [box EXCEPT ![i] = ParseInt(r.lim)]
           \/ r = Free /\ box' = box
  <2>1. CASE req' = [req EXCEPT ![q].at = "record"] /\ UNCHANGED faults /\ box' = [box EXCEPT ![i] = ParseInt(req[q].lim)]
    <3>1. req' = [req EXCEPT ![q] = [req[q] EXCEPT !.at = "record"]]
      BY <1>1, <2>1 DEF AskTypes
    <3>2. [req[q] EXCEPT !.at = "record"].at = "record" /\ [req[q] EXCEPT !.at = "record"].inst = i
          /\ [req[q] EXCEPT !.at = "record"].inv = 0 /\ [req[q] EXCEPT !.at = "record"].lim = req[q].lim
      BY <1>1, <1>2 DEF Request
    <3> QED
      BY <2>1, <3>1, <3>2, FaultIs
  <2>2. CASE EndRequest(q) /\ box' = box /\ (Fault \/ faults' = faults)
    BY <2>2, FaultIs DEF EndRequest
  <2> QED
    BY <1>2, <2>1, <2>2 DEF ScaleBox
<1>4. r \in Request /\ (r.at = "record" => ParseInt(r.lim) \in Nat)
  BY <1>1, <1>3, FreeIs DEF Request, ParseInt, Limit
<1>5. Asked(q, r) /\ req' \in [Proc -> Request]
  BY <1>1, <1>3, <1>4, AskIs
<1>6. BoxTypes' /\ AskTypes' /\ RowsStay
  BY <1>1, <1>2, <1>3, <1>4, <1>5 DEF BoxTypes, AskTypes, RowsStay, Request
<1>7. \A p \in Proc : AskShape(p)'
  BY <1>1, <1>2, <1>3, <1>4, <1>5, FreeIs, ShapesKept
<1>8. \A p \in Proc : req'[p].inv \in {0, req[p].inv}
  BY <1>3, <1>5, FreeIs DEF Asked
<1>9. ASSUME NEW j \in Inst \ {i} PROVE LimitsFor(j)'
  BY <1>1, <1>2, <1>3, <1>4, <1>5, FreeIs, OtherLimits DEF BoxTypes
<1>10. LimitsFor(i)'
  <2>1. q \in Scaling(i) /\ row[i] # "none"
    BY <1>2 DEF LimitsFor, Scaling
  <2>2. CASE r = Free
    <3>1. Scaling(i)' = Scaling(i) \ {q}
      BY <1>1, <1>2, <1>5, <2>2, FreeIs DEF Scaling, Asked
    <3>2. \A p \in Scaling(i) \ {q} : req'[p] = req[p]
      BY <1>5 DEF Asked, Scaling
    <3>3. box' = box
      BY <1>3, <2>2, FreeIs
    <3> QED
      BY <1>1, <1>2, <2>1, <3>1, <3>2, <3>3 DEF LimitsFor, LimitsAt, There
  <2>3. CASE r # Free
    <3>1. Scaling(i)' = Scaling(i)
      BY <1>2, <1>3, <1>5, <2>3 DEF Scaling, Asked
    <3>2. req'[q].at = "record" /\ ParseInt(req'[q].lim) = box'[i]
      BY <1>1, <1>2, <1>3, <1>5, <2>3 DEF Asked, BoxTypes
    <3> QED
      BY <1>1, <1>2, <2>1, <3>1, <3>2 DEF LimitsFor, LimitsAt, There
  <2> QED
    BY <2>2, <2>3
<1> QED
  BY <1>1, <1>3, <1>6, <1>7, <1>8, <1>9, <1>10, BoxesKeep DEF LimitsFollow, LimitsFor

LEMMA ScaleRowKeeps ==
    ASSUME IInv, HostingAssumption, NEW q \in Proc, ScaleRow(q)
    PROVE  IInv'
<1>1. /\ BoxTypes /\ AskTypes /\ ids \in Nat /\ ids' = ids /\ AskShape(q) /\ req[q] \in Request
      /\ req[q].at = "record" /\ NoItem \notin Inst
      /\ UNCHANGED <<accounts, row, box, gen, bills, jobs, requests>>
  BY DEF IInv, Types, BillTypes, AskTypes, bills, ScaleRow, HostingAssumption
<1>2. PICK i \in Inst : i = req[q].inst /\ LimitsFor(i) /\ q \in Scaling(i)
  BY <1>1 DEF AskShape, Request, IInv, LimitsFollow, LimitsFor, Scaling
<1>3. Asked(q, Free) /\ req' \in [Proc -> Request]
  BY <1>1, EndIs DEF ScaleRow
<1>4. faults' \in Nat
  BY FaultIs DEF ScaleRow
<1>5. \/ /\ limits' = [limits EXCEPT ![i] = req[q].lim]
         /\ off' = IF Scaling(i) = {q} /\ gen[i] = req[q].gen /\ box[i] = ParseInt(req[q].lim) THEN off \ {i} ELSE off
      \/ ~There(i) /\ limits' = limits /\ off' = off
      \/ limits' = limits /\ off' = off \cup {i}
  BY <1>2 DEF ScaleRow
<1>6. BoxTypes' /\ AskTypes' /\ RowsStay
  BY <1>1, <1>2, <1>3, <1>5 DEF BoxTypes, AskTypes, RowsStay, Request
<1>7. \A p \in Proc : AskShape(p)'
  BY <1>1, <1>3, FreeIs, ShapesKept
<1>8. \A p \in Proc : req'[p].inv \in {0, req[p].inv}
  BY <1>3, FreeIs DEF Asked
<1>9. ASSUME NEW j \in Inst \ {i} PROVE LimitsFor(j)'
  <2>1. limits'[j] = limits[j] /\ (j \in off => j \in off')
    BY <1>1, <1>2, <1>5, <1>9 DEF BoxTypes
  <2> QED
    BY <1>1, <1>2, <1>3, <2>1, FreeIs, OtherLimits
<1>10. LimitsFor(i)'
  <2>1. Scaling(i)' = Scaling(i) \ {q} /\ row'[i] # "none"
    BY <1>1, <1>2, <1>3, FreeIs DEF Scaling, Asked, LimitsFor
  <2>2. SUFFICES ASSUME There(i)', i \notin off' PROVE LimitsAt(i)'
    BY <2>1 DEF LimitsFor, LimitsAt
  <2>3. /\ limits'[i] = req[q].lim
        /\ i \notin off \/ (Scaling(i) = {q} /\ box[i] = ParseInt(req[q].lim))
    BY <1>1, <1>2, <1>5, <2>2 DEF There, BoxTypes
  <2>4. Scaling(i) = {q} /\ (box[i] # 0 => box[i] = ParseInt(req[q].lim))
    <3>1. CASE i \notin off
      BY <1>1, <1>2, <2>2, <3>1 DEF LimitsFor, LimitsAt, There, Scaling
    <3> QED
      BY <2>3, <3>1
  <2> QED
    BY <1>1, <2>1, <2>3, <2>4 DEF LimitsAt
<1> QED
  BY <1>1, <1>4, <1>6, <1>7, <1>8, <1>9, <1>10, BoxesKeep DEF LimitsFollow, LimitsFor

LEMMA RedeployKeeps ==
    ASSUME IInv, HostingAssumption, NEW q \in Proc, Redeploy(q)
    PROVE  IInv'
<1>1. /\ BoxTypes /\ AskTypes /\ ids \in Nat /\ ids' = ids /\ AskShape(q) /\ req[q] \in Request
      /\ req[q].at = "again" /\ NoItem \notin Inst
      /\ UNCHANGED <<accounts, row, limits, bills, jobs, requests, faults>>
  BY DEF IInv, Types, BillTypes, AskTypes, bills, Redeploy, HostingAssumption
<1>2. PICK i \in Inst : i = req[q].inst /\ LimitsFor(i) /\ q \in Scaling(i)
  BY <1>1 DEF AskShape, Request, IInv, LimitsFollow, LimitsFor, Scaling
<1>3. Asked(q, Free) /\ req' \in [Proc -> Request]
  BY <1>1, EndIs DEF Redeploy
<1>4. /\ box' \in [Inst -> Nat] /\ gen' \in [Inst -> Nat]
      /\ \A j \in Inst \ {i} : box'[j] = box[j] /\ gen'[j] = gen[j]
      /\ box[i] = 0 \/ (box'[i] = box[i] /\ gen'[i] = gen[i])
  BY <1>1, <1>2, BoxedIs, LimitsAre DEF Redeploy
<1>5. off' = IF box[i] = 0 THEN off \cup {i} ELSE off
  BY <1>2 DEF Redeploy
<1>6. BoxTypes' /\ AskTypes' /\ RowsStay /\ faults' \in Nat
  BY <1>1, <1>2, <1>3, <1>4, <1>5, FaultIs DEF BoxTypes, AskTypes, RowsStay
<1>7. \A p \in Proc : AskShape(p)'
  BY <1>1, <1>3, FreeIs, ShapesKept
<1>8. \A p \in Proc : req'[p].inv \in {0, req[p].inv}
  BY <1>3, FreeIs DEF Asked
<1>9. ASSUME NEW j \in Inst \ {i} PROVE LimitsFor(j)'
  BY <1>1, <1>2, <1>3, <1>4, <1>5, FreeIs, OtherLimits
<1>10. LimitsFor(i)'
  <2>1. Scaling(i)' = Scaling(i) \ {q} /\ row'[i] # "none"
    BY <1>1, <1>2, <1>3, FreeIs DEF Scaling, Asked, LimitsFor
  <2>2. \A p \in Scaling(i) \ {q} : req'[p] = req[p]
    BY <1>3 DEF Asked, Scaling
  <2>3. req[q].at # "record"
    BY <1>1
  <2> QED
    BY <1>1, <1>2, <1>4, <1>5, <2>1, <2>2, <2>3 DEF LimitsFor, LimitsAt, There
<1> QED
  BY <1>1, <1>6, <1>7, <1>8, <1>9, <1>10, BoxesKeep DEF LimitsFollow, LimitsFor

-----------------------------------------------------------------------------
(* Invoices and payments *)

LEMMA NewInvoice ==
    ASSUME IInv, NEW u \in User, NEW m \in Nat, m <= Month, Invoiced(u, m), raced' = raced, req' = req, run' = run
    PROVE  /\ BillTypes' /\ ids' > ids /\ invoices \subseteq invoices'
           /\ \A v \in invoices' \ invoices : v.user = u /\ v.month = m
           /\ \E v \in invoices' : v.user = u /\ v.month = m
           /\ \A v, x \in invoices' \ invoices : v = x
           /\ Numbered' /\ Payments'
<1> DEFINE new == [id |-> ids + 1, user |-> u, month |-> m, payments |-> 0]
<1>1. BillTypes /\ Month \in Nat /\ Numbered /\ Payments /\ \A q \in Proc : req[q].inv \in 0 .. ids
  BY DEF IInv, Types, JobTypes, Job, Month, AskTypes, Request, AskShape, BillTypes
<1>2. /\ new \in Invoice /\ new.id = ids + 1 /\ new.user = u /\ new.month = m /\ new.payments = 0
      /\ \A v \in invoices : v.id # ids + 1
  BY <1>1 DEF BillTypes, Invoice, Numbered
<1> HIDE DEF new
<1>3. invoices' = invoices \cup {new} /\ ids' = ids + 1
  BY DEF Invoiced, new
<1>4. BillTypes' /\ ids' > ids
  BY <1>1, <1>2, <1>3 DEF BillTypes
<1>5. Numbered'
  <2>1. \A v \in invoices' : v.id \in 1 .. ids' /\ v.month <= run'["invoice"]
    BY <1>1, <1>2, <1>3 DEF Numbered, Month, BillTypes, Invoice
  <2>2. \A v, x \in invoices' : v.id = x.id => v = x
    BY <1>1, <1>2, <1>3 DEF Numbered
  <2> QED
    BY <2>1, <2>2 DEF Numbered
<1>6. Payments'
  <2>1. \A q \in Proc : req'[q].inv # ids + 1
    BY <1>1 DEF BillTypes
  <2> QED
    BY <1>1, <1>2, <1>3, <2>1 DEF Payments
<1> QED
  BY <1>2, <1>3, <1>4, <1>5, <1>6

LEMMA GenerateKeeps ==
    ASSUME IInv, NEW u \in User, Generate(u)
    PROVE  IInv'
<1>1. /\ UNCHANGED <<accounts, boxes, raced, jobs, req, faults>> /\ requests' \in Nat /\ run' = run
      /\ user' = user /\ row' = row
  BY ServedIs DEF Generate, jobs, accounts, boxes
<1>2. /\ BillTypes' /\ ids' > ids /\ invoices \subseteq invoices' /\ Numbered' /\ Payments'
      /\ \A v \in invoices' \ invoices : v.user = u /\ v.month = 0
  <2>1. Month \in Nat /\ 0 <= Month /\ 0 \in Nat
    BY DEF IInv, Types, JobTypes, Job, Month
  <2> QED
    BY <1>1, <2>1, NewInvoice DEF Generate
<1>3. AccountTypes' /\ BoxTypes' /\ AskTypes' /\ faults' \in Nat /\ UsersStay /\ RowsStay
  BY <1>1 DEF IInv, Types, AccountTypes, BoxTypes, AskTypes, accounts, boxes, UsersStay, RowsStay
<1>4. Types'
  BY <1>1, <1>2, <1>3, RequestTypes
<1>5. (\A s \in Server, k \in Job : WorkShape(s, k)') /\ OneWorker' /\ NoneLost'
  BY <1>1, <1>2, <1>3, <1>4, JobsKept
<1>6. Monthly'
  BY <1>1, <1>2 DEF Monthly, IInv, jobs
<1>7. Unbilled'
  <2>1. Month' > 0 => Billed' = Billed
    BY <1>1, <1>2 DEF Month, Billed
  <2> QED
    BY <1>1, <2>1 DEF IInv, Unbilled, jobs, Month, Busy, Left
<1>8. LimitsFollow'
  BY <1>1 DEF IInv, LimitsFollow, LimitsAt, Scaling, There, boxes
<1>9. \A q \in Proc : AskShape(q)'
  BY <1>1, <1>2 DEF IInv, AskShape, Types, AskTypes, Request, BillTypes
<1> QED
  BY <1>2, <1>4, <1>5, <1>6, <1>7, <1>8, <1>9 DEF IInv

LEMMA RemoveUserKeeps ==
    ASSUME IInv, NEW u \in User, RemoveUser(u)
    PROVE  IInv'
<1>1. /\ UNCHANGED <<session, limits, gen, off, ids, raced, jobs, req, faults>> /\ requests' \in Nat
      /\ user' = [user EXCEPT ![u] = "gone"]
      /\ row' = [i \in Inst |-> IF i \in Mine(u) THEN "gone" ELSE row[i]]
      /\ box' = [i \in Inst |-> IF i \in Mine(u) THEN 0 ELSE box[i]]
      /\ invoices' = {v \in invoices : v.user # u}
      /\ user[u] # "none"
  BY ServedIs DEF RemoveUser, Account
<1>2. AccountTypes' /\ BillTypes' /\ BoxTypes' /\ AskTypes' /\ faults' \in Nat
  BY <1>1 DEF IInv, Types, AccountTypes, BillTypes, BoxTypes, AskTypes
<1>3. UsersStay /\ RowsStay
  BY <1>1 DEF IInv, Types, AccountTypes, BoxTypes, UsersStay, RowsStay, Mine, There
<1>4. Types'
  BY <1>1, <1>2, RequestTypes
<1>5. \A v \in invoices : user'[v.user] # "gone" => \E x \in invoices' : x.user = v.user /\ x.month = v.month
  BY <1>1 DEF IInv, Types, AccountTypes, BillTypes, Invoice
<1>6. (\A s \in Server, k \in Job : WorkShape(s, k)') /\ OneWorker' /\ NoneLost'
  BY <1>1, <1>3, <1>4, <1>5, JobsKept
<1>7. Numbered' /\ Monthly' /\ Payments'
  BY <1>1 DEF IInv, Numbered, Monthly, Payments, jobs
<1>8. Unbilled'
  <2>1. Billed' \subseteq Billed
    BY <1>1 DEF Billed, Month, jobs
  <2> QED
    BY <1>1, <2>1 DEF IInv, Unbilled, jobs, Month, Busy, Left
<1>9. LimitsFollow'
  <2>1. ASSUME NEW i \in Inst PROVE LimitsFor(i)'
    <3>1. CASE i \in Mine(u)
      BY <1>1, <3>1 DEF LimitsFor, LimitsAt, There
    <3>2. CASE i \notin Mine(u)
      BY <1>1, <3>2, LimitsStay
    <3> QED
      BY <3>1, <3>2
  <2> QED
    BY <2>1 DEF LimitsFollow, LimitsFor
<1>10. \A q \in Proc : AskShape(q)'
  BY <1>1 DEF IInv, AskShape
<1> QED
  BY <1>4, <1>6, <1>7, <1>8, <1>9, <1>10 DEF IInv

\* Requests about invoices leave instances alone.
LEMMA LimitsApart ==
    ASSUME IInv, UNCHANGED boxes, NoItem \notin Inst, NEW q \in Proc, NEW r \in Request, Asked(q, r),
           req[q].inst = NoItem, r.inst = NoItem
    PROVE  LimitsFollow'
<1>1. ASSUME NEW i \in Inst PROVE LimitsFor(i)'
  BY LimitsStay DEF Asked, boxes
<1> QED
  BY <1>1 DEF LimitsFollow, LimitsFor

LEMMA PayKeeps ==
    ASSUME IInv, HostingAssumption, NEW q \in Proc, NEW v \in invoices, Pay(q, v)
    PROVE  IInv'
<1>1. /\ v.payments = 0 /\ v.id \in Nat /\ v.id \in 1 .. ids /\ NoItem \notin Inst /\ req[q] = Free
      /\ req' = [req EXCEPT ![q] = [Free EXCEPT !.at = "pay", !.inv = v.id]]
      /\ raced' = IF Paying(v.id) # {} THEN raced \cup {v.id} ELSE raced
      /\ UNCHANGED <<accounts, boxes, invoices, ids, jobs, faults>> /\ requests' \in Nat
      /\ user' = user /\ row' = row /\ ids \in Nat
  BY ServedIs DEF Pay, Ask, IInv, Types, BillTypes, Invoice, HostingAssumption, Numbered, accounts, boxes
<1> DEFINE r == [Free EXCEPT !.at = "pay", !.inv = v.id]
<1>2. r \in Request /\ r.at = "pay" /\ r.inst = NoItem /\ r.inv = v.id
  BY <1>1, FreeIs DEF Request
<1>3. req' = [req EXCEPT ![q] = r]
  BY <1>1
<1> HIDE DEF r
<1>4. Asked(q, r) /\ AskTypes'
  BY <1>1, <1>2, <1>3, AskIs DEF IInv, Types, AskTypes
<1>5. AccountTypes' /\ BoxTypes' /\ BillTypes' /\ faults' \in Nat /\ UsersStay /\ RowsStay
  BY <1>1 DEF IInv, Types, AccountTypes, BoxTypes, BillTypes, accounts, boxes, UsersStay, RowsStay
<1>6. Types'
  BY <1>1, <1>4, <1>5, RequestTypes
<1>7. (\A s \in Server, k \in Job : WorkShape(s, k)') /\ OneWorker' /\ NoneLost'
  BY <1>1, <1>5, <1>6, JobsKept
<1>8. Numbered' /\ Monthly' /\ Unbilled'
  BY <1>1, BillsKept
<1>9. \A p \in Proc : AskShape(p)'
  BY <1>1, <1>2, <1>4, ShapesKept
<1>10. LimitsFollow'
  BY <1>1, <1>2, <1>4, FreeIs, LimitsApart
<1>11. Payments'
  <2> SUFFICES ASSUME NEW x \in invoices, x.id \notin raced'
      PROVE  /\ x.payments <= 1
             /\ \A p \in Proc : req'[p].inv = x.id => x.payments = 0
             /\ \A p, o \in Proc : req'[p].inv = x.id /\ req'[o].inv = x.id => p = o
    BY <1>1 DEF Payments
  <2>1. x.id \notin raced
    BY <1>1
  <2>2. CASE x.id = v.id
    <3>1. x = v /\ Paying(v.id) = {}
      BY <1>1, <2>2 DEF IInv, Numbered
    <3>2. \A p \in Proc \ {q} : req'[p].inv # v.id
      BY <1>4, <3>1 DEF Paying, Asked
    <3> QED
      BY <1>1, <1>4, <3>1, <3>2
  <2>3. CASE x.id # v.id
    <3>1. \A p \in Proc : req'[p].inv = x.id => req[p].inv = x.id
      BY <1>2, <1>4, <2>3 DEF Asked
    <3> QED
      BY <2>1, <3>1 DEF IInv, Payments
  <2> QED
    BY <2>2, <2>3
<1> QED
  BY <1>6, <1>7, <1>8, <1>9, <1>10, <1>11 DEF IInv

LEMMA SetPaidKeeps ==
    ASSUME IInv, HostingAssumption, NEW q \in Proc, SetPaid(q)
    PROVE  IInv'
<1> DEFINE Paid(v) == IF v.id = req[q].inv THEN [v EXCEPT !.payments = @ + 1] ELSE v
<1>1. /\ req[q].at = "pay" /\ AskTypes /\ req[q].inst = NoItem /\ NoItem \notin Inst /\ ids \in Nat /\ invoices \subseteq Invoice
      /\ UNCHANGED <<accounts, boxes, ids, raced, jobs, requests>> /\ faults' \in Nat
      /\ user' = user /\ row' = row
      /\ invoices' = {Paid(v) : v \in invoices} \/ invoices' = invoices
  BY FaultIs DEF SetPaid, IInv, Types, BillTypes, AskShape, HostingAssumption, accounts, boxes
<1>2. Asked(q, Free) /\ AskTypes'
  BY <1>1, EndIs DEF SetPaid, AskTypes
<1>3. \A v \in invoices : /\ Paid(v) \in Invoice /\ Paid(v).id = v.id /\ Paid(v).user = v.user /\ Paid(v).month = v.month
                          /\ Paid(v).payments = IF v.id = req[q].inv THEN v.payments + 1 ELSE v.payments
  BY <1>1 DEF Invoice
<1> HIDE DEF Paid
<1>4. AccountTypes' /\ BoxTypes' /\ BillTypes' /\ UsersStay /\ RowsStay
  BY <1>1, <1>3 DEF IInv, Types, AccountTypes, BoxTypes, BillTypes, accounts, boxes, UsersStay, RowsStay
<1>5. Types'
  BY <1>1, <1>2, <1>4, RequestTypes
<1>6. (\A s \in Server, k \in Job : WorkShape(s, k)') /\ OneWorker' /\ NoneLost'
  BY <1>1, <1>3, <1>4, <1>5, JobsKept
<1>7. \A p \in Proc : AskShape(p)'
  BY <1>1, <1>2, FreeIs, ShapesKept
<1>8. LimitsFollow'
  BY <1>1, <1>2, FreeIs, LimitsApart
<1>9. CASE invoices' = invoices
  <2>1. \A p \in Proc : req'[p].inv \in {0, req[p].inv}
    BY <1>2, FreeIs DEF Asked
  <2>2. Numbered' /\ Monthly' /\ Unbilled' /\ Payments'
    BY <1>1, <1>9, <2>1, BillsKept, PaymentsKept
  <2> QED
    BY <1>5, <1>6, <1>7, <1>8, <2>2 DEF IInv
<1>10. CASE invoices' = {Paid(v) : v \in invoices}
  <2>1. Numbered' /\ Monthly'
    BY <1>1, <1>3, <1>10 DEF IInv, Numbered, Monthly, jobs
  <2>2. Billed' = Billed
    BY <1>1, <1>3, <1>10 DEF Billed, Month, jobs
  <2>3. Unbilled'
    BY <1>1, <2>2 DEF IInv, Unbilled, jobs, Month, Busy, Left
  <2>4. Payments'
    <3>1. ASSUME NEW v \in invoices, v.id \notin raced
          PROVE  /\ Paid(v).payments <= 1
                 /\ \A p \in Proc : req'[p].inv = v.id => Paid(v).payments = 0
                 /\ \A p, o \in Proc : req'[p].inv = v.id /\ req'[o].inv = v.id => p = o
      <4>1. /\ v.payments <= 1 /\ v.id # 0 /\ v.payments \in Nat
            /\ \A p \in Proc : req[p].inv = v.id => v.payments = 0
            /\ \A p, o \in Proc : req[p].inv = v.id /\ req[o].inv = v.id => p = o
        BY <1>1, <3>1 DEF IInv, Payments, Numbered, Invoice
      <4>2. \A p \in Proc : req'[p].inv = v.id => req[p].inv = v.id /\ p # q
        BY <1>2, <4>1, FreeIs DEF Asked
      <4> QED
        BY <1>3, <4>1, <4>2
    <3> QED
      BY <1>1, <1>3, <1>10, <3>1 DEF Payments
  <2> QED
    BY <1>5, <1>6, <1>7, <1>8, <2>1, <2>3, <2>4 DEF IInv
<1> QED
  BY <1>1, <1>9, <1>10

-----------------------------------------------------------------------------
(* The scheduled jobs *)

\* A step of the queue that leaves everything else as it is.
LEMMA QueueKeeps ==
    ASSUME IInv, UNCHANGED <<accounts, boxes, bills, asks>>, StampTypes', JobTypes', WorkTypes', faults' \in Nat,
           \A s \in Server, k \in Job : WorkShape(s, k)', OneWorker', Unbilled', NoneLost',
           Month' >= Month, redone \subseteq redone'
    PROVE  IInv'
<1>1. Types'
  BY DEF IInv, Types, AccountTypes, BoxTypes, BillTypes, AskTypes, accounts, boxes, bills, asks
<1>2. \A q \in Proc : AskShape(q)'
  BY DEF IInv, AskShape, asks, bills
<1>3. LimitsFollow'
  BY DEF IInv, LimitsFollow, LimitsAt, Scaling, There, boxes, asks
<1>4. Payments' /\ Monthly'
  BY DEF IInv, Payments, Monthly, bills, asks
<1>5. Numbered'
  <2>1. Month \in Nat /\ Month' \in Nat /\ \A v \in invoices : v.month \in Nat
    BY <1>1 DEF IInv, Types, JobTypes, Job, BillTypes, Invoice, Month
  <2> QED
    BY <2>1 DEF IInv, Numbered, bills, Month
<1> QED
  BY <1>1, <1>2, <1>3, <1>4, <1>5 DEF IInv

\* One worker goes on as r, or stops.
LEMMA ShapesGo ==
    ASSUME IInv, NEW s \in Server, NEW k \in Job, NEW r, Goes(s, k, r),
           r.at \in {"read", "write"} => r.todo \cup {r.cur} \subseteq ItemOf(k) /\ r.cur \notin r.todo
    PROVE  \A t \in Server, l \in Job : WorkShape(t, l)'
<1> SUFFICES ASSUME NEW t \in Server, NEW l \in Job PROVE WorkShape(t, l)'
  OBVIOUS
<1>1. CASE t = s /\ l = k
  BY <1>1 DEF Goes, WorkShape, Busy, Left, ItemOf
<1>2. CASE t # s \/ l # k
  <2>1. WorkShape(t, l) /\ w'[t][l] = w[t][l]
    BY <1>2 DEF IInv, Goes
  <2> QED
    BY <2>1 DEF WorkShape, Busy, Left, ItemOf
<1> QED
  BY <1>1, <1>2

LEMMA OneGoes ==
    ASSUME IInv, NEW s \in Server, NEW k \in Job, NEW r, Goes(s, k, r),
           \A l \in Job \ {k} : job'[l] = job[l],
           \/ r.at \in {"idle", "down"} /\ Working(s, k)
           \/ job'[k] = "active" /\ (Working(s, k) \/ \A t \in Server : ~Working(t, k))
    PROVE  OneWorker'
<1>1. \A l \in Job \ {k}, t \in Server : Working(t, l)' <=> Working(t, l)
  BY DEF Goes, Working, Busy
<1>2. \A t \in Server \ {s} : ~Working(t, k)
  BY DEF IInv, OneWorker
<1>3. \A t \in Server \ {s} : ~Working(t, k)'
  BY <1>2 DEF Goes, Working, Busy
<1>4. Working(s, k)' => job'[k] = "active"
  BY DEF Goes, Working, Busy
<1> SUFFICES ASSUME NEW l \in Job
    PROVE  /\ \A t \in Server : Working(t, l)' => job'[l] = "active"
           /\ \A t, u \in Server : Working(t, l)' /\ Working(u, l)' => t = u
  BY DEF OneWorker
<1>5. CASE l = k
  BY <1>3, <1>4, <1>5
<1>6. CASE l # k
  BY <1>1, <1>6 DEF IInv, OneWorker
<1> QED
  BY <1>5, <1>6

\* The other jobs have missed nobody, as before.
LEMMA OthersLose ==
    ASSUME IInv, NEW l \in Job, user' = user, row' = row,
           job'[l] = job[l], run'[l] = run[l], listed'[l] = listed[l], missed'[l] = missed[l],
           \A t \in Server : w'[t][l] = w[t][l],
           l # "invoice" => \A i \in Inst : stamp'[i][l] = stamp[i][l],
           l = "invoice" => invoices \subseteq invoices'
    PROVE  NoneLostBy(l)'
<1>1. NoneLostBy(l)
  BY DEF IInv, NoneLost
<1>2. ASSUME NEW x \in ItemOf(l), Accounted(l, x) PROVE Accounted(l, x)'
  BY <1>2 DEF Accounted, Handled, Present, Busy, Left, There, Account, ItemOf
<1> QED
  BY <1>1, <1>2 DEF NoneLostBy, Were, Busy, ItemOf

\* Without a worker, a job that has not completed owes nothing.
LEMMA NoneBusy ==
    ASSUME IInv, NEW k \in Job, user' = user, row' = row, listed'[k] = listed[k] \/ listed'[k] = {},
           job'[k] # "completed", \A t \in Server : ~Busy(t, k)'
    PROVE  NoneLostBy(k)'
BY DEF IInv, NoneLost, NoneLostBy, Were, ItemOf

\* Workers stop, and nothing else.
LEMMA FewerWork ==
    ASSUME IInv, UNCHANGED <<accounts, row, stamp, job, run, listed, missed, redone, invoices>>,
           \A s \in Server, k \in Job : w'[s][k] = w[s][k] \/ ~Working(s, k)'
    PROVE  /\ \A s \in Server, k \in Job : WorkShape(s, k)'
           /\ OneWorker' /\ NoneLost' /\ Unbilled'
<1>1. \A s \in Server, k \in Job : WorkShape(s, k)'
  BY DEF IInv, WorkShape, Working, Busy, Left, ItemOf
<1>2. \A s \in Server, k \in Job : Working(s, k)' => Working(s, k) /\ w'[s][k] = w[s][k]
  BY DEF Working, Busy
<1>3. OneWorker'
  BY <1>2 DEF IInv, OneWorker
<1>4. ASSUME NEW k \in Job PROVE NoneLostBy(k)'
  <2>1. CASE \E t \in Server : w'[t][k] # w[t][k] /\ Busy(t, k)
    <3>1. job[k] = "active" /\ \A t \in Server : ~Busy(t, k)'
      BY <1>2, <2>1 DEF IInv, OneWorker, Working
    <3> QED
      BY <3>1, NoneBusy DEF accounts
  <2>2. CASE \A t \in Server : w'[t][k] = w[t][k] \/ ~Busy(t, k)
    <3>1. \A t \in Server : (Busy(t, k)' <=> Busy(t, k)) /\ (Busy(t, k) => w'[t][k] = w[t][k])
      BY <1>2, <2>2 DEF Working, Busy
    <3>2. ASSUME NEW x \in ItemOf(k), Accounted(k, x) PROVE Accounted(k, x)'
      BY <3>1, <3>2 DEF Accounted, Handled, Present, Left, There, Account, accounts
    <3>3. NoneLostBy(k)
      BY DEF IInv, NoneLost
    <3> QED
      BY <3>1, <3>2, <3>3 DEF NoneLostBy, Were, ItemOf, accounts
  <2> QED
    BY <2>1, <2>2
<1>5. Unbilled'
  BY <1>2 DEF IInv, Unbilled, Working, Busy, Left, Month, Billed, Job
<1> QED
  BY <1>1, <1>3, <1>4, <1>5 DEF NoneLost

LEMMA StartKeeps ==
    ASSUME IInv, NEW s \in Server, Start(s)
    PROVE  IInv'
<1>1. /\ UNCHANGED <<accounts, boxes, bills, asks, stamp, job, run, stalls, listed, missed, redone>>
      /\ w' = [w EXCEPT ![s] = [k \in Job |-> Idle]] /\ cron' \subseteq Job /\ faults' \in Nat
      /\ row' = row /\ invoices' = invoices
  <2>1. cron' \subseteq Job
    BY DEF Start, Job, IInv, Types, JobTypes
  <2> QED
    BY <2>1, FaultIs DEF Start, boxes, bills
<1>2. StampTypes' /\ JobTypes' /\ WorkTypes'
  BY <1>1, IdleIs DEF IInv, Types, StampTypes, JobTypes, WorkTypes
<1>3. \A t \in Server, k \in Job : w'[t][k] = w[t][k] \/ ~Working(t, k)'
  BY <1>1, IdleIs DEF IInv, Types, WorkTypes, Working, Busy
<1>4. /\ \A t \in Server, k \in Job : WorkShape(t, k)'
      /\ OneWorker' /\ NoneLost' /\ Unbilled'
  BY <1>1, <1>3, FewerWork
<1>5. Month' >= Month /\ redone \subseteq redone'
  BY <1>1 DEF Month, IInv, Types, JobTypes, Job
<1> QED
  BY <1>1, <1>2, <1>4, <1>5, QueueKeeps

LEMMA CrashKeeps ==
    ASSUME IInv, HostingAssumption, NEW s \in Server, Crash(s)
    PROVE  IInv'
<1>1. PICK qs \in SUBSET Proc :
        /\ req' = [q \in Proc |-> IF q \in qs THEN Free ELSE req[q]]
        /\ off' = off \cup {req[q].inst : q \in {p \in qs : req[p].at = "record"}}
  BY DEF Crash
<1>2. /\ UNCHANGED <<accounts, row, limits, box, gen, bills, requests,
                     stamp, cron, job, run, stalls, listed, missed, redone, invoices, ids, raced>>
      /\ w' = [w EXCEPT ![s] = [k \in Job |-> Down]] /\ faults' \in Nat /\ NoItem \notin Inst
  BY FaultIs DEF Crash, bills, HostingAssumption
<1>3. /\ BoxTypes /\ AskTypes
      /\ \A q \in Proc : AskShape(q) /\ req[q] \in Request
  BY DEF IInv, Types, AskTypes
<1>4. BoxTypes' /\ AskTypes'
  <2>1. \A q \in Proc : req[q].at = "record" => req[q].inst \in Inst
    BY <1>3 DEF AskShape, Request
  <2> QED
    BY <1>1, <1>2, <1>3, <2>1, FreeIs DEF BoxTypes, AskTypes
<1>5. Types'
  <2>1. WorkTypes'
    BY <1>2, IdleIs DEF IInv, Types, WorkTypes
  <2>2. AccountTypes' /\ BillTypes' /\ StampTypes' /\ JobTypes'
    BY <1>2 DEF IInv, Types, AccountTypes, BillTypes, StampTypes, JobTypes, accounts
  <2> QED
    BY <1>2, <1>4, <2>1, <2>2 DEF Types
<1>6. \A t \in Server, k \in Job : w'[t][k] = w[t][k] \/ ~Working(t, k)'
  BY <1>2, IdleIs DEF IInv, Types, WorkTypes, Working, Busy
<1>7. /\ \A t \in Server, k \in Job : WorkShape(t, k)'
      /\ OneWorker' /\ NoneLost' /\ Unbilled'
  BY <1>2, <1>6, FewerWork
<1>8. \A q \in Proc : AskShape(q)'
  BY <1>1, <1>2, <1>3, FreeIs DEF AskShape
<1>9. Numbered' /\ Monthly'
  BY <1>2 DEF IInv, Numbered, Monthly
<1>10. Payments'
  BY <1>1, <1>2, FreeIs, PaymentsKept
<1>11. ASSUME NEW i \in Inst PROVE LimitsFor(i)'
  <2>1. /\ Scaling(i)' = Scaling(i) \ qs /\ LimitsFor(i)
        /\ \A p \in Scaling(i) \ qs : req'[p] = req[p]
    BY <1>1, <1>2, FreeIs DEF IInv, LimitsFollow, LimitsFor, Scaling
  <2>2. i \notin off' => i \notin off /\ \A q \in Scaling(i) \cap qs : req[q].at # "record"
    BY <1>1 DEF Scaling
  <2> QED
    BY <1>2, <2>1, <2>2 DEF LimitsFor, LimitsAt, There
<1> QED
  BY <1>5, <1>7, <1>8, <1>9, <1>10, <1>11 DEF IInv, LimitsFollow, LimitsFor

\* A job without a worker may be due, be started or be given up.
LEMMA DueKeeps ==
    ASSUME IInv, NEW k \in Job, Due(k)
    PROVE  IInv'
<1>1. /\ UNCHANGED <<accounts, boxes, bills, asks, stamp, cron, w, redone, faults>>
      /\ user' = user /\ row' = row /\ invoices' = invoices
      /\ job[k] \in {"idle", "completed", "failed"}
      /\ job' = [job EXCEPT ![k] = "waiting"] /\ run' = [run EXCEPT ![k] = @ + 1]
      /\ stalls' = [stalls EXCEPT ![k] = 0]
      /\ listed' = [listed EXCEPT ![k] = {}] /\ missed' = [missed EXCEPT ![k] = {}]
  BY DEF Due, accounts, boxes, bills
<1>2. JobTypes
  BY DEF IInv, Types
<1>3. StampTypes' /\ JobTypes' /\ WorkTypes' /\ faults' \in Nat
  BY <1>1, FaultIs DEF IInv, Types, StampTypes, JobTypes, WorkTypes
<1>4. \A s \in Server : ~Working(s, k)
  BY <1>1 DEF IInv, OneWorker
<1>5. (\A s \in Server, l \in Job : WorkShape(s, l)') /\ OneWorker'
  BY <1>1, <1>2, <1>4 DEF IInv, WorkShape, OneWorker, Working, Busy, Left, ItemOf, JobTypes
<1>6. NoneLost'
  <2>1. NoneLostBy(k)'
    BY <1>1, <1>2, <1>4, NoneBusy DEF JobTypes, Working, Busy
  <2>2. ASSUME NEW l \in Job \ {k} PROVE NoneLostBy(l)'
    BY <1>1, <1>2, OthersLose DEF JobTypes
  <2> QED
    BY <2>1, <2>2 DEF NoneLost
<1>7. Month \in Nat /\ Month' >= Month
  BY <1>1, <1>2 DEF JobTypes, Job, Month
<1>8. Unbilled'
  <2>1. CASE k = "invoice"
    <3>1. Billed' = {}
      <4>1. Month' = Month + 1
        BY <1>1, <1>2, <2>1 DEF Month, JobTypes
      <4>2. \A v \in invoices : v.month \in Nat /\ v.month <= Month
        BY DEF IInv, Numbered, Month, Types, BillTypes, Invoice
      <4> QED
        BY <1>1, <1>7, <4>1, <4>2 DEF Billed
    <3> QED
      BY <3>1 DEF Unbilled
  <2>2. CASE k # "invoice"
    BY <1>1, <1>2, <2>2 DEF IInv, Unbilled, Month, Billed, Busy, Left, Job, JobTypes
  <2> QED
    BY <2>1, <2>2
<1> QED
  BY <1>1, <1>3, <1>5, <1>6, <1>7, <1>8, QueueKeeps

LEMMA RecoverKeeps ==
    ASSUME IInv, NEW k \in Job, Recover(k)
    PROVE  IInv'
<1>1. /\ UNCHANGED <<accounts, boxes, bills, asks, stamp, cron, run, w, listed, missed, faults>>
      /\ user' = user /\ row' = row /\ invoices' = invoices
      /\ job[k] = "active" /\ \A s \in Server : ~Working(s, k)
      /\ stalls' = stalls \/ stalls' = [stalls EXCEPT ![k] = 1]
      /\ \/ /\ job' = [job EXCEPT ![k] = "waiting"]
            /\ redone' = IF k = "invoice" THEN redone \cup {run[k]} ELSE redone
         \/ job' = [job EXCEPT ![k] = "failed"] /\ redone' = redone
  BY DEF Recover, accounts, boxes, bills, Working, Busy
<1>2. JobTypes
  BY DEF IInv, Types
<1>3. StampTypes' /\ WorkTypes' /\ faults' \in Nat
  BY <1>1, FaultIs DEF IInv, Types, StampTypes, WorkTypes
<1>4. JobTypes'
  <2>1. run[k] \in Nat /\ redone' \subseteq Nat
    <3>1. redone' = redone \/ redone' = redone \cup {run[k]}
      BY <1>1
    <3>2. run[k] \in Nat /\ redone \subseteq Nat
      BY <1>2 DEF JobTypes
    <3> QED
      BY <3>1, <3>2
  <2>2. stalls' \in [Job -> {0, 1}] /\ job' \in [Job -> {"idle", "waiting", "active", "completed", "failed"}]
    BY <1>1, <1>2 DEF JobTypes
  <2> QED
    BY <1>1, <1>2, <2>1, <2>2 DEF JobTypes
<1>5. (\A s \in Server, l \in Job : WorkShape(s, l)') /\ OneWorker'
  BY <1>1, <1>2 DEF IInv, WorkShape, OneWorker, Working, Busy, Left, ItemOf, JobTypes
<1>6. NoneLost'
  <2>1. NoneLostBy(k)'
    BY <1>1, <1>2, NoneBusy DEF JobTypes, Working, Busy
  <2>2. ASSUME NEW l \in Job \ {k} PROVE NoneLostBy(l)'
    BY <1>1, <1>2, OthersLose DEF JobTypes
  <2> QED
    BY <2>1, <2>2 DEF NoneLost
<1>7. Month \in Nat /\ Month' = Month /\ redone \subseteq redone'
  BY <1>1, <1>2 DEF JobTypes, Job, Month
<1>8. Unbilled'
  <2>1. CASE k = "invoice"
    <3>1. \A s \in Server : w'[s]["invoice"].at # "list" /\ ~Busy(s, "invoice")'
      BY <1>1, <2>1 DEF Working, Busy
    <3>2. job'["invoice"] = "waiting" => Month' \in redone'
      BY <1>1, <1>2, <2>1 DEF JobTypes, Month
    <3> QED
      BY <3>1, <3>2 DEF Unbilled
  <2>2. CASE k # "invoice"
    BY <1>1, <1>2, <2>2 DEF IInv, Unbilled, Month, Billed, Busy, Left, Job, JobTypes
  <2> QED
    BY <2>1, <2>2
<1>9. Month' >= Month
  BY <1>7
<1> QED
  BY <1>1, <1>3, <1>4, <1>5, <1>6, <1>7, <1>8, <1>9, QueueKeeps

LEMMA TakeKeeps ==
    ASSUME IInv, NEW s \in Server, NEW k \in Job, Take(s, k)
    PROVE  IInv'
<1>1. /\ UNCHANGED <<accounts, boxes, bills, asks, stamp, cron, run, stalls, listed, missed, redone, faults>>
      /\ user' = user /\ row' = row /\ invoices' = invoices
      /\ job[k] = "waiting" /\ job' = [job EXCEPT ![k] = "active"]
      /\ w' = [w EXCEPT ![s][k].at = "list"]
  BY DEF Take, accounts, boxes, bills
<1>2. JobTypes /\ WorkTypes
  BY DEF IInv, Types
<1> DEFINE r == At("list", w[s][k])
<1>3. WorkTypes' /\ Goes(s, k, r) /\ r.at = "list"
  BY <1>1, <1>2, StepIs DEF At
<1> HIDE DEF r
<1>4. StampTypes' /\ faults' \in Nat /\ JobTypes'
  BY <1>1, <1>2, FaultIs DEF IInv, Types, StampTypes, JobTypes
<1>5. \A t \in Server : ~Working(t, k)
  BY <1>1 DEF IInv, OneWorker
<1>6. \A t \in Server, l \in Job : WorkShape(t, l)'
  BY <1>3, ShapesGo
<1>7. /\ job'[k] = "active" /\ \A l \in Job \ {k} : job'[l] = job[l]
  BY <1>1, <1>2 DEF JobTypes
<1>8. OneWorker'
  BY <1>3, <1>5, <1>7, OneGoes
<1>9. NoneLost'
  <2>1. \A t \in Server : ~Busy(t, k)'
    BY <1>3, <1>5 DEF Goes, Busy, Working
  <2>2. NoneLostBy(k)'
    BY <1>1, <1>7, <2>1, NoneBusy
  <2>3. ASSUME NEW l \in Job \ {k} PROVE NoneLostBy(l)'
    <3>1. \A t \in Server : w'[t][l] = w[t][l]
      BY <1>3 DEF Goes
    <3> QED
      BY <1>1, <1>7, <3>1, OthersLose
  <2> QED
    BY <2>2, <2>3 DEF NoneLost
<1>10. Unbilled'
  <2>1. Month' = Month /\ Billed' = Billed /\ redone' = redone
    BY <1>1 DEF Month, Billed
  <2>2. CASE k = "invoice"
    <3>1. \A t \in Server : ~Busy(t, "invoice")'
      BY <1>3, <1>5, <2>2 DEF Goes, Busy, Working
    <3> QED
      BY <1>1, <1>7, <2>1, <2>2, <3>1 DEF IInv, Unbilled
  <2>3. CASE k # "invoice"
    <3>1. \A t \in Server : w'[t]["invoice"] = w[t]["invoice"]
      BY <1>3, <2>3 DEF Goes, Job
    <3>2. job'["invoice"] = job["invoice"]
      BY <1>7, <2>3 DEF Job
    <3> QED
      BY <2>1, <3>1, <3>2 DEF IInv, Unbilled, Busy, Left
  <2> QED
    BY <2>2, <2>3
<1>11. Month' >= Month /\ redone \subseteq redone'
  BY <1>1, <1>2 DEF Month, JobTypes, Job
<1> QED
  BY <1>1, <1>3, <1>4, <1>6, <1>8, <1>9, <1>10, <1>11, QueueKeeps

-----------------------------------------------------------------------------
(* A worker at its list *)

LEMMA LeftIs ==
    ASSUME IInv, NEW s \in Server, NEW k \in Job, Busy(s, k)
    PROVE  /\ w[s][k].todo \in SUBSET ItemOf(k) /\ w[s][k].todo \in SUBSET Item /\ w[s][k].cur \in ItemOf(k)
           /\ w[s][k].cur \notin w[s][k].todo /\ Working(s, k) /\ job[k] = "active"
           /\ \A t \in Server \ {s} : ~Working(t, k)
BY DEF IInv, WorkShape, Left, Working, OneWorker, Item, ItemOf

LEMMA NextStep ==
    ASSUME IInv, NEW s \in Server, NEW k \in Job, w[s][k].at = "read", w' = [w EXCEPT ![s][k].at = "write"],
           UNCHANGED <<accounts, boxes, bills, asks, stamp, cron, job, run, stalls, listed, missed, redone, faults>>
    PROVE  IInv'
<1> DEFINE r == At("write", w[s][k])
<1>1. WorkTypes /\ JobTypes
  BY DEF IInv, Types
<1>2. WorkTypes' /\ Goes(s, k, r) /\ r.at = "write" /\ r.todo = w[s][k].todo /\ r.cur = w[s][k].cur
  BY <1>1, StepIs DEF At
<1> HIDE DEF r
<1>3. user' = user /\ row' = row /\ invoices' = invoices
  BY DEF accounts, boxes, bills
<1>4. Busy(s, k) /\ Working(s, k) /\ job'[k] = "active"
  BY LeftIs DEF Busy
<1>5. StampTypes' /\ JobTypes' /\ faults' \in Nat
  BY <1>1, FaultIs DEF IInv, Types, StampTypes, JobTypes
<1>6. (\A t \in Server, l \in Job : WorkShape(t, l)') /\ OneWorker'
  BY <1>2, <1>4, LeftIs, ShapesGo, OneGoes
<1>7. \A t \in Server, l \in Job : /\ Busy(t, l)' <=> Busy(t, l)
                                   /\ Left(t, l)' = Left(t, l)
                                   /\ w'[t][l].at = "list" <=> w[t][l].at = "list"
  <2> SUFFICES ASSUME NEW t \in Server, NEW l \in Job
      PROVE  /\ Busy(t, l)' <=> Busy(t, l)
             /\ Left(t, l)' = Left(t, l)
             /\ w'[t][l].at = "list" <=> w[t][l].at = "list"
    OBVIOUS
  <2>1. CASE t = s /\ l = k
    BY <1>2, <2>1 DEF Goes, Busy, Left
  <2>2. CASE t # s \/ l # k
    BY <1>2, <2>2 DEF Goes, Busy, Left
  <2> QED
    BY <2>1, <2>2
<1>8. NoneLost'
  <2>1. ASSUME NEW l \in Job, NEW x \in ItemOf(l), Accounted(l, x) PROVE Accounted(l, x)'
    BY <1>3, <1>7, <2>1 DEF Accounted, Handled, Present, There, Account
  <2> QED
    BY <1>3, <1>7, <2>1 DEF IInv, NoneLost, NoneLostBy, Were, ItemOf
<1>9. Unbilled'
  BY <1>3, <1>7 DEF IInv, Unbilled, Month, Billed, Job
<1>10. Month' >= Month /\ redone \subseteq redone'
  BY <1>1 DEF Month, JobTypes, Job
<1> QED
  BY <1>2, <1>5, <1>6, <1>8, <1>9, <1>10, QueueKeeps

\* The worker for k of s is done with the one at hand, and goes on.
LEMMA OnwardGoes ==
    ASSUME IInv, NEW s \in Server, NEW k \in Job, NEW c, w[s][k].cur = c, Busy(s, k), Onward(s, k, w[s][k].todo),
           user' = user, row' = row, run' = run, listed' = listed, missed[k] \subseteq missed'[k], invoices \subseteq invoices',
           k # "invoice" => \A i \in Inst : stamp'[i][k] \in {stamp[i][k], run[k]},
           Present(k, c) => Handled(k, c)' \/ c \in missed'[k]
    PROVE  /\ WorkTypes' /\ job' \in [Job -> {"idle", "waiting", "active", "completed", "failed"}]
           /\ (\A t \in Server, l \in Job : WorkShape(t, l)') /\ OneWorker' /\ NoneLostBy(k)'
           /\ \A l \in Job \ {k} : job'[l] = job[l] /\ \A t \in Server : w'[t][l] = w[t][l]
           /\ job'[k] # "waiting" /\ \A t \in Server : w'[t][k].at # "list"
           /\ \A t \in Server : Busy(t, k)' => Left(t, k)' = w[s][k].todo
<1> DEFINE todo == w[s][k].todo
<1>1. WorkTypes /\ JobTypes
  BY DEF IInv, Types
<1>2. /\ todo \in SUBSET ItemOf(k) /\ todo \in SUBSET Item /\ c \in ItemOf(k) /\ c \notin todo
      /\ Working(s, k) /\ job[k] = "active" /\ \A t \in Server \ {s} : ~Working(t, k)
  BY LeftIs
<1>3. WorkTypes' /\ job' \in [Job -> {"idle", "waiting", "active", "completed", "failed"}]
  BY <1>1, <1>2, OnwardIs
<1>4. \/ /\ todo = {} /\ Goes(s, k, Idle) /\ JobIs(k, "completed")
      \/ /\ job' = job
         /\ \E x \in todo : Goes(s, k, [at |-> "read", todo |-> todo \ {x}, cur |-> x])
  BY <1>1, <1>2, OnwardIs
<1>5. \A l \in Job \ {k} : job'[l] = job[l]
  BY <1>4 DEF JobIs
<1>6. PICK r : /\ Goes(s, k, r)
               /\ \/ todo = {} /\ r = Idle /\ job'[k] = "completed"
                  \/ /\ r.at = "read" /\ r.cur \in todo /\ r.todo = todo \ {r.cur}
                     /\ job'[k] = job[k]
  <2>1. CASE \E x \in todo : Goes(s, k, [at |-> "read", todo |-> todo \ {x}, cur |-> x]) /\ job' = job
    BY <2>1
  <2>2. CASE todo = {} /\ Goes(s, k, Idle) /\ JobIs(k, "completed")
    BY <2>2 DEF JobIs
  <2> QED
    BY <1>4, <2>1, <2>2
<1>7. \A l \in Job \ {k}, t \in Server : w'[t][l] = w[t][l]
  BY <1>6 DEF Goes
<1>8. \A t \in Server, l \in Job : WorkShape(t, l)'
  BY <1>2, <1>6, IdleIs, ShapesGo
<1>9. OneWorker'
  BY <1>2, <1>5, <1>6, IdleIs, OneGoes
<1>10. \A t \in Server : ~Working(t, k) => ~Working(t, k)' \/ t = s
  BY <1>6 DEF Goes, Working, Busy
<1>11. \A t \in Server : Busy(t, k)' => t = s /\ r.at = "read" /\ Left(t, k)' = todo
  BY <1>2, <1>6, <1>10, IdleIs DEF Goes, Working, Busy, Left
<1>12. job'[k] # "waiting" /\ \A t \in Server : w'[t][k].at # "list"
  BY <1>2, <1>6, <1>10, IdleIs DEF Goes, Working
<1>13. NoneLostBy(k)'
  <2>1. NoneLostBy(k)
    BY DEF IInv, NoneLost
  <2>2. \A x \in listed[k] : x \in ItemOf(k) /\ Were(k, x) /\ Accounted(k, x)
    BY <2>1 DEF NoneLostBy
  <2>3. ASSUME NEW x \in listed[k] PROVE Accounted(k, x)'
    <3> SUFFICES ASSUME Present(k, x)' PROVE Accounted(k, x)'
      BY DEF Accounted
    <3>1. Present(k, x)
      BY DEF Present, Account, There
    <3>2. Handled(k, x) => Handled(k, x)'
      BY <2>2 DEF Handled, ItemOf
    <3>3. CASE \E t \in Server : Busy(t, k) /\ x \in Left(t, k)
      <4>1. x \in todo \cup {c}
        BY <1>2, <3>3 DEF Working, Left
      <4>2. x \in todo => Busy(s, k)' /\ x \in Left(s, k)'
        BY <1>6, <1>11 DEF Goes, Busy
      <4>3. x = c => Handled(k, x)' \/ x \in missed'[k]
        BY <3>1
      <4> QED
        BY <4>1, <4>2, <4>3 DEF Accounted
    <3> QED
      BY <2>2, <3>1, <3>2, <3>3 DEF Accounted
  <2> QED
    BY <2>1, <2>3 DEF NoneLostBy, Were, ItemOf
<1> QED
  BY <1>3, <1>5, <1>7, <1>8, <1>9, <1>11, <1>12, <1>13

\* Nothing but the failures for k is new in missed.
MissedBy(k) ==
    /\ missed' \in [Job -> SUBSET Item] /\ missed[k] \subseteq missed'[k]
    /\ \A l \in Job \ {k} : missed'[l] = missed[l]

\* A worker's job has failed.
LEMMA FailedKeeps ==
    ASSUME IInv, NEW s \in Server, NEW k \in Job, Working(s, k), Ends(s, k, "failed"), MissedBy(k), faults' \in Nat,
           UNCHANGED <<accounts, boxes, bills, asks, stamp, cron, run, stalls, listed, redone>>
    PROVE  IInv'
<1>1. WorkTypes /\ JobTypes /\ user' = user /\ row' = row /\ invoices' = invoices
  BY DEF IInv, Types, accounts, boxes, bills
<1>2. /\ WorkTypes' /\ Goes(s, k, Idle) /\ JobIs(k, "failed")
      /\ job' \in [Job -> {"idle", "waiting", "active", "completed", "failed"}]
  BY <1>1, EndsIs
<1>3. JobTypes' /\ StampTypes'
  BY <1>1, <1>2 DEF IInv, Types, JobTypes, StampTypes, MissedBy
<1>4. (\A t \in Server, l \in Job : WorkShape(t, l)') /\ OneWorker'
  BY <1>2, IdleIs, ShapesGo, OneGoes DEF JobIs
<1>5. \A t \in Server : ~Working(t, k)'
  BY <1>2, IdleIs DEF IInv, OneWorker, Goes, Working, Busy
<1>6. NoneLost'
  <2>1. NoneLostBy(k)'
    BY <1>1, <1>2, <1>5, NoneBusy DEF Working, JobIs
  <2>2. ASSUME NEW l \in Job \ {k} PROVE NoneLostBy(l)'
    BY <1>1, <1>2, OthersLose DEF Goes, JobIs, MissedBy
  <2> QED
    BY <2>1, <2>2 DEF NoneLost
<1>7. Unbilled'
  <2>1. CASE k = "invoice"
    BY <1>2, <1>5, <2>1 DEF Unbilled, Working, JobIs
  <2>2. CASE k # "invoice"
    BY <1>1, <1>2, <2>2 DEF IInv, Unbilled, Month, Billed, Busy, Left, Job, Goes, JobIs
  <2> QED
    BY <2>1, <2>2
<1>8. Month' >= Month /\ redone \subseteq redone'
  BY <1>1 DEF Month, JobTypes, Job
<1> QED
  BY <1>2, <1>3, <1>4, <1>6, <1>7, <1>8, QueueKeeps

LEMMA FoundIs ==
    ASSUME NEW k \in Job
    PROVE  Found(k) \subseteq ItemOf(k) /\ Found(k) \subseteq Item /\ \A x \in Found(k) : Were(k, x)
BY DEF Found, ItemOf, Item, Were, There, Job

LEMMA ListKeeps ==
    ASSUME IInv, NEW s \in Server, NEW k \in Job, List(s, k)
    PROVE  IInv'
<1>1. /\ UNCHANGED <<accounts, boxes, bills, asks, stamp, cron, run, stalls, missed, redone>> /\ faults' \in Nat
      /\ user' = user /\ row' = row /\ invoices' = invoices
      /\ w[s][k].at = "list" /\ Working(s, k)
  BY FaultIs DEF List, accounts, boxes, bills, Working
<1>2. WorkTypes /\ JobTypes
  BY DEF IInv, Types
<1>3. CASE Ends(s, k, "failed") /\ listed' = listed
  BY <1>1, <1>2, <1>3, FailedKeeps DEF MissedBy, JobTypes
<1>4. CASE Onward(s, k, Found(k)) /\ listed' = [listed EXCEPT ![k] = Found(k)]
  <2> DEFINE todo == Found(k)
  <2>1. todo \subseteq ItemOf(k) /\ todo \in SUBSET Item /\ \A x \in todo : Were(k, x)
    BY FoundIs
  <2>2. /\ WorkTypes' /\ job' \in [Job -> {"idle", "waiting", "active", "completed", "failed"}]
        /\ \/ todo = {} /\ Goes(s, k, Idle) /\ JobIs(k, "completed")
           \/ /\ job' = job
              /\ \E x \in todo : Goes(s, k, [at |-> "read", todo |-> todo \ {x}, cur |-> x])
    BY <1>2, <1>4, <2>1, OnwardIs
  <2>3. PICK r : /\ Goes(s, k, r) /\ \A l \in Job \ {k} : job'[l] = job[l]
                 /\ \/ todo = {} /\ r = Idle /\ job'[k] = "completed"
                    \/ /\ r.at = "read" /\ r.cur \in todo /\ r.todo = todo \ {r.cur}
                       /\ job'[k] = job[k]
    <3>1. CASE \E x \in todo : Goes(s, k, [at |-> "read", todo |-> todo \ {x}, cur |-> x]) /\ job' = job
      BY <3>1
    <3>2. CASE todo = {} /\ Goes(s, k, Idle) /\ JobIs(k, "completed")
      BY <3>2 DEF JobIs
    <3> QED
      BY <2>2, <3>1, <3>2
  <2>4. /\ listed'[k] = todo /\ \A l \in Job \ {k} : listed'[l] = listed[l]
        /\ job[k] = "active" /\ \A t \in Server \ {s} : ~Working(t, k)
    BY <1>1, <1>2, <1>4 DEF JobTypes, IInv, OneWorker
  <2> HIDE DEF todo
  <2>5. JobTypes' /\ StampTypes'
    BY <1>1, <1>2, <1>4, <2>1, <2>2 DEF IInv, Types, JobTypes, StampTypes, todo
  <2>6. (\A t \in Server, l \in Job : WorkShape(t, l)') /\ OneWorker'
    BY <1>1, <2>1, <2>3, <2>4, IdleIs, ShapesGo, OneGoes
  <2>7. \A t \in Server : /\ Busy(t, k)' => Left(t, k)' = todo
                          /\ w'[t][k].at # "list"
    BY <2>3, <2>4, IdleIs DEF Goes, Working, Busy, Left
  <2>8. NoneLostBy(k)'
    <3>1. \A x \in todo : Were(k, x)'
      BY <1>1, <2>1 DEF Were
    <3>2. ASSUME NEW x \in todo PROVE Accounted(k, x)'
      <4>1. r # Idle /\ Busy(s, k)'
        BY <2>3, <3>2, IdleIs DEF Goes, Busy
      <4> QED
        BY <2>7, <4>1 DEF Accounted
    <3> QED
      BY <2>1, <2>4, <3>1, <3>2 DEF NoneLostBy, ItemOf
  <2>9. ASSUME NEW l \in Job \ {k} PROVE NoneLostBy(l)'
    BY <1>1, <2>3, <2>4, OthersLose DEF Goes
  <2>10. Unbilled'
    <3>1. CASE k = "invoice"
      <4>1. Month' = Month /\ Billed' = Billed /\ redone' = redone /\ job'["invoice"] # "waiting"
        BY <1>1, <2>3, <2>4, <3>1 DEF Month, Billed
      <4>2. Month > 0 /\ Month \notin redone => Billed = {}
        BY <1>1, <3>1 DEF IInv, Unbilled
      <4> QED
        BY <2>7, <3>1, <4>1, <4>2 DEF Unbilled
    <3>2. CASE k # "invoice"
      BY <1>1, <2>3, <3>2 DEF IInv, Unbilled, Month, Billed, Busy, Left, Job, Goes
    <3> QED
      BY <3>1, <3>2
  <2>11. Month' >= Month /\ redone \subseteq redone'
    BY <1>1, <1>2 DEF Month, JobTypes, Job
  <2>12. NoneLost'
    BY <2>8, <2>9 DEF NoneLost
  <2> QED
    BY <1>1, <2>2, <2>5, <2>6, <2>10, <2>11, <2>12, QueueKeeps
<1> QED
  BY <1>3, <1>4 DEF List

\* A worker goes on after a failure, or having measured or backed up.
LEMMA OnwardKeeps ==
    ASSUME IInv, NEW s \in Server, NEW k \in Job, NEW c, w[s][k].cur = c, Busy(s, k), Onward(s, k, w[s][k].todo),
           UNCHANGED <<accounts, boxes, bills, asks, cron, run, stalls, listed, redone>>,
           MissedBy(k), faults' \in Nat, StampTypes',
           \A i \in Inst, l \in Job \ {"invoice"} : stamp'[i][l] = stamp[i][l] \/ (l = k /\ stamp'[i][l] = run[l]),
           Present(k, c) => Handled(k, c)' \/ c \in missed'[k]
    PROVE  IInv'
<1>1. user' = user /\ row' = row /\ invoices' = invoices
  BY DEF accounts, boxes, bills
<1>2. /\ WorkTypes' /\ job' \in [Job -> {"idle", "waiting", "active", "completed", "failed"}]
      /\ (\A t \in Server, l \in Job : WorkShape(t, l)') /\ OneWorker' /\ NoneLostBy(k)'
      /\ \A l \in Job \ {k} : job'[l] = job[l] /\ \A t \in Server : w'[t][l] = w[t][l]
      /\ job'[k] # "waiting" /\ \A t \in Server : w'[t][k].at # "list"
      /\ \A t \in Server : Busy(t, k)' => Left(t, k)' = w[s][k].todo
  BY <1>1, OnwardGoes DEF MissedBy
<1>3. JobTypes'
  BY <1>2 DEF IInv, Types, JobTypes, MissedBy
<1>4. ASSUME NEW l \in Job \ {k} PROVE NoneLostBy(l)'
  BY <1>1, <1>2, OthersLose DEF MissedBy
<1>5. Unbilled'
  <2>1. Month' = Month /\ Billed' = Billed /\ redone' = redone
    BY <1>1 DEF Month, Billed
  <2>2. CASE k = "invoice"
    <3>1. Month > 0 /\ Month \notin redone => Billed \cap w[s][k].todo = {}
      BY <2>2 DEF IInv, Unbilled, Left
    <3> QED
      BY <1>2, <2>1, <2>2, <3>1 DEF Unbilled
  <2>3. CASE k # "invoice"
    BY <1>2, <2>1, <2>3 DEF IInv, Unbilled, Busy, Left, Job
  <2> QED
    BY <2>2, <2>3
<1>6. Month' >= Month /\ redone \subseteq redone'
  BY DEF IInv, Types, Month, JobTypes, Job
<1>7. NoneLost'
  BY <1>2, <1>4 DEF NoneLost
<1> QED
  BY <1>2, <1>3, <1>5, <1>6, <1>7, QueueKeeps

LEMMA MissedIs ==
    ASSUME IInv, NEW s \in Server, NEW k \in Job, Busy(s, k), NEW x, x = w[s][k].cur,
           missed' = missed \/ missed' = [missed EXCEPT ![k] = @ \cup {x}]
    PROVE  MissedBy(k) /\ (missed' # missed => x \in missed'[k])
<1>1. x \in Item
  BY LeftIs DEF Item, ItemOf
<1> QED
  BY <1>1 DEF IInv, Types, JobTypes, MissedBy

LEMMA ReadUserKeeps ==
    ASSUME IInv, NEW s \in Server, ReadUser(s)
    PROVE  IInv'
<1>1. PICK x : x = w[s]["invoice"].cur
  OBVIOUS
<1>2. /\ UNCHANGED <<accounts, boxes, bills, asks, stamp, cron, run, stalls, listed, redone>>
      /\ "invoice" \in Job /\ w[s]["invoice"].at = "read" /\ Busy(s, "invoice")
  BY DEF ReadUser, Job, Busy
<1>3. CASE w' = [w EXCEPT ![s]["invoice"].at = "write"] /\ UNCHANGED <<job, missed, faults>>
  BY <1>2, <1>3, NextStep
<1>4. CASE /\ IF Account(x) THEN Fault /\ missed' = [missed EXCEPT !["invoice"] = @ \cup {x}]
              ELSE UNCHANGED <<missed, faults>>
           /\ Onward(s, "invoice", w[s]["invoice"].todo)
  <2>1. faults' \in Nat
    BY <1>4, FaultIs
  <2>2. MissedBy("invoice") /\ (Account(x) => x \in missed'["invoice"])
    <3>1. missed' = missed \/ missed' = [missed EXCEPT !["invoice"] = @ \cup {x}]
      BY <1>4
    <3>2. MissedBy("invoice")
      BY <1>1, <1>2, <3>1, MissedIs
    <3>3. Account(x) => x \in missed'["invoice"]
      BY <1>2, <1>4 DEF IInv, Types, JobTypes
    <3> QED
      BY <3>2, <3>3
  <2>3. Present("invoice", x) => Account(x)
    BY DEF Present
  <2>4. StampTypes'
    BY <1>2 DEF IInv, Types, StampTypes
  <2> QED
    BY <1>1, <1>2, <1>4, <2>1, <2>2, <2>3, <2>4, OnwardKeeps
<1> QED
  BY <1>1, <1>3, <1>4 DEF ReadUser

LEMMA MeasureKeeps ==
    ASSUME IInv, NEW s \in Server, NEW k \in Job, Measure(s, k)
    PROVE  IInv'
BY NextStep DEF Measure

\* An invoice is written and the worker goes on.
LEMMA BillKeeps ==
    ASSUME IInv, NEW s \in Server, NEW u \in User, w[s]["invoice"].cur = u, Busy(s, "invoice"),
           Invoiced(u, run["invoice"]), Onward(s, "invoice", w[s]["invoice"].todo),
           UNCHANGED <<accounts, boxes, raced, asks, stamp, cron, run, stalls, listed, missed, redone, faults>>
    PROVE  IInv'
<1> DEFINE k == "invoice"
<1>1. k \in Job /\ user' = user /\ row' = row /\ req' = req /\ Month \in Nat /\ Month = run["invoice"] /\ Month' = Month
  BY DEF accounts, boxes, asks, IInv, Types, JobTypes, Job, Month
<1>2. /\ BillTypes' /\ ids' > ids /\ invoices \subseteq invoices'
      /\ \A v \in invoices' \ invoices : v.user = u /\ v.month = Month
      /\ \E v \in invoices' : v.user = u /\ v.month = Month
      /\ \A v, x \in invoices' \ invoices : v = x
      /\ Numbered' /\ Payments'
  BY <1>1, NewInvoice
<1>3. Handled(k, u)' /\ missed[k] \subseteq missed'[k]
  BY <1>1, <1>2 DEF Handled
<1>4. /\ WorkTypes' /\ job' \in [Job -> {"idle", "waiting", "active", "completed", "failed"}]
      /\ (\A t \in Server, l \in Job : WorkShape(t, l)') /\ OneWorker' /\ NoneLostBy(k)'
      /\ \A l \in Job \ {k} : job'[l] = job[l] /\ \A t \in Server : w'[t][l] = w[t][l]
      /\ job'[k] # "waiting" /\ \A t \in Server : w'[t][k].at # "list"
      /\ \A t \in Server : Busy(t, k)' => Left(t, k)' = w[s][k].todo
  BY <1>1, <1>2, <1>3, OnwardGoes
<1>5. Types'
  <2>1. AccountTypes' /\ BoxTypes' /\ StampTypes' /\ AskTypes' /\ faults' \in Nat
    BY FaultIs DEF IInv, Types, AccountTypes, BoxTypes, StampTypes, AskTypes, accounts, boxes, asks
  <2>2. JobTypes'
    BY <1>4 DEF IInv, Types, JobTypes
  <2> QED
    BY <1>2, <1>4, <2>1, <2>2 DEF Types
<1>6. NoneLost'
  <2>1. ASSUME NEW l \in Job \ {k} PROVE NoneLostBy(l)'
    BY <1>1, <1>2, <1>4, OthersLose
  <2> QED
    BY <1>4, <2>1 DEF NoneLost
<1>7. Month > 0 /\ Month \notin redone => Billed \cap Left(s, k) = {}
  BY <1>1 DEF IInv, Unbilled
<1>8. Unbilled'
  <2>1. Billed' \subseteq Billed \cup {u}
    BY <1>1, <1>2 DEF Billed
  <2>2. u \notin w[s][k].todo
    BY <1>1, LeftIs
  <2> QED
    BY <1>1, <1>4, <1>7, <2>1, <2>2 DEF Unbilled, Left
<1>9. Monthly'
  <2> SUFFICES ASSUME NEW v \in invoices', NEW x \in invoices',
                      v.user = x.user, v.month = x.month, v.month > 0, v.month \notin redone
      PROVE  v = x
    BY DEF Monthly
  <2>1. CASE v \in invoices /\ x \in invoices
    BY <2>1 DEF IInv, Monthly
  <2>2. CASE v \notin invoices /\ x \notin invoices
    BY <1>2, <2>2
  <2>3. ASSUME NEW y \in invoices, y.user = u, y.month = Month PROVE Month = 0 \/ Month \in redone
    BY <1>1, <1>7, <2>3 DEF Billed, Left
  <2> QED
    BY <1>1, <1>2, <2>1, <2>2, <2>3
<1>10. LimitsFollow'
  BY DEF IInv, LimitsFollow, LimitsAt, Scaling, There, boxes, asks
<1>11. \A q \in Proc : AskShape(q)'
  BY <1>1, <1>2 DEF IInv, AskShape, Types, AskTypes, Request, BillTypes
<1> QED
  BY <1>2, <1>4, <1>5, <1>6, <1>8, <1>9, <1>10, <1>11 DEF IInv

LEMMA HandleKeeps ==
    ASSUME IInv, NEW s \in Server, NEW k \in Job, Handle(s, k)
    PROVE  IInv'
<1>1. PICK x : x = w[s][k].cur
  OBVIOUS
<1>2. /\ UNCHANGED <<accounts, boxes, raced, asks, cron, run, stalls, listed, redone>>
      /\ Busy(s, k) /\ Working(s, k) /\ x \in ItemOf(k) /\ row' = row
  BY <1>1, LeftIs DEF Handle, Busy, Working, boxes
<1>3. CASE /\ Write(s, k, x) /\ Onward(s, k, w[s][k].todo) /\ UNCHANGED <<missed, faults>>
  <2>1. CASE k = "invoice"
    BY <1>1, <1>2, <1>3, <2>1, BillKeeps DEF Write, ItemOf
  <2>2. CASE k # "invoice"
    <3>1. stamp' = [stamp EXCEPT ![x][k] = run[k]] /\ UNCHANGED bills
      BY <1>2, <1>3, <2>2 DEF Write, bills
    <3>2. x \in Inst /\ run[k] \in Nat /\ k \in {"backup", "monitor"} /\ StampTypes
      BY <1>2, <2>2 DEF ItemOf, Job, IInv, Types, JobTypes
    <3>3. /\ StampTypes' /\ stamp'[x][k] = run[k]
          /\ \A i \in Inst, l \in Job \ {"invoice"} : stamp'[i][l] = stamp[i][l] \/ (l = k /\ stamp'[i][l] = run[l])
      BY <3>1, <3>2 DEF StampTypes, Job
    <3>4. Handled(k, x)' /\ faults' \in Nat /\ MissedBy(k)
      BY <1>2, <1>3, <2>2, <3>3, FaultIs DEF Handled, MissedBy, IInv, Types, JobTypes
    <3> QED
      BY <1>1, <1>2, <1>3, <3>1, <3>3, <3>4, OnwardKeeps
  <2> QED
    BY <2>1, <2>2
<1>4. CASE /\ IF Present(k, x) THEN Fault /\ missed' = [missed EXCEPT ![k] = @ \cup {x}]
              ELSE UNCHANGED <<missed, faults>>
           /\ IF k = "backup" THEN Ends(s, k, "failed") ELSE Onward(s, k, w[s][k].todo)
           /\ UNCHANGED <<invoices, ids, stamp>>
  <2>1. faults' \in Nat /\ UNCHANGED bills
    BY <1>2, <1>4, FaultIs DEF bills
  <2>2. MissedBy(k)
    BY <1>1, <1>2, <1>4, MissedIs
  <2>3. Present(k, x) => x \in missed'[k]
    BY <1>4 DEF IInv, Types, JobTypes
  <2>4. StampTypes' /\ \A i \in Inst, l \in Job : stamp'[i][l] = stamp[i][l]
    BY <1>4 DEF IInv, Types, StampTypes
  <2>5. CASE k = "backup"
    BY <1>2, <1>4, <2>1, <2>2, <2>5, FailedKeeps
  <2>6. CASE k # "backup"
    BY <1>1, <1>2, <1>4, <2>1, <2>2, <2>3, <2>4, <2>6, OnwardKeeps
  <2> QED
    BY <2>5, <2>6
<1> QED
  BY <1>1, <1>3, <1>4 DEF Handle

-----------------------------------------------------------------------------
(* The invariant, and what follows *)

LEMMA InvariantStarts == ASSUME HostingAssumption, Init PROVE IInv
<1>1. Types
  <2>0. MB(0) \in Limit
    BY DEF MB, Limit
  <2>1. AccountTypes /\ BoxTypes /\ BillTypes /\ JobTypes /\ StampTypes
    BY <2>0 DEF Init, AccountTypes, BoxTypes, BillTypes, JobTypes, StampTypes
  <2>2. WorkTypes /\ AskTypes /\ faults \in Nat
    BY IdleIs, FreeIs DEF Init, WorkTypes, AskTypes, HostingAssumption
  <2> QED
    BY <2>1, <2>2 DEF Types
<1>2. \A q \in Proc : AskShape(q) /\ req[q].inst = NoItem
  BY FreeIs DEF Init, AskShape
<1>3. \A s \in Server, k \in Job : ~Working(s, k)
  BY IdleIs DEF Init, Working, Busy
<1>4. (\A s \in Server, k \in Job : WorkShape(s, k)) /\ OneWorker
  BY <1>3 DEF WorkShape, OneWorker, Working
<1>5. Numbered /\ Monthly /\ Unbilled /\ Payments
  BY DEF Init, Numbered, Monthly, Unbilled, Payments, Month, Job
<1>6. LimitsFollow
  BY <1>2 DEF Init, LimitsFollow, LimitsAt, There, Scaling, HostingAssumption
<1>7. NoneLost
  BY DEF Init, NoneLost, NoneLostBy
<1> QED
  BY <1>1, <1>2, <1>4, <1>5, <1>6, <1>7 DEF IInv

LEMMA InvariantKept == ASSUME HostingAssumption, IInv, [Next]_vars PROVE IInv'
<1>1. CASE UNCHANGED vars
  <2>1. UNCHANGED <<limits, box, gen, off, invoices, ids, raced, req, jobs, faults>>
        /\ user' = user /\ session' = session /\ row' = row /\ requests' = requests
    BY <1>1 DEF vars, accounts, boxes, bills, asks
  <2> QED
    BY <2>1, RowsKeep DEF IInv, Types, AskTypes, AccountTypes, BoxTypes, UsersStay, There
<1>2. ASSUME NEW u \in User, SignUp(u) \/ Approve(u) \/ SetStatus(u) \/ Login(u) \/ RemoveUser(u) \/ Generate(u)
      PROVE  IInv'
  BY <1>2, UserKeeps, RemoveUserKeeps, GenerateKeeps
<1>3. ASSUME NEW i \in Inst, Deploy(i) \/ Halt(i) \/ Boot(i) \/ Vanish(i) PROVE IInv'
  BY <1>3, DeployKeeps, HaltKeeps, BootKeeps, VanishKeeps
<1>4. ASSUME NEW q \in Proc, ScaleBox(q) \/ ScaleRow(q) \/ Redeploy(q) \/ SetPaid(q) PROVE IInv'
  BY <1>4, ScaleBoxKeeps, ScaleRowKeeps, RedeployKeeps, SetPaidKeeps
<1>5. ASSUME NEW q \in Proc, NEW i \in Inst, Scale(q, i) \/ Reprovision(q, i) PROVE IInv'
  BY <1>5, AskingKeeps
<1>6. ASSUME NEW q \in Proc, NEW v \in invoices, Pay(q, v) PROVE IInv'
  BY <1>6, PayKeeps
<1>7. ASSUME NEW s \in Server, Start(s) \/ Crash(s) PROVE IInv'
  BY <1>7, StartKeeps, CrashKeeps
<1>8. ASSUME NEW s \in Server, NEW k \in Job, Take(s, k) \/ Work(s, k) PROVE IInv'
  BY <1>8, TakeKeeps, ListKeeps, ReadUserKeeps, MeasureKeeps, HandleKeeps DEF Work
<1>9. ASSUME NEW k \in Job, Due(k) \/ Recover(k) PROVE IInv'
  BY <1>9, DueKeeps, RecoverKeeps
<1> QED
  BY <1>1, <1>2, <1>3, <1>4, <1>5, <1>6, <1>7, <1>8, <1>9 DEF Next

\* Jobs have one worker, invoices one month and one payment, and rows follow
\* their containers, in every state.
THEOREM InvariantHolds == Spec => []IInv
<1>1. Init => IInv
  BY HostingAssumption, InvariantStarts
<1>2. IInv /\ [Next]_vars => IInv'
  BY HostingAssumption, InvariantKept
<1> QED
  BY <1>1, <1>2, PTL DEF Spec

\* Nobody is billed twice for a month, and no invoice is paid twice, but for a
\* month whose job was run again and payments that overlapped
\* (jobs/invoice.ts:9-24, routes/billing.ts:52-70).
THEOREM BilledOnce == Spec => []ChargedOnce
<1>1. ASSUME IInv PROVE ChargedOnce
  <2>1. ASSUME NEW u \in User, NEW m \in 1 .. run["invoice"], m \notin redone
        PROVE  Cardinality({v \in invoices : v.user = u /\ v.month = m}) <= 1
    <3> DEFINE S == {v \in invoices : v.user = u /\ v.month = m}
    <3>1. \A v, x \in S : v = x
      <4>1. m > 0
        BY <1>1 DEF IInv, Types, JobTypes, Job
      <4> QED
        BY <1>1, <2>1, <4>1 DEF IInv, Monthly
    <3>2. CASE S = {}
      BY <3>2, FS_EmptySet
    <3>3. CASE S # {}
      <4>1. PICK v \in S : TRUE
        BY <3>3
      <4>2. S = {v}
        BY <3>1, <4>1
      <4>3. Cardinality({v}) = 1
        BY FS_Singleton
      <4> QED
        BY <4>2, <4>3
    <3> QED
      BY <3>2, <3>3
  <2>2. \A v \in invoices : v.id \in raced \/ v.payments <= 1
    BY <1>1 DEF IInv, Payments
  <2> QED
    BY <2>1, <2>2 DEF ChargedOnce
<1> QED
  BY <1>1, InvariantHolds, PTL

\* A row's limit in megabytes is its container's when nobody scales it, but for the
\* containers and requests listed there (instances.ts:89-116, docker.service.ts:56-67);
\* of a limit in gigabytes the invariant says that the container has its number in MiB.
THEOREM LimitsKnown == Spec => []LimitsAgree
<1>1. ASSUME IInv PROVE LimitsAgree
  <2>1. ASSUME NEW i \in Inst, Settled(i), limits[i].unit = "m" PROVE Meant(limits[i]) = box[i]
    <3>1. ParseInt(limits[i]) = box[i]
      BY <1>1, <2>1 DEF IInv, LimitsFollow, LimitsAt, Settled
    <3> QED
      BY <2>1, <3>1 DEF ParseInt, Meant
  <2> QED
    BY <2>1 DEF LimitsAgree
<1> QED
  BY <1>1, InvariantHolds, PTL

\* A job that has completed has missed nobody because of another one's failure or
\* deletion (jobs/invoice.ts:9-24, jobs/monitor.ts:16-42, jobs/backup.ts:14-23).
THEOREM NobodyMissed ==
    Spec => [](\A k \in Job : job[k] = "completed" => NothingMissed(k))
<1>1. ASSUME IInv PROVE \A k \in Job : job[k] = "completed" => NothingMissed(k)
  <2>1. ASSUME NEW k \in Job, job[k] = "completed", NEW x \in listed[k], Present(k, x)
        PROVE  Handled(k, x) \/ x \in missed[k]
    <3>1. \A s \in Server : ~Busy(s, k)
      BY <1>1, <2>1 DEF IInv, OneWorker, Working
    <3>2. Accounted(k, x)
      BY <1>1, <2>1 DEF IInv, NoneLost, NoneLostBy
    <3> QED
      BY <2>1, <3>1, <3>2 DEF Accounted
  <2> QED
    BY <2>1 DEF NothingMissed
<1> QED
  BY <1>1, InvariantHolds, PTL
================================================================================
