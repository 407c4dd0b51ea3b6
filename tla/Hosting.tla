-------------------------------- MODULE Hosting ---------------------------------
(***************************************************************************)
(* Billing, scheduled jobs and resource limits of the n8n hosting control  *)
(* plane (src/backend: routes/auth.ts, users.ts, billing.ts, instances.ts; *)
(* jobs/*.ts, services/invoice.service.ts, reprovision-existing.ts, and the*)
(* limits of services/docker.service.ts).                                  *)
(*                                                                         *)
(* Three BullMQ jobs are repeated: invoices every month, backups every     *)
(* night, metrics every five minutes.  Each server has a worker for each;  *)
(* a job lists users or instances and handles one after the other, while   *)
(* requests go on.  How instances are made, started and deleted step by    *)
(* step is the module Provisioning; here that is one step each.  Left out: *)
(* amounts, domains, e-mails, sessions' expiry, and the CPU limit, which   *)
(* goes with the memory limit and is converted exactly.                    *)
(***************************************************************************)
EXTENDS Naturals, FiniteSets

CONSTANTS
    User, Inst,
    Owner,          \* whose each instance would be
    PlanOf,         \* the plan of each user
    Admin,          \* who signs up as the first user, and is an administrator
    Manual,         \* plans an administrator deploys by hand
    Scaled,         \* memory limits an administrator may choose
    Server, Proc,   \* servers with their workers; requests that may overlap
    NoItem,
    MaxRuns,        \* bound: how often jobs are due, together
    MaxRequests,    \* bound: requests
    MaxFaults       \* bound: failed calls, crashes, vanished containers

\* A memory limit as it is written, "512m" or "2g".
Limit == [n : Nat, unit : {"m", "g"}]
Plan == {"STARTER", "PRO", "BUSINESS", "ENTERPRISE"}
Job == {"invoice", "backup", "monitor"}

ASSUME HostingAssumption ==
    /\ Owner \in [Inst -> User] /\ PlanOf \in [User -> Plan] /\ Admin \subseteq User
    /\ Manual \subseteq Plan /\ Scaled \subseteq {l \in Limit : l.n > 0} /\ NoItem \notin User \cup Inst
    /\ MaxRuns \in Nat /\ MaxRequests \in Nat /\ MaxFaults \in Nat

VARIABLES
    user,       \* users.status
    session,    \* users with a token; it says nothing of their status
    row,        \* instances.status, "none" before and "gone" after
    limits,     \* memoryLimit, the limit in the row
    box,        \* the limit of its container in MiB, 0: there is none
    gen,        \* which container it is
    invoices,   \* [id, user, month, payments]; month 0 was made by hand
    ids,        \* invoice ids handed out
    stamp,      \* the run that backed an instance up, and that measured it
    cron,       \* the repeatable jobs that are registered
    job, run, stalls,   \* each job's state, occurrence, and lost workers
    w,          \* each server's workers
    req, requests,      \* payments and scalings under way; requests ever made
    faults,
    listed, missed,     \* history: what a job's last run found, and failed on
    redone,     \* history: months whose job was run again
    off,        \* history: instances whose limits need not agree
    raced       \* history: invoices paid by two requests at once

accounts == <<user, session>>
boxes == <<row, limits, box, gen, off>>
bills == <<invoices, ids, raced>>
jobs == <<stamp, cron, job, run, stalls, w, listed, missed, redone>>
asks == <<req, requests>>
vars == <<accounts, boxes, bills, jobs, asks, faults>>

MB(m) == [n |-> m, unit |-> "m"]
Free == [at |-> "free", inst |-> NoItem, lim |-> MB(0), gen |-> 0, inv |-> 0]
Idle == [at |-> "idle", todo |-> {}, cur |-> NoItem]
Down == [Idle EXCEPT !.at = "down"]

Init ==
    /\ user = [u \in User |-> "none"] /\ session = {}
    /\ row = [i \in Inst |-> "none"] /\ limits = [i \in Inst |-> MB(0)]
    /\ box = [i \in Inst |-> 0] /\ gen = [i \in Inst |-> 0] /\ off = {}
    /\ invoices = {} /\ ids = 0 /\ raced = {}
    /\ stamp = [i \in Inst |-> [k \in {"backup", "monitor"} |-> 0]] /\ cron = {}
    /\ job = [k \in Job |-> "idle"] /\ run = [k \in Job |-> 0] /\ stalls = [k \in Job |-> 0]
    /\ w = [s \in Server |-> [k \in Job |-> Down]]
    /\ req = [q \in Proc |-> Free] /\ requests = 0
    /\ faults = 0
    /\ listed = [k \in Job |-> {}] /\ missed = [k \in Job |-> {}] /\ redone = {}

Fault == faults < MaxFaults /\ faults' = faults + 1
There(i) == row[i] \in {"RUNNING", "STOPPED"}
Account(u) == user[u] \notin {"none", "gone"}
Up(s) == w[s]["invoice"].at # "down"
Counted == requests < MaxRequests /\ requests' = requests + 1
Served == /\ \E s \in Server : Up(s)
          /\ Counted

-----------------------------------------------------------------------------
(* Users and instances *)

\* POST /auth/signup; the first user is an administrator.  The instance it makes
\* is Deploy's.
SignUp(u) ==
    /\ Served /\ user[u] = "none"
    /\ u \in Admin <=> \A v \in User : ~Account(v)
    /\ \E st \in {"ACTIVE"} \cup (IF u \in Admin THEN {} ELSE {"PENDING"}) : user' = [user EXCEPT ![u] = st]
    /\ UNCHANGED <<session, boxes, bills, jobs, req, faults>>

Mine(u) == {i \in Inst : Owner[i] = u /\ There(i)}

Rows(done, st) == row' = [i \in Inst |-> IF i \in done THEN st ELSE row[i]]

\* PATCH /users/:id/approve starts an instance that is there; making the first
\* one is Deploy's.  A container that has vanished (404) or is running (304) is a
\* 500, after the status.
Approve(u) ==
    /\ Served /\ Account(u) /\ ~(user[u] = "ACTIVE" /\ Mine(u) # {})
    /\ user' = [user EXCEPT ![u] = "ACTIVE"]
    /\ IF Mine(u) = {} THEN UNCHANGED row
       ELSE \E i \in Mine(u), ok \in BOOLEAN : Rows(IF ok /\ box[i] # 0 THEN {i} ELSE {}, "RUNNING")
    /\ UNCHANGED <<session, limits, box, gen, off, bills, jobs, req, faults>>

\* Suspension stops the user's instances, unsuspension starts them, up to the
\* first container that has vanished (404) or is so already (304).
SetStatus(u) ==
    /\ Served /\ Account(u)
    /\ \E st \in {"ACTIVE", "SUSPENDED"}, done \in SUBSET {i \in Mine(u) : box[i] # 0} :
          /\ user' = [user EXCEPT ![u] = st]
          /\ Rows(done, IF st = "ACTIVE" THEN "RUNNING" ELSE "STOPPED")
    /\ UNCHANGED <<session, limits, box, gen, off, bills, jobs, req, faults>>

\* Pending and suspended users get no token; those they have stay good.
Login(u) ==
    /\ Served /\ user[u] = "ACTIVE"
    /\ session' = session \cup {u}
    /\ UNCHANGED <<user, boxes, bills, jobs, req, faults>>

\* DELETE /users/:id, with instances and invoices.
RemoveUser(u) ==
    /\ Served /\ Account(u)
    /\ user' = [user EXCEPT ![u] = "gone"]
    /\ row' = [i \in Inst |-> IF i \in Mine(u) THEN "gone" ELSE row[i]]
    /\ box' = [i \in Inst |-> IF i \in Mine(u) THEN 0 ELSE box[i]]
    /\ invoices' = {v \in invoices : v.user # u}
    /\ UNCHANGED <<session, limits, gen, off, ids, raced, jobs, req, faults>>

\* The memory of a new container by the plan, of its row as signup and approval
\* write it, and as POST /instances does.
BoxLimits == [STARTER |-> 512, PRO |-> 1024, BUSINESS |-> 2048, ENTERPRISE |-> 4096]
RowLimits == [STARTER |-> 512, PRO |-> 1024, BUSINESS |-> 2048, ENTERPRISE |-> 512]
ManualLimits == [STARTER |-> 512, PRO |-> 1024, BUSINESS |-> 512, ENTERPRISE |-> 512]

\* createInstance reuses a container that is there.
Boxed(i, plan) ==
    IF box[i] = 0 THEN box' = [box EXCEPT ![i] = BoxLimits[plan]] /\ gen' = [gen EXCEPT ![i] = @ + 1]
    ELSE UNCHANGED <<box, gen>>

\* A container and then its row, for the user's plan or by hand for another one;
\* or the container alone.
Deploy(i) ==
    /\ Served /\ row[i] = "none" /\ Account(Owner[i])
    /\ \E manual \in BOOLEAN : \E plan \in IF manual THEN Manual ELSE {PlanOf[Owner[i]]} :
          /\ Boxed(i, plan)
          /\ \/ /\ row' = [row EXCEPT ![i] = "RUNNING"]
                /\ limits' = [limits EXCEPT ![i] = MB(IF manual THEN ManualLimits[plan] ELSE RowLimits[plan])]
                /\ off' = IF box[i] # 0 \/ plan = "ENTERPRISE" \/ (manual /\ plan = "BUSINESS")
                          THEN off \cup {i} ELSE off
                /\ UNCHANGED faults
             \/ Fault /\ UNCHANGED <<row, limits, off>>
    /\ UNCHANGED <<accounts, bills, jobs, req>>

Halt(i) ==
    /\ Served /\ row[i] = "RUNNING" /\ row' = [row EXCEPT ![i] = "STOPPED"]
    /\ UNCHANGED <<accounts, limits, box, gen, off, bills, jobs, req, faults>>

\* A missing container is made again for the plan; the row keeps its limits.
Boot(i) ==
    /\ Served /\ There(i) /\ row' = [row EXCEPT ![i] = "RUNNING"]
    /\ Boxed(i, PlanOf[Owner[i]])
    /\ off' = IF box[i] = 0 THEN off \cup {i} ELSE off
    /\ UNCHANGED <<accounts, limits, bills, jobs, req, faults>>

Vanish(i) ==
    /\ There(i) /\ box[i] # 0 /\ Fault
    /\ box' = [box EXCEPT ![i] = 0]
    /\ UNCHANGED <<accounts, row, limits, gen, off, bills, jobs, asks>>

-----------------------------------------------------------------------------
(* PATCH /instances/:id/scale, and the re-provisioning script *)

Scaling(i) == {q \in Proc : req[q].inst = i}
EndRequest(q) == req' = [req EXCEPT ![q] = Free]
Ask(q, r) ==
    /\ Served /\ req[q] = Free
    /\ req' = [req EXCEPT ![q] = r]

Scale(q, i) ==
    /\ There(i)
    /\ \E l \in Scaled : Ask(q, [Free EXCEPT !.at = "update", !.inst = i, !.lim = l, !.gen = gen[i]])
    /\ off' = IF Scaling(i) # {} THEN off \cup {i} ELSE off
    /\ UNCHANGED <<accounts, row, limits, box, gen, bills, jobs, faults>>

\* parseInt(memoryLimit) * 1024 * 1024: the unit is dropped, so that "2g" is 2 MiB.
ParseInt(l) == l.n

\* container.update, by the container's id.  Docker may refuse so little.
ScaleBox(q) ==
    /\ req[q].at = "update"
    /\ LET i == req[q].inst IN
       \/ /\ box[i] # 0 /\ gen[i] = req[q].gen
          /\ box' = [box EXCEPT ![i] = ParseInt(req[q].lim)]
          /\ req' = [req EXCEPT ![q].at = "record"] /\ UNCHANGED faults
       \/ /\ EndRequest(q) /\ UNCHANGED box
          /\ IF box[i] # 0 /\ gen[i] = req[q].gen /\ req[q].lim.unit = "m" THEN Fault ELSE UNCHANGED faults
    /\ UNCHANGED <<accounts, row, limits, gen, off, bills, jobs, requests>>

\* Mutant: the row keeps its limit.
BugScaleRow(q) ==
    /\ req[q].at = "record" /\ EndRequest(q)
    /\ UNCHANGED <<accounts, boxes, bills, jobs, requests, faults>>

\* A scaling by itself makes row and container agree.
ScaleRow(q) ==
    /\ req[q].at = "record" /\ EndRequest(q)
    /\ LET i == req[q].inst IN
       \/ /\ There(i) /\ limits' = [limits EXCEPT ![i] = req[q].lim]
          /\ off' = IF Scaling(i) = {q} /\ gen[i] = req[q].gen /\ box[i] = ParseInt(req[q].lim)
                    THEN off \ {i} ELSE off
          /\ UNCHANGED faults
       \/ ~There(i) /\ UNCHANGED <<limits, off, faults>>
       \/ There(i) /\ Fault /\ off' = off \cup {i} /\ UNCHANGED limits
    /\ UNCHANGED <<accounts, row, box, gen, bills, jobs, requests>>

\* reprovision-existing.ts, run by hand: for each row it listed it makes the
\* container that is missing, by the plan the row's memory stands for.
Reprovision(q, i) ==
    /\ There(i) /\ req[q] = Free /\ Counted
    /\ req' = [req EXCEPT ![q] = [Free EXCEPT !.at = "again", !.inst = i, !.lim = limits[i]]]
    /\ off' = IF Scaling(i) # {} THEN off \cup {i} ELSE off
    /\ UNCHANGED <<accounts, row, limits, box, gen, bills, jobs, faults>>

PlanFor(lim) == CASE lim = MB(2048) -> "BUSINESS" [] lim = MB(1024) -> "PRO" [] OTHER -> "STARTER"

Redeploy(q) ==
    /\ req[q].at = "again" /\ EndRequest(q)
    /\ LET i == req[q].inst IN
       /\ Boxed(i, PlanFor(req[q].lim))
       /\ off' = IF box[i] = 0 THEN off \cup {i} ELSE off
    /\ UNCHANGED <<accounts, row, limits, bills, jobs, requests, faults>>

-----------------------------------------------------------------------------
(* Invoices *)

Invoiced(u, month) ==
    /\ ids' = ids + 1
    /\ invoices' = invoices \cup {[id |-> ids + 1, user |-> u, month |-> month, payments |-> 0]}

\* POST /billing/generate, by an administrator.
Generate(u) ==
    /\ Served /\ Account(u) /\ Invoiced(u, 0)
    /\ UNCHANGED <<accounts, boxes, raced, jobs, req, faults>>

\* The routes take a signed token, the user's own or an administrator's, without
\* a look at users.
Authorized(u) == session \cap (Admin \cup {u}) # {}

Paying(id) == {q \in Proc : req[q].inv = id}

\* POST /billing/invoices/:id/pay: the owner or an administrator; first the
\* invoice is read.
Pay(q, v) ==
    /\ Authorized(v.user) /\ v.payments = 0
    /\ Ask(q, [Free EXCEPT !.at = "pay", !.inv = v.id])
    /\ raced' = IF Paying(v.id) # {} THEN raced \cup {v.id} ELSE raced
    /\ UNCHANGED <<accounts, boxes, invoices, ids, jobs, faults>>

\* Without the invoice, or the database, it is a 500.
SetPaid(q) ==
    /\ req[q].at = "pay" /\ EndRequest(q)
    /\ \/ /\ invoices' = {IF v.id = req[q].inv THEN [v EXCEPT !.payments = @ + 1] ELSE v : v \in invoices}
          /\ UNCHANGED faults
       \/ Fault /\ UNCHANGED invoices
    /\ UNCHANGED <<accounts, boxes, ids, raced, jobs, requests>>

-----------------------------------------------------------------------------
(* The scheduled jobs *)

\* Mutant: the jobs are run at once whenever a server starts.
BugStart(s) ==
    /\ ~Up(s)
    /\ w' = [w EXCEPT ![s] = [k \in Job |-> Idle]] /\ cron' = Job
    /\ job' = [k \in Job |-> IF run[k] > 0 /\ job[k] = "completed" THEN "waiting" ELSE job[k]]
    /\ UNCHANGED <<accounts, boxes, bills, asks, stamp, run, stalls, listed, missed, redone, faults>>

\* setupScheduledJobs, one after the other: adding a repeatable job again changes
\* nothing; the first error is logged and ends it.
Start(s) ==
    /\ ~Up(s)
    /\ w' = [w EXCEPT ![s] = [k \in Job |-> Idle]]
    /\ \/ cron' = Job /\ UNCHANGED faults
       \/ Fault /\ \E ks \in {{}, {"backup"}, {"backup", "invoice"}} : cron' = cron \cup ks
    /\ UNCHANGED <<accounts, boxes, bills, asks, stamp, job, run, stalls, listed, missed, redone>>

\* The time has come, and the job's last run has ended long ago.
Due(k) ==
    /\ k \in cron /\ job[k] \in {"idle", "completed", "failed"} /\ run["invoice"] + run["backup"] + run["monitor"] < MaxRuns
    /\ job' = [job EXCEPT ![k] = "waiting"] /\ run' = [run EXCEPT ![k] = @ + 1]
    /\ stalls' = [stalls EXCEPT ![k] = 0]
    /\ listed' = [listed EXCEPT ![k] = {}] /\ missed' = [missed EXCEPT ![k] = {}]
    /\ UNCHANGED <<accounts, boxes, bills, asks, stamp, cron, w, redone, faults>>

Ends(s, k, how) == w' = [w EXCEPT ![s][k] = Idle] /\ job' = [job EXCEPT ![k] = how]

\* The next one on the list, or the job has completed.
Onward(s, k, todo) ==
    IF todo = {} THEN Ends(s, k, "completed")
    ELSE /\ \E x \in todo : w' = [w EXCEPT ![s][k] = [at |-> "read", todo |-> todo \ {x}, cur |-> x]]
         /\ UNCHANGED job

Found(k) ==
    CASE k = "invoice" -> {u \in User : user[u] = "ACTIVE"}
      [] k = "backup"  -> {i \in Inst : row[i] = "RUNNING"}
      [] OTHER         -> {i \in Inst : There(i)}

\* One attempt: without an answer of the database the job has failed.
Take(s, k) ==
    /\ w[s][k].at = "idle" /\ job[k] = "waiting"
    /\ w' = [w EXCEPT ![s][k].at = "list"] /\ job' = [job EXCEPT ![k] = "active"]
    /\ UNCHANGED <<accounts, boxes, bills, asks, stamp, cron, run, stalls, listed, missed, redone, faults>>
List(s, k) ==
    /\ w[s][k].at = "list"
    /\ \/ Onward(s, k, Found(k)) /\ listed' = [listed EXCEPT ![k] = Found(k)] /\ UNCHANGED faults
       \/ Fault /\ Ends(s, k, "failed") /\ UNCHANGED listed
    /\ UNCHANGED <<accounts, boxes, bills, asks, stamp, cron, run, stalls, missed, redone>>

\* generateInvoice reads the user.
ReadUser(s) ==
    /\ w[s]["invoice"].at = "read"
    /\ LET x == w[s]["invoice"].cur IN
       \/ Account(x) /\ w' = [w EXCEPT ![s]["invoice"].at = "write"] /\ UNCHANGED <<job, missed, faults>>
       \/ /\ IF Account(x) THEN Fault /\ missed' = [missed EXCEPT !["invoice"] = @ \cup {x}]
             ELSE UNCHANGED <<missed, faults>>
          /\ Onward(s, "invoice", w[s]["invoice"].todo)
    /\ UNCHANGED <<accounts, boxes, bills, asks, stamp, cron, run, stalls, listed, redone>>

\* getMetrics has zeros for an answer when it fails; a backup waits 500 ms.
Measure(s, k) ==
    /\ k \in {"monitor", "backup"} /\ w[s][k].at = "read"
    /\ w' = [w EXCEPT ![s][k].at = "write"]
    /\ UNCHANGED <<accounts, boxes, bills, asks, stamp, cron, job, run, stalls, listed, missed, redone, faults>>

Write(s, k, x) ==
    IF k = "invoice" THEN Invoiced(x, run[k]) /\ UNCHANGED stamp
    ELSE stamp' = [stamp EXCEPT ![x][k] = run[k]] /\ UNCHANGED <<invoices, ids>>
Present(k, x) == IF k = "invoice" THEN Account(x) ELSE There(x)

\* Mutant: the loop ends with the first user or instance that fails.
BugHandle(s, k) ==
    /\ w[s][k].at = "write"
    /\ LET x == w[s][k].cur IN
       \/ Present(k, x) /\ Write(s, k, x) /\ Onward(s, k, w[s][k].todo) /\ UNCHANGED <<missed, faults>>
       \/ /\ IF Present(k, x) THEN Fault /\ missed' = [missed EXCEPT ![k] = @ \cup {x}]
             ELSE UNCHANGED <<missed, faults>>
          /\ Ends(s, k, "completed")
          /\ UNCHANGED <<invoices, ids, stamp>>
    /\ UNCHANGED <<accounts, boxes, raced, asks, cron, run, stalls, listed, redone>>

\* What is written needs its user (a foreign key) or its row.  When it fails,
\* invoices and metrics go on with the next; the backup job has failed.
Handle(s, k) ==
    /\ w[s][k].at = "write"
    /\ LET x == w[s][k].cur IN
       \/ Present(k, x) /\ Write(s, k, x) /\ Onward(s, k, w[s][k].todo) /\ UNCHANGED <<missed, faults>>
       \/ /\ IF Present(k, x) THEN Fault /\ missed' = [missed EXCEPT ![k] = @ \cup {x}]
             ELSE UNCHANGED <<missed, faults>>
          /\ IF k = "backup" THEN Ends(s, k, "failed") ELSE Onward(s, k, w[s][k].todo)
          /\ UNCHANGED <<invoices, ids, stamp>>
    /\ UNCHANGED <<accounts, boxes, raced, asks, cron, run, stalls, listed, redone>>

\* The server dies, with the requests it had.
Crash(s) ==
    /\ Up(s) /\ Fault
    /\ w' = [w EXCEPT ![s] = [k \in Job |-> Down]]
    /\ \E qs \in SUBSET Proc :
          /\ req' = [q \in Proc |-> IF q \in qs THEN Free ELSE req[q]]
          /\ off' = off \cup {req[q].inst : q \in {p \in qs : req[p].at = "record"}}
    /\ UNCHANGED <<accounts, row, limits, box, gen, bills, requests,
                   stamp, cron, job, run, stalls, listed, missed, redone>>

\* The queue notices a job without a worker: once it is run again.
Recover(k) ==
    /\ job[k] = "active" /\ \A s \in Server : w[s][k].at \in {"idle", "down"}
    /\ \/ /\ stalls[k] = 0 /\ stalls' = [stalls EXCEPT ![k] = 1]
          /\ job' = [job EXCEPT ![k] = "waiting"]
          /\ redone' = IF k = "invoice" THEN redone \cup {run[k]} ELSE redone
       \/ stalls[k] = 1 /\ job' = [job EXCEPT ![k] = "failed"] /\ UNCHANGED <<stalls, redone>>
    /\ UNCHANGED <<accounts, boxes, bills, asks, stamp, cron, run, w, listed, missed, faults>>

-----------------------------------------------------------------------------
Work(s, k) == List(s, k) \/ (k = "invoice" /\ ReadUser(s)) \/ Measure(s, k) \/ Handle(s, k)

Next ==
    \/ \E u \in User : SignUp(u) \/ Approve(u) \/ SetStatus(u) \/ Login(u) \/ RemoveUser(u) \/ Generate(u)
    \/ \E i \in Inst : Deploy(i) \/ Halt(i) \/ Boot(i) \/ Vanish(i)
    \/ \E q \in Proc : ScaleBox(q) \/ ScaleRow(q) \/ Redeploy(q) \/ SetPaid(q)
    \/ \E q \in Proc, i \in Inst : Scale(q, i) \/ Reprovision(q, i)
    \/ \E q \in Proc, v \in invoices : Pay(q, v)
    \/ \E s \in Server : Start(s) \/ Crash(s)
    \/ \E s \in Server, k \in Job : Take(s, k) \/ Work(s, k)
    \/ \E k \in Job : Due(k) \/ Recover(k)

Spec == Init /\ [][Next]_vars

\* Servers come back and workers go on; a waiting job gets its turn.
FairSpec ==
    /\ Spec
    /\ \A s \in Server : WF_vars(Start(s)) /\ \A k \in Job : WF_vars(Work(s, k))
    /\ \A k \in Job : SF_vars(\E s \in Server : Take(s, k)) /\ WF_vars(Recover(k))

-----------------------------------------------------------------------------
\* A user has one invoice for a month and pays each one once, whatever servers
\* start and stop and whatever fails; excepted are a job that died half way and
\* was run again, which bills from the start, and payments that overlapped
\* (jobs/invoice.ts:9-24, jobs/queue.ts:18-22, routes/billing.ts:52-70).
ChargedOnce ==
    /\ \A u \in User, m \in 1 .. run["invoice"] :
          m \in redone \/ Cardinality({v \in invoices : v.user = u /\ v.month = m}) <= 1
    /\ \A v \in invoices : v.id \in raced \/ v.payments <= 1

Handled(k, x) ==
    IF k = "invoice" THEN \E v \in invoices : v.user = x /\ v.month = run[k] ELSE stamp[x][k] = run[k]

\* All that a job found and that is still there is billed, backed up or measured,
\* but for those whose own call failed.
NothingMissed(k) ==
    \A x \in listed[k] : Present(k, x) => Handled(k, x) \/ x \in missed[k]

\* A job that is due ends although servers die and users and instances come and
\* go, and when it has completed it has missed nobody because of another one's
\* failure or deletion (jobs/invoice.ts:9-24, jobs/monitor.ts:16-42; a backup that
\* fails fails the job, jobs/backup.ts:14-23).
JobsDone == \A k \in Job :
    job[k] = "waiting" ~> job[k] = "failed" \/ (job[k] = "completed" /\ NothingMissed(k))

\* What a limit means: gigabytes are 1024 MiB each.
Meant(l) == IF l.unit = "g" THEN 1024 * l.n ELSE l.n
Settled(i) == There(i) /\ box[i] # 0 /\ i \notin off /\ Scaling(i) = {}

\* A limit in megabytes in a row is that of its container when nobody scales it;
\* excepted are containers that were there before the row or made again after it,
\* two scalings at once, one that broke off, and plans whose limits the routes do
\* not know - until the next scaling by itself (instances.ts:89-116,
\* docker.service.ts:56-67).  A limit in gigabytes is the next claim's.
LimitsAgree == \A i \in Inst : Settled(i) /\ limits[i].unit = "m" => Meant(limits[i]) = box[i]

\* What the comment "e.g. 512m, 2g" at instances.ts:16 says too, and the code does
\* not keep: after one scaling to "2g" by itself the container has 2 MiB.  This is
\* no property; MCHostingUnits.cfg shows the trace.
LimitsMeant == \A i \in Inst : Settled(i) => Meant(limits[i]) = box[i]
================================================================================
