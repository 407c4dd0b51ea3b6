-------------------------------- MODULE Dunning --------------------------------
(***************************************************************************)
(* The life of a tenant's subscription in the tenant-api: the dunning      *)
(* schedule after a failed payment (services/dunningService.ts), its       *)
(* reactivation, the trial check (services/trialService.ts) and what a     *)
(* processed payment webhook does to the tenant.                           *)
(*                                                                         *)
(* None of these operations is a transaction: each is a sequence of awaits *)
(* on PostgreSQL and Redis, one step each here, carried out by one of the  *)
(* concurrent activities Proc.  A step that fails ends its operation where *)
(* it stands.  Days are counted by `now', which moves to the day the next  *)
(* milestone is due while no operation is under way (they last seconds); a *)
(* worker may be late by any time.                                         *)
(***************************************************************************)
EXTENDS Naturals, FiniteSets

CONSTANTS
    Tenant,         \* each has one subscription
    Proc,           \* requests, workers and cron runs that may overlap
    NoTenant,
    Days,           \* the milestones: 0, 3, 7, 14 and 30 in the code
    MaxTriggers,    \* bound: calls of triggerSubscriptionDunning
    MaxFaults       \* bound: crashes, and failed steps, which count twice

ASSUME DunningAssumption ==
    /\ NoTenant \notin Tenant
    /\ Days \subseteq Nat /\ 30 \in Days
    /\ MaxTriggers \in Nat /\ MaxFaults \in Nat

VARIABLES
    tenant,     \* tenants.status and metadata.dunning_stage (0 when absent)
    sub,        \* subscriptions.status
    queue,      \* dunningQueue: jobs delayed, waiting or active
    now,
    since,      \* the day of the tenant's last failed payment, 0 if none
    triggers, faults,
    raced,      \* history: tenants two operations have overlapped on
    broken,     \* history: tenants an operation was cut short on, and not resumed
    pc, who, task, todo     \* each activity's step, tenant, job and worklist

vars == <<tenant, sub, queue, now, since, triggers, faults, raced, broken,
          pc, who, task, todo>>
rest == <<now, since, triggers, faults, broken>>

Status == {"trialing", "active", "past_due", "canceled"}
Stages == Days \cup {0, 1}
\* A milestone job of the n-th trigger, not yet added to the queue.
NewJob(t, d, n) == [tenant |-> t, day |-> d, due |-> 0, gen |-> n, active |-> FALSE, stalls |-> 0]
Schedule(n) == NewJob(NoTenant, 0, n)       \* what the n-th trigger carries along
NoJob == Schedule(0)
Jobs == [tenant : Tenant, day : Days, due : Nat, gen : 1 .. MaxTriggers, active : BOOLEAN,
         stalls : {0, 1}]

Steps == {"free",
          "dueSub", "dueTenant", "dueList", "dueRemove", "dueAdd",
          "check", "stage", "mail", "cancelSub", "cancelTenant",
          "backTenant", "backSub", "backList", "backRemove",
          "trialSub", "trialTenant"}

TypeOK ==
    /\ tenant \in [Tenant -> [status : Status, stage : Stages]]
    /\ sub \in [Tenant -> Status]
    /\ queue \subseteq Jobs
    /\ now \in Nat
    /\ since \in [Tenant -> Nat]
    /\ triggers \in 0 .. MaxTriggers
    /\ faults \in 0 .. MaxFaults
    /\ pc \in [Proc -> Steps]
    /\ who \in [Proc -> Tenant \cup {NoTenant}]
    /\ task \in [Proc -> Jobs \cup {Schedule(n) : n \in 0 .. MaxTriggers}]
    /\ raced \subseteq Tenant
    /\ broken \subseteq Tenant
    /\ todo \in [Proc -> (SUBSET Jobs) \cup (SUBSET Tenant)]

\* Registration makes a trialing subscription; a payment makes an active one.
Init ==
    /\ tenant = [t \in Tenant |-> [status |-> "active", stage |-> 0]]
    /\ sub \in [Tenant -> {"trialing", "active"}]
    /\ queue = {}
    /\ now = 1
    /\ since = [t \in Tenant |-> 0]
    /\ triggers = 0
    /\ faults = 0
    /\ raced = {}
    /\ broken = {}
    /\ pc = [p \in Proc |-> "free"]
    /\ who = [p \in Proc |-> NoTenant]
    /\ task = [p \in Proc |-> NoJob]
    /\ todo = [p \in Proc |-> {}]

-----------------------------------------------------------------------------
SetStatus(t, s) == tenant' = [tenant EXCEPT ![t].status = s]
SetSub(t, s) == sub' = [sub EXCEPT ![t] = s]

\* Activity p goes on at step s with worklist w.
Continue(p, s, w) ==
    /\ pc' = [pc EXCEPT ![p] = s]
    /\ todo' = [todo EXCEPT ![p] = w]
    /\ UNCHANGED <<who, task>>

Free(p) ==
    /\ pc' = [pc EXCEPT ![p] = "free"]
    /\ who' = [who EXCEPT ![p] = NoTenant]
    /\ task' = [task EXCEPT ![p] = NoJob]
    /\ todo' = [todo EXCEPT ![p] = {}]

Start(p, s, t, j, w) ==
    /\ pc[p] = "free"
    /\ pc' = [pc EXCEPT ![p] = s]
    /\ who' = [who EXCEPT ![p] = t]
    /\ task' = [task EXCEPT ![p] = j]
    /\ todo' = [todo EXCEPT ![p] = w]

\* Mutant: getJobs(['waiting']) misses the delayed jobs.
BugWaitingOnly(t) == {j \in queue : j.tenant = t /\ ~j.active /\ j.due <= now}

\* dunningQueue.getJobs(['delayed', 'waiting']) of the tenant: active jobs are
\* not listed.
Removable(t) == {j \in queue : j.tenant = t /\ ~j.active}

-----------------------------------------------------------------------------
(* triggerSubscriptionDunning *)

Trigger(p, t) ==
    /\ triggers < MaxTriggers
    /\ triggers' = triggers + 1
    /\ Start(p, "dueSub", t, Schedule(triggers + 1), {})
    /\ UNCHANGED <<tenant, sub, queue, now, since, faults, broken>>

\* Mutant: a subscription on trial is left out.
BugTrialSkipped(p) ==
    /\ pc[p] = "dueSub"
    /\ sub' = [sub EXCEPT ![who[p]] = IF @ = "trialing" THEN @ ELSE "past_due"]
    /\ Continue(p, "dueTenant", {})
    /\ UNCHANGED <<tenant, queue, rest>>

TriggerSub(p) ==
    /\ pc[p] = "dueSub"
    /\ SetSub(who[p], "past_due")
    /\ Continue(p, "dueTenant", {})
    /\ UNCHANGED <<tenant, queue, rest>>

TriggerTenant(p) ==
    /\ pc[p] = "dueTenant"
    /\ tenant' = [tenant EXCEPT ![who[p]] = [status |-> "past_due", stage |-> 1]]
    /\ since' = [since EXCEPT ![who[p]] = now]
    /\ Continue(p, "dueList", {})
    /\ UNCHANGED <<sub, queue, now, triggers, faults, broken>>

TriggerList(p) ==
    /\ pc[p] = "dueList"
    /\ Continue(p, "dueRemove", Removable(who[p]))
    /\ UNCHANGED <<tenant, sub, queue, rest>>

\* Mutant: the last milestone is never scheduled.
BugNoLastMilestone(t, n) ==
    {NewJob(t, d, n) : d \in Days \ {30}}

\* One milestone job per day of the schedule.
NewJobs(t, n) == {NewJob(t, d, n) : d \in Days}

\* getJobs lists delayed jobs by their due time.
NextOf(jobs) == {j \in jobs : \A k \in jobs : j.due <= k.due}

\* job.remove().catch(() => {}): a job that has become active stays.
TriggerRemove(p) ==
    /\ pc[p] = "dueRemove"
    /\ \/ /\ todo[p] = {}
          /\ Continue(p, "dueAdd", NewJobs(who[p], task[p].gen))
          /\ UNCHANGED queue
       \/ \E j \in NextOf(todo[p]) :
             /\ queue' = queue \ {j}
             /\ Continue(p, "dueRemove", todo[p] \ {j})
    /\ UNCHANGED <<tenant, sub, rest>>

\* One Queue.add per milestone, in order, each delayed by its day.
TriggerAdd(p) ==
    /\ pc[p] = "dueAdd"
    /\ \E j \in todo[p] :
          /\ \A k \in todo[p] : j.day <= k.day
          /\ queue' = queue \cup {[j EXCEPT !.due = now + j.day]}
          /\ IF todo[p] = {j} THEN Free(p) ELSE Continue(p, "dueAdd", todo[p] \ {j})
    /\ UNCHANGED <<tenant, sub, rest>>

-----------------------------------------------------------------------------
(* handleDunningMilestoneJob: a finished or failed job leaves the queue *)

\* Mutant: due jobs are taken in any order.
BugPickAny(p, j) ==
    /\ j \in queue /\ j.due <= now /\ ~j.active
    /\ LET a == [j EXCEPT !.active = TRUE] IN
          /\ queue' = (queue \ {j}) \cup {a}
          /\ Start(p, "check", j.tenant, a, {})
    /\ UNCHANGED <<tenant, sub, rest>>

\* The worker, which handles several jobs at once, takes the one due longest.
Pick(p, j) ==
    /\ j \in queue /\ ~j.active /\ j.due <= now
    /\ \A k \in queue : ~k.active => j.due <= k.due
    /\ LET a == [j EXCEPT !.active = TRUE] IN
          /\ queue' = (queue \ {j}) \cup {a}
          /\ Start(p, "check", j.tenant, a, {})
    /\ UNCHANGED <<tenant, sub, rest>>

MilestoneCheck(p) ==
    /\ pc[p] = "check"
    /\ IF tenant[who[p]].status = "past_due"
         THEN Continue(p, "stage", {}) /\ UNCHANGED queue
         ELSE Free(p) /\ queue' = queue \ {task[p]}
    /\ UNCHANGED <<tenant, sub, rest>>

MilestoneStage(p) ==
    /\ pc[p] = "stage"
    /\ tenant' = [tenant EXCEPT ![who[p]].stage = task[p].day]
    /\ Continue(p, "mail", {})
    /\ UNCHANGED <<sub, queue, rest>>

MilestoneMail(p) ==
    /\ pc[p] = "mail"
    /\ IF task[p].day = 30
         THEN Continue(p, "cancelSub", {}) /\ UNCHANGED queue
         ELSE Free(p) /\ queue' = queue \ {task[p]}
    /\ UNCHANGED <<tenant, sub, rest>>

CancelSub(p) ==
    /\ pc[p] = "cancelSub"
    /\ SetSub(who[p], "canceled")
    /\ Continue(p, "cancelTenant", {})
    /\ UNCHANGED <<tenant, queue, rest>>

CancelTenant(p) ==
    /\ pc[p] = "cancelTenant"
    /\ SetStatus(who[p], "canceled")
    /\ Free(p)
    /\ queue' = queue \ {task[p]}
    /\ UNCHANGED <<sub, rest>>

-----------------------------------------------------------------------------
(* reactivateTenantSubscription, on POST /api/billing/reactivate *)

Reactivate(p, t) ==
    /\ Start(p, "backTenant", t, NoJob, {})
    /\ UNCHANGED <<tenant, sub, queue, rest>>

ReactivateTenant(p) ==
    /\ pc[p] = "backTenant"
    /\ tenant' = [tenant EXCEPT ![who[p]] = [status |-> "active", stage |-> 0]]
    /\ Continue(p, "backSub", {})
    /\ UNCHANGED <<sub, queue, rest>>

ReactivateSub(p) ==
    /\ pc[p] = "backSub"
    /\ sub' = [sub EXCEPT ![who[p]] = IF @ = "past_due" THEN "active" ELSE @]
    /\ Continue(p, "backList", {})
    /\ UNCHANGED <<tenant, queue, rest>>

ReactivateList(p) ==
    /\ pc[p] = "backList"
    /\ Continue(p, "backRemove", Removable(who[p]))
    /\ UNCHANGED <<tenant, sub, queue, rest>>

\* The last await is a cache invalidation, which never rejects.
ReactivateRemove(p) ==
    /\ pc[p] = "backRemove"
    /\ \/ todo[p] = {} /\ Free(p) /\ UNCHANGED queue
       \/ \E j \in NextOf(todo[p]) :
             /\ queue' = queue \ {j}
             /\ Continue(p, "backRemove", todo[p] \ {j})
    /\ UNCHANGED <<tenant, sub, rest>>

-----------------------------------------------------------------------------
(* checkTrialExpirations: the expired trials are read once, then handled in turn *)

TrialCheck(p) ==
    /\ \E expired \in SUBSET {t \in Tenant : sub[t] = "trialing"} :
          expired # {} /\ Start(p, "trialSub", NoTenant, NoJob, expired)
    /\ UNCHANGED <<tenant, sub, queue, rest>>

TrialSub(p) ==
    /\ pc[p] = "trialSub"
    /\ \E t \in todo[p] :
          /\ SetSub(t, "past_due")
          /\ pc' = [pc EXCEPT ![p] = "trialTenant"]
          /\ who' = [who EXCEPT ![p] = t]
          /\ UNCHANGED <<task, todo>>
    /\ UNCHANGED <<tenant, queue, rest>>

TrialTenant(p) ==
    /\ pc[p] = "trialTenant"
    /\ SetStatus(who[p], "past_due")
    /\ IF todo[p] = {who[p]} THEN Free(p) ELSE Continue(p, "trialSub", todo[p] \ {who[p]})
    /\ UNCHANGED <<sub, queue, rest>>

-----------------------------------------------------------------------------
\* processWebhookPayload: a paid checkout or a deleted subscription changes the
\* tenant only; the subscription, the stage and the dunning jobs stay.
Webhook(t) ==
    /\ \E s \in {"active", "canceled"} : SetStatus(t, s)
    /\ UNCHANGED <<sub, queue, rest, pc, who, task, todo>>

\* Activity p is working on tenant t, or has it on its worklist.
Concerns(p, t) == who[p] = t \/ t \in todo[p]

\* An await rejects: the operation ends, its job (of one attempt) fails.
StepFails(p) ==
    /\ pc[p] \notin {"free", "dueRemove", "backRemove"}
    /\ faults + 2 <= MaxFaults
    /\ faults' = faults + 2
    /\ broken' = broken \cup {t \in Tenant : Concerns(p, t)}
    /\ Free(p)
    /\ queue' = queue \ {task[p]}
    /\ UNCHANGED <<tenant, sub, now, since, triggers>>

\* A job.remove() rejects: it is ignored, and the job stays.
RemoveFails(p) ==
    /\ pc[p] \in {"dueRemove", "backRemove"}
    /\ faults + 2 <= MaxFaults
    /\ faults' = faults + 2
    /\ broken' = broken \cup {who[p]}
    /\ \E j \in NextOf(todo[p]) : Continue(p, pc[p], todo[p] \ {j})
    /\ UNCHANGED <<tenant, sub, queue, now, since, triggers>>

\* An active job whose worker died has stalled; the second time it fails
\* (maxStalledCount is 1 by default) and leaves the queue.
Lost(j) == j.active /\ j.stalls = 1
Stalled(j) == [j EXCEPT !.active = FALSE, !.stalls = IF j.active THEN 1 ELSE @]

\* The process dies; BullMQ finds the active jobs stalled and queues them again,
\* once each.
Crash ==
    /\ faults < MaxFaults
    /\ faults' = faults + 1
    /\ LET kept == {j \in queue : ~Lost(j)} IN
       /\ broken' = broken \cup {t \in Tenant : \E p \in Proc : Concerns(p, t) /\ task[p] \notin kept}
       /\ queue' = {Stalled(j) : j \in kept}
    /\ pc' = [p \in Proc |-> "free"]
    /\ who' = [p \in Proc |-> NoTenant]
    /\ task' = [p \in Proc |-> NoJob]
    /\ todo' = [p \in Proc |-> {}]
    /\ UNCHANGED <<tenant, sub, now, since, triggers>>

\* Time passes until the next delayed job is due.
Tick ==
    /\ \A p \in Proc : pc[p] = "free"
    /\ \E j \in queue :
          /\ j.due > now
          /\ \A k \in queue : k.due > now => j.due <= k.due
          /\ now' = j.due
    /\ UNCHANGED <<tenant, sub, queue, since, triggers, faults, broken, pc, who, task, todo>>

Progress(p) ==
    \/ TriggerSub(p) \/ TriggerTenant(p) \/ TriggerList(p) \/ TriggerRemove(p) \/ TriggerAdd(p)
    \/ MilestoneCheck(p) \/ MilestoneStage(p) \/ MilestoneMail(p)
    \/ CancelSub(p) \/ CancelTenant(p)
    \/ ReactivateTenant(p) \/ ReactivateSub(p) \/ ReactivateList(p) \/ ReactivateRemove(p)
    \/ TrialSub(p) \/ TrialTenant(p)

Begin(p) ==
    \/ \E t \in Tenant : Trigger(p, t) \/ Reactivate(p, t)
    \/ \E j \in queue : Pick(p, j)
    \/ TrialCheck(p)

Overlap(t) == \E p, q \in Proc : p # q /\ Concerns(p, t) /\ Concerns(q, t)

Mark == raced' = raced \cup {t \in Tenant : Overlap(t)'}

Next ==
    /\ \/ \E p \in Proc : Begin(p) \/ Progress(p) \/ StepFails(p) \/ RemoveFails(p)
       \/ \E t \in Tenant : Webhook(t)
       \/ Crash
       \/ Tick
    /\ Mark

Spec == Init /\ [][Next]_vars

\* Awaits settle, workers poll the queue and time passes; whether payments fail,
\* customers pay, the cron runs or webhooks arrive is up to the environment.
FairSpec ==
    /\ Spec
    /\ \A p \in Proc : WF_vars(Progress(p) /\ Mark)
    /\ SF_vars(\E p \in Proc, j \in queue : Pick(p, j) /\ Mark)
    /\ SF_vars(Tick /\ Mark)

-----------------------------------------------------------------------------
\* The chat route's gate (handleChat): status past_due and dunning_stage >= 4.
ChatLocked(t) == tenant[t].status = "past_due" /\ tenant[t].stage >= 4

Idle(t) == \A p \in Proc : ~Concerns(p, t)

\* Dunning cancels nobody within 30 days of the last failed payment: once the
\* operations on a tenant are over, however they overlapped, no earlier schedule
\* has left a day-30 job behind.  A trigger that fails half way may leave one, and
\* so may a crash that queues again a job that was active during the trigger.
NoEarlyCancel ==
    \A j \in queue : j.day = 30 /\ Idle(j.tenant) /\ j.tenant \notin broken
          /\ (j.tenant \in raced => faults = 0) =>
        j.due >= since[j.tenant] + 30

\* Between operations a past-due tenant has a past-due subscription: the two
\* updates of each operation, none of them in a transaction, agree at its end
\* unless it failed or another one overlapped it; a cancellation a crash cut
\* short is still queued.  A job that two crashes cut short has failed.
SubFollowsTenant ==
    \A t \in Tenant \ (raced \cup broken) :
        Idle(t) /\ tenant[t].status = "past_due" =>
            \/ sub[t] = "past_due"
            \/ sub[t] = "canceled" /\ \E j \in queue : j.tenant = t /\ j.day = 30

\* A locked chat stays locked until the tenant leaves past_due or another payment
\* fails: milestones that run late, one after the other, do not undo each other's
\* stage.  (Side by side, or left over by a failed removal, they do.)
LockHolds ==
    [][\A t \in Tenant \ (raced \cup broken) : ChatLocked(t) /\ ~ChatLocked(t)' =>
          \/ tenant'[t].status # "past_due"
          \/ \E p \in Proc : pc[p] = "dueTenant" /\ who[p] = t]_vars

\* A tenant whose payment failed does not stay past due for ever: it pays, or the
\* milestones reach day 30 and cancel it, across crashes, unless an operation
\* failed, a milestone's worker died twice, or a reactivation that overlapped the
\* trigger removed its schedule.
PastDueEnds ==
    \A t \in Tenant : tenant[t].status = "past_due" /\ since[t] > 0 ~>
        tenant[t].status # "past_due" \/ t \in raced \cup broken

\* Past due with a canceled subscription is a passing state: the day-30 job that has
\* begun a cancellation is there to finish it.  (Its statement fails, or its worker
\* dies twice, and it is not.)
CancelTakenUp ==
    \A t \in Tenant \ raced :
        Idle(t) /\ tenant[t].status = "past_due" /\ sub[t] = "canceled" =>
            \E j \in queue : j.tenant = t /\ j.day = 30

\* "Lock chat after Day 14 grace period if tenant is past_due" (chat.routes.ts).
ChatLockedAfterGrace ==
    \A t \in Tenant : ChatLocked(t) => now >= since[t] + 14

\* "Check if tenant is still in past_due status": dunning cancels no tenant that
\* has become active again.
OnlyPastDueCanceled ==
    [][\A p \in Proc :
          pc[p] = "cancelTenant" /\ pc'[p] = "free" /\ tenant'[who[p]].status = "canceled" =>
              tenant[who[p]].status # "active"]_vars

=============================================================================
