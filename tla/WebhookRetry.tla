----------------------------- MODULE WebhookRetry -----------------------------
(***************************************************************************)
(* Payment webhooks of the tenant-api (services/webhookRetryService.ts and *)
(* the two routes that call it): a delivered event is stored in            *)
(* payment_webhooks and queued in BullMQ; a worker applies it, retries it  *)
(* after a delay, and after the last attempt marks it failed and adds it   *)
(* to the dead-letter queue.                                               *)
(*                                                                         *)
(* An event is a pair (provider, event_id).  A BullMQ job is named by its  *)
(* jobId: one name per event and attempt, and Queue.add does nothing while *)
(* a job of that name exists, finished ones included.  The handler's steps *)
(* between its awaits are states of the job.  A processing error is free;  *)
(* `faults' counts the errors of the database or of Redis that hit the     *)
(* code outside the handler's try, `crashes' the deaths of the process.    *)
(***************************************************************************)
EXTENDS Naturals, FiniteSets

CONSTANTS
    Event, Tenant,
    TenantOf,       \* metadata.tenantId of each event
    Effect,         \* what processWebhookPayload does for each event
    MaxAttempts,    \* 5 in the code
    MaxDeliveries,  \* bound: deliveries of one event by the provider
    MaxFaults,      \* bound on faults
    MaxCrashes      \* bound on crashes

ASSUME WebhookAssumption ==
    /\ TenantOf \in [Event -> Tenant]
    /\ Effect \in [Event -> {"active", "canceled", "none"}]
    /\ MaxAttempts \in Nat \ {0}
    /\ MaxDeliveries \in Nat /\ MaxFaults \in Nat /\ MaxCrashes \in Nat

VARIABLES
    row,        \* payment_webhooks.status of each event, "none" before the INSERT
    job,        \* the state of each job name in webhookRetryQueue
    stalls,     \* how often BullMQ has recovered the job from a dead worker
    arriving,   \* route handlers of the event between the INSERT and Queue.add
    deliveries, \* deliveries so far
    acked,      \* events the provider got a 200 for
    dlq,        \* events with an entry in webhookDeadLetterQueue
    status,     \* tenants.status
    faults, crashes

vars == <<row, job, stalls, arriving, deliveries, acked, dlq, status, faults, crashes>>
routeVars == <<arriving, deliveries, acked>>

Attempt == 1 .. MaxAttempts
Job == Event \X Attempt

\* A job's handler is working at one of these steps, or has returned or thrown
\* and BullMQ has yet to record it; a live job will still read or write the row.
Working == {"check", "apply", "mark", "setPending", "addRetry", "setFailed", "deadLetter"}
Running == Working \cup {"return", "throw"}
Live == Working \cup {"delayed", "waiting"}
Over == {"completed", "failed"}

TypeOK ==
    /\ row \in [Event -> {"none", "pending", "processed", "failed"}]
    /\ job \in [Job -> Live \cup Running \cup Over \cup {"none"}]
    /\ stalls \in [Job -> 0 .. 1]
    /\ arriving \in [Event -> 0 .. MaxDeliveries]
    /\ deliveries \in [Event -> 0 .. MaxDeliveries]
    /\ \A e \in Event : arriving[e] <= deliveries[e]
    /\ acked \subseteq Event
    /\ dlq \subseteq Event
    /\ status \in [Tenant -> {"active", "past_due", "canceled"}]
    /\ faults \in 0 .. MaxFaults
    /\ crashes \in 0 .. MaxCrashes

Init ==
    /\ row = [e \in Event |-> "none"]
    /\ job = [j \in Job |-> "none"]
    /\ stalls = [j \in Job |-> 0]
    /\ arriving = [e \in Event |-> 0]
    /\ deliveries = [e \in Event |-> 0]
    /\ acked = {}
    /\ dlq = {}
    /\ status \in [Tenant -> {"active", "past_due"}]
    /\ faults = 0
    /\ crashes = 0

Fault == faults < MaxFaults /\ faults' = faults + 1
NoFault == UNCHANGED faults

\* Mutant: no jobId, so a second delivery queues the event again.
BugAddTwice(j, s) == [job EXCEPT ![j] = s]

\* Mutant: the retry has the jobId of the first attempt, whose job is stored.
BugSameJobId(j, s) ==
    LET first == <<j[1], 1>> IN IF job[first] = "none" THEN [job EXCEPT ![first] = s] ELSE job

\* Queue.add(name): a new job, unless a job of that name is still stored.
Add(j, s) == IF job[j] = "none" THEN [job EXCEPT ![j] = s] ELSE job

-----------------------------------------------------------------------------
\* A route receives event e and upserts its row; an existing status is kept.
\* A failed INSERT is logged and answered 200.
Deliver(e) ==
    /\ deliveries[e] < MaxDeliveries
    /\ deliveries' = [deliveries EXCEPT ![e] = @ + 1]
    /\ \/ /\ row' = [row EXCEPT ![e] = IF @ = "none" THEN "pending" ELSE @]
          /\ arriving' = [arriving EXCEPT ![e] = @ + 1]
          /\ NoFault /\ UNCHANGED acked
       \/ /\ Fault
          /\ acked' = acked \cup {e}
          /\ UNCHANGED <<row, arriving>>
    /\ UNCHANGED <<job, stalls, dlq, status, crashes>>

\* The same handler's Queue.add, and the 200; a failed add is answered 200 too.
Enqueue(e) ==
    /\ arriving[e] > 0
    /\ arriving' = [arriving EXCEPT ![e] = @ - 1]
    /\ acked' = acked \cup {e}
    /\ \/ job' = Add(<<e, 1>>, "waiting") /\ NoFault
       \/ Fault /\ UNCHANGED job
    /\ UNCHANGED <<row, stalls, deliveries, dlq, status, crashes>>

-----------------------------------------------------------------------------
(* handleWebhookRetryJob for the job <<e, n>> *)

Goto(j, s) == job' = [job EXCEPT ![j] = s]

\* An await outside the try rejects: the job fails, and has no attempt left.
HandlerThrows(j) ==
    /\ Fault
    /\ Goto(j, "throw")
    /\ UNCHANGED <<row, stalls, routeVars, dlq, status, crashes>>

\* The delay is over; a worker picks the job up.
Due(e, n) ==
    /\ job[<<e, n>>] \in {"delayed", "waiting"}
    /\ Goto(<<e, n>>, IF job[<<e, n>>] = "delayed" THEN "waiting" ELSE "check")
    /\ UNCHANGED <<row, stalls, routeVars, dlq, status, faults, crashes>>

\* Mutant: no idempotency check.
BugNoIdempotency(e, n) ==
    /\ job[<<e, n>>] = "check"
    /\ Goto(<<e, n>>, "apply")
    /\ UNCHANGED <<row, stalls, routeVars, dlq, status, faults, crashes>>

\* The idempotency check.
Check(e, n) ==
    /\ job[<<e, n>>] = "check"
    /\ \/ /\ Goto(<<e, n>>, IF row[e] = "processed" THEN "return" ELSE "apply")
          /\ NoFault
          /\ UNCHANGED <<row, stalls, routeVars, dlq, status, crashes>>
       \/ HandlerThrows(<<e, n>>)

\* Where the catch goes: the next attempt, or the end.
OnError(n) == IF n < MaxAttempts THEN "setPending" ELSE "setFailed"

\* processWebhookPayload: the tenant's status, then a cache invalidation that
\* never rejects; or an error before anything is written.
Apply(e, n) ==
    /\ job[<<e, n>>] = "apply"
    /\ \/ /\ status' = [status EXCEPT ![TenantOf[e]] =
                           IF Effect[e] = "none" THEN @ ELSE Effect[e]]
          /\ Goto(<<e, n>>, "mark")
       \/ Goto(<<e, n>>, OnError(n)) /\ UNCHANGED status
    /\ UNCHANGED <<row, stalls, routeVars, dlq, faults, crashes>>

MarkProcessed(e, n) ==
    /\ job[<<e, n>>] = "mark"
    /\ \/ row' = [row EXCEPT ![e] = "processed"] /\ Goto(<<e, n>>, "return")
       \/ Goto(<<e, n>>, OnError(n)) /\ UNCHANGED row
    /\ UNCHANGED <<stalls, routeVars, dlq, status, faults, crashes>>

SetPending(e, n) ==
    /\ job[<<e, n>>] = "setPending"
    /\ \/ /\ row' = [row EXCEPT ![e] = "pending"]
          /\ Goto(<<e, n>>, "addRetry")
          /\ NoFault
          /\ UNCHANGED <<stalls, routeVars, dlq, status, crashes>>
       \/ HandlerThrows(<<e, n>>)

\* The next attempt is a job of its own, added with a delay.
AddRetry(e, n) ==
    /\ job[<<e, n>>] = "addRetry"
    /\ \/ /\ job' = [Add(<<e, n + 1>>, "delayed") EXCEPT ![<<e, n>>] = "return"]
          /\ NoFault
          /\ UNCHANGED <<row, stalls, routeVars, dlq, status, crashes>>
       \/ HandlerThrows(<<e, n>>)

\* Mutant: the last attempt returns before the dead-letter queue.
BugNoDeadLetter(e, n) ==
    /\ job[<<e, n>>] = "setFailed"
    /\ row' = [row EXCEPT ![e] = "failed"]
    /\ Goto(<<e, n>>, "return")
    /\ UNCHANGED <<stalls, routeVars, dlq, status, faults, crashes>>

SetFailed(e, n) ==
    /\ job[<<e, n>>] = "setFailed"
    /\ \/ /\ row' = [row EXCEPT ![e] = "failed"]
          /\ Goto(<<e, n>>, "deadLetter")
          /\ NoFault
          /\ UNCHANGED <<stalls, routeVars, dlq, status, crashes>>
       \/ HandlerThrows(<<e, n>>)

DeadLetter(e, n) ==
    /\ job[<<e, n>>] = "deadLetter"
    /\ \/ /\ dlq' = dlq \cup {e}
          /\ Goto(<<e, n>>, "return")
          /\ NoFault
          /\ UNCHANGED <<row, stalls, routeVars, status, crashes>>
       \/ HandlerThrows(<<e, n>>)

\* BullMQ moves the job to its completed or its failed set.
Record(e, n) ==
    /\ job[<<e, n>>] \in {"return", "throw"}
    /\ Goto(<<e, n>>, IF job[<<e, n>>] = "return" THEN "completed" ELSE "failed")
    /\ UNCHANGED <<row, stalls, routeVars, dlq, status, faults, crashes>>

JobStep(e, n) ==
    \/ Due(e, n) \/ Check(e, n) \/ Apply(e, n) \/ MarkProcessed(e, n)
    \/ SetPending(e, n) \/ AddRetry(e, n) \/ SetFailed(e, n) \/ DeadLetter(e, n)
    \/ Record(e, n)

-----------------------------------------------------------------------------
\* removeOnComplete (a day) and removeOnFail (a week) of the first job; the retry
\* jobs have neither option and stay.  The delays of all retries sum to 5 h 20
\* min, so the chain is over by then: the guard assumes no outage of 18 hours.
Expire(e) ==
    /\ job[<<e, 1>>] \in Over
    /\ \A n \in Attempt : job[<<e, n>>] \notin Live \cup Running
    /\ Goto(<<e, 1>>, "none")
    /\ stalls' = [stalls EXCEPT ![<<e, 1>>] = 0]
    /\ UNCHANGED <<row, routeVars, dlq, status, faults, crashes>>

\* Mutant: stalled jobs are recovered without a limit.
BugStallForever ==
    /\ crashes < MaxCrashes
    /\ crashes' = crashes + 1
    /\ arriving' = [e \in Event |-> 0]
    /\ job' = [j \in Job |-> IF job[j] \in Running THEN "waiting" ELSE job[j]]
    /\ stalls' = [j \in Job |-> IF job[j] \in Running THEN stalls[j] + 1 ELSE stalls[j]]
    /\ UNCHANGED <<row, deliveries, acked, dlq, status, faults>>

\* The process dies: requests in flight are lost; BullMQ finds the running jobs
\* stalled and queues each again once (maxStalledCount), then fails it.
Crash ==
    /\ crashes < MaxCrashes
    /\ crashes' = crashes + 1
    /\ arriving' = [e \in Event |-> 0]
    /\ job' = [j \in Job |-> IF job[j] \notin Running THEN job[j]
                             ELSE IF stalls[j] = 0 THEN "waiting" ELSE "failed"]
    /\ stalls' = [j \in Job |-> IF job[j] \in Running THEN 1 ELSE stalls[j]]
    /\ UNCHANGED <<row, deliveries, acked, dlq, status, faults>>

Next ==
    \/ \E e \in Event : Deliver(e) \/ Enqueue(e) \/ Expire(e)
    \/ \E e \in Event, n \in Attempt : JobStep(e, n)
    \/ Crash

Spec == Init /\ [][Next]_vars

\* Handlers and workers go on; deliveries, expiry and crashes need not happen.
FairSpec ==
    /\ Spec
    /\ \A e \in Event : WF_vars(Enqueue(e))
    /\ \A e \in Event, n \in Attempt : WF_vars(JobStep(e, n))

-----------------------------------------------------------------------------
LiveJobs(e) == {n \in Attempt : job[<<e, n>>] \in Live}

\* However often the provider redelivers an event, at most one of its jobs is
\* queued, delayed or at work: the jobId keeps two workers off one event.  A
\* crash between AddRetry and Record is what breaks it.
OneLiveJob ==
    crashes = 0 => \A e \in Event : \A m, n \in LiveJobs(e) : m = n

\* While no worker has died, an event once processed stays so, and no later
\* delivery or retry gets past the idempotency check to apply it a second time.
ProcessedIsFinal ==
    [][\A e \in Event : row[e] = "processed" /\ crashes' = 0 =>
          /\ row'[e] = "processed"
          /\ \A n \in Attempt : job'[<<e, n>>] \in Working => job'[<<e, n>>] = "check"]_vars

\* The dead-letter queue misses no failed event, a crash between the row update
\* and the add included: the event is there or the job that adds it still runs.
FailedIsDeadLettered ==
    \A e \in Event : row[e] = "failed" =>
        e \in dlq \/ LiveJobs(e) # {} \/ faults > 0 \/ crashes > 1

\* An acknowledged event reaches its first verdict, processed or failed, whatever
\* its processing does, unless the queueing itself failed or a process died.
EveryEventSettles ==
    \A e \in Event :
        e \in acked /\ e \notin dlq ~>
            row[e] \in {"processed", "failed"} \/ faults > 0 \/ crashes > 0

\* "Idempotency Check: Verify if event is already processed": a processed event
\* stays processed, crashes or not.
NeverReprocessed ==
    [][\A e \in Event : row[e] = "processed" => row'[e] = "processed"]_vars

\* "Re-enqueue job with exponential delay": an acknowledged event that is still
\* pending has a job that will take it up.
PendingHasJob ==
    \A e \in acked : row[e] = "pending" => LiveJobs(e) # {} \/ arriving[e] > 0

=============================================================================
