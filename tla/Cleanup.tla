-------------------------------- MODULE Cleanup --------------------------------
(***************************************************************************)
(* Data retention in the tenant-api: executeDatabaseCleanup in             *)
(* services/cleanupService.ts, run by the cleanup worker that every server *)
(* starts (workers/scheduler.ts), under a lock in Redis.                   *)
(*                                                                         *)
(* Time is not counted.  The lock's one hour is the action LockExpires, so *)
(* a run may outlast it.  A lock read by GET is younger than its TTL of    *)
(* one hour: the branch for a lock older than two hours cannot be reached. *)
(* Legal holds, soft deletions and downgrades are written by no code of    *)
(* the repository: they come from outside, at any time.  No code adds a    *)
(* job with data.force.  cleanup:last_run lets a startup leave out its job *)
(* for a day, or as long as Redis fails: a startup adds one or none.       *)
(* cleanup:consecutive_failures and cleanup:failed_at only feed a log      *)
(* line.  The awaits that write these keys are steps like any other.       *)
(***************************************************************************)
EXTENDS Naturals, FiniteSets

CONSTANTS
    Server,     \* tenant-api processes, each with one worker (concurrency 1)
    Tenant,
    Kept,       \* tenants whose plan keeps conversations for ever
    NoServer,
    NoTenant,
    MaxJobs,    \* bound: waiting jobs the cron and the startups add
    MaxFaults,  \* bound: failed awaits and deaths of a server, together
    MaxCrashes  \* bound: deaths of a server; BullMQ recovers a job once, so at most 1

ASSUME CleanupAssumption ==
    /\ Kept \subseteq Tenant
    /\ NoServer \notin Server /\ NoTenant \notin Tenant
    /\ MaxJobs \in Nat /\ MaxFaults \in Nat /\ MaxCrashes \in 0 .. 1

VARIABLES
    lock,       \* whose stamp cleanup:lock holds
    waiting,    \* jobs in cleanupQueue
    pc, who, todo,              \* each server's run: step, job, tenant, worklist
    status,     \* tenants.status, "deleted" once deleted_at is 30 days old
    data,       \* rows a cleanup may remove: see Kind
    hold,       \* tenants with a legal hold of status 'active'
    faults, crashes,
    covered,    \* history: tenants on hold ever since a server's run began
    late,       \* history: servers whose run has outlived its lock
    astray      \* history: somebody deleted a lock that was not theirs

dbVars == <<status, data, hold>>
runVars == <<pc, who, todo>>
boundVars == <<faults, crashes>>
history == <<covered, late, astray>>
vars == <<lock, waiting, runVars, dbVars, boundVars, history>>

Steps == {"down", "idle", "get", "set", "sweep", "hold", "delete", "purge", "grace",
          "stamp", "unlock", "count", "unlockFailed"}
\* Runs between the lock and the end of the deletions.
Sweeping == {"sweep", "hold", "delete", "purge", "grace"}
Working == Steps \ {"down", "idle", "get", "set"}

\* Old conversations, soft-deleted rows, and what is swept: activity logs of 90
\* days, sessions that have ended, invoices of seven years.
Kind == {"old", "trash", "swept"}

TypeOK ==
    /\ lock \in Server \cup {NoServer}
    /\ waiting \in Nat
    /\ pc \in [Server -> Steps]
    /\ who \in [Server -> Tenant \cup {NoTenant}]
    /\ todo \in [Server -> SUBSET Tenant]
    /\ status \in [Tenant -> {"active", "suspended", "deleted"}]
    /\ data \in [Tenant -> SUBSET Kind]
    /\ hold \subseteq Tenant
    /\ faults \in 0 .. MaxFaults
    /\ crashes \in 0 .. MaxCrashes
    /\ covered \in [Server -> SUBSET Tenant]
    /\ late \subseteq Server
    /\ astray \in BOOLEAN

Init ==
    /\ lock = NoServer
    /\ waiting = 0
    /\ pc = [s \in Server |-> "down"]
    /\ who = [s \in Server |-> NoTenant]
    /\ todo = [s \in Server |-> {}]
    /\ status = [t \in Tenant |-> "active"]
    /\ data = [t \in Tenant |-> Kind]
    /\ hold \in SUBSET Tenant
    /\ faults = 0 /\ crashes = 0
    /\ covered = [s \in Server |-> {}]
    /\ late = {}
    /\ astray = FALSE

-----------------------------------------------------------------------------
Goto(s, l) ==
    /\ pc' = [pc EXCEPT ![s] = l]
    /\ UNCHANGED <<who, todo>>

\* The run goes on at l with the tenant t and the worklist w.
Continue(s, l, t, w) ==
    /\ pc' = [pc EXCEPT ![s] = l]
    /\ who' = [who EXCEPT ![s] = t]
    /\ todo' = [todo EXCEPT ![s] = w]

\* executeDatabaseCleanup returns.
Return(s) ==
    /\ Continue(s, "idle", NoTenant, {})
    /\ covered' = [covered EXCEPT ![s] = {}]
    /\ late' = late \ {s}

\* DEL cleanup:lock, whoever holds it.
Unlock(s) ==
    /\ lock' = NoServer
    /\ astray' = (astray \/ lock \notin {s, NoServer})

AddJob ==
    /\ waiting < MaxJobs
    /\ waiting' = waiting + 1

-----------------------------------------------------------------------------
\* startAll: a startup cleanup unless the last one was within 23 hours.
Boot(s) ==
    /\ pc[s] = "down"
    /\ \/ AddJob
       \/ UNCHANGED waiting    \* a recent run, a failure of Redis, or MaxJobs
    /\ Goto(s, "idle")
    /\ UNCHANGED <<lock, dbVars, boundVars, history>>

\* Mutant: a run without a job.
BugTakeNothing(s) ==
    /\ pc[s] = "idle"
    /\ waiting' = waiting - 1
    /\ Goto(s, "get")
    /\ covered' = [covered EXCEPT ![s] = hold]
    /\ UNCHANGED <<lock, dbVars, boundVars, late, astray>>

\* The worker takes a job and calls executeDatabaseCleanup.
Take(s) ==
    /\ pc[s] = "idle"
    /\ waiting > 0
    /\ waiting' = waiting - 1
    /\ Goto(s, "get")
    /\ covered' = [covered EXCEPT ![s] = hold]
    /\ UNCHANGED <<lock, dbVars, boundVars, late, astray>>

\* GET: skip when there is a lock.
ReadLock(s) ==
    /\ pc[s] = "get"
    /\ \/ lock # NoServer /\ Return(s)
       \/ lock = NoServer /\ Goto(s, "set") /\ UNCHANGED <<covered, late>>
    /\ UNCHANGED <<lock, waiting, dbVars, boundVars, astray>>

\* Mutant: SET without NX.
BugSetWithoutNX(s) ==
    /\ pc[s] = "set"
    /\ lock' = s
    /\ Goto(s, "sweep")
    /\ UNCHANGED <<waiting, dbVars, boundVars, history>>

\* SET ... NX EX 3600: skip when another server was faster.
AcquireLock(s) ==
    /\ pc[s] = "set"
    /\ \/ lock # NoServer /\ Return(s) /\ UNCHANGED lock
       \/ lock = NoServer /\ lock' = s /\ Goto(s, "sweep") /\ UNCHANGED <<covered, late>>
    /\ UNCHANGED <<waiting, dbVars, boundVars, astray>>

\* Activity logs, sessions and invoices, in batches that look at no tenant and no
\* hold; then the tenants whose conversations are looked at.
Sweep(s) ==
    /\ pc[s] = "sweep"
    /\ data' = [t \in Tenant |-> data[t] \ {"swept"}]
    /\ \/ UNCHANGED runVars
       \/ Continue(s, "hold", NoTenant, {t \in Tenant : status[t] = "active"})
    /\ UNCHANGED <<lock, waiting, status, hold, boundVars, history>>

\* The next listed tenant: passed over on hold, or when its plan keeps all.
CheckHold(s) ==
    /\ pc[s] = "hold"
    /\ \/ todo[s] = {} /\ Goto(s, "purge")
       \/ \E t \in todo[s] :
             IF t \in hold \cup Kept
               THEN Continue(s, "hold", NoTenant, todo[s] \ {t})
               ELSE Continue(s, "delete", t, todo[s] \ {t})
    /\ UNCHANGED <<lock, waiting, dbVars, boundVars, history>>

\* One batch of the checked tenant's old conversations; a full batch is followed
\* by another.
DeleteOld(s) ==
    /\ pc[s] = "delete"
    /\ \/ /\ data' = [data EXCEPT ![who[s]] = @ \ {"old"}]
          /\ Continue(s, "hold", NoTenant, todo[s])
       \/ UNCHANGED <<data, runVars>>
    /\ UNCHANGED <<lock, waiting, status, hold, boundVars, history>>

\* Mutant: hard deletes that do not exclude the tenants on hold.
BugPurgeAll(s) ==
    /\ pc[s] = "purge"
    /\ data' = [t \in Tenant |-> IF status[t] = "deleted" THEN {} ELSE data[t] \ {"trash"}]
    /\ Goto(s, "grace")
    /\ UNCHANGED <<lock, waiting, status, hold, boundVars, history>>

\* One of the hard deletes of soft-deleted tenants (and all that refers to them),
\* users, conversations and messages: each leaves out the tenants on hold itself.
Purge(s) ==
    /\ pc[s] = "purge"
    /\ data' = [t \in Tenant |-> IF t \in hold THEN data[t]
                                 ELSE IF status[t] = "deleted" THEN {}
                                 ELSE data[t] \ {"trash"}]
    /\ Goto(s, "purge") \/ Goto(s, "grace")
    /\ UNCHANGED <<lock, waiting, status, hold, boundVars, history>>

\* Tenants that were active and 14 days past their downgrade's grace period.
Suspend(s) ==
    /\ pc[s] = "grace"
    /\ \E overdue \in SUBSET Tenant :
          status' = [t \in Tenant |-> IF t \in overdue /\ status[t] = "active"
                                      THEN "suspended" ELSE status[t]]
    /\ Goto(s, "stamp")
    /\ UNCHANGED <<lock, waiting, data, hold, boundVars, history>>

\* SET cleanup:last_run and the failures to 0.
StampLastRun(s) ==
    /\ pc[s] = "stamp"
    /\ Goto(s, "unlock")
    /\ UNCHANGED <<lock, waiting, dbVars, boundVars, history>>

ReleaseLock(s) ==
    /\ pc[s] \in {"unlock", "unlockFailed"}
    /\ Unlock(s)
    /\ Return(s)
    /\ UNCHANGED <<waiting, dbVars, boundVars>>

\* An await rejects.  In the body: the catch.  In the catch: the return, with the
\* lock left to expire.
StepFails(s) ==
    /\ pc[s] \in Working \cup {"get", "set"}
    /\ faults + crashes < MaxFaults
    /\ faults' = faults + 1
    /\ IF pc[s] \in {"count", "unlockFailed"}
         THEN Return(s)
         ELSE Continue(s, "count", NoTenant, {}) /\ UNCHANGED <<covered, late>>
    /\ UNCHANGED <<lock, waiting, dbVars, crashes, astray>>

\* INCR cleanup:consecutive_failures.
CountFailure(s) ==
    /\ pc[s] = "count"
    /\ Goto(s, "unlockFailed")
    /\ UNCHANGED <<lock, waiting, dbVars, boundVars, history>>

-----------------------------------------------------------------------------
\* BullMQ queues the job of a dead worker again.
Crash(s) ==
    /\ pc[s] # "down"
    /\ crashes < MaxCrashes /\ faults + crashes < MaxFaults
    /\ crashes' = crashes + 1
    /\ waiting' = IF pc[s] = "idle" THEN waiting ELSE waiting + 1
    /\ Continue(s, "down", NoTenant, {})
    /\ covered' = [covered EXCEPT ![s] = {}]
    /\ late' = late \ {s}
    /\ UNCHANGED <<lock, dbVars, faults, astray>>

\* Mutant: SET without EX, a lock that never expires.
BugNoExpiry == FALSE

LockExpires ==
    /\ lock # NoServer
    /\ lock' = NoServer
    /\ late' = late \cup {s \in Server : lock = s /\ pc[s] \in Working}
    /\ UNCHANGED <<waiting, runVars, dbVars, boundVars, covered, astray>>

\* The repeatable job of 3:00.
Daily ==
    /\ AddJob
    /\ UNCHANGED <<lock, runVars, dbVars, boundVars, history>>

\* What others do to the tables.
PlaceHold(t) ==
    /\ t \notin hold
    /\ hold' = hold \cup {t}
    /\ UNCHANGED <<lock, waiting, runVars, status, data, boundVars, history>>

LiftHold(t) ==
    /\ t \in hold
    /\ hold' = hold \ {t}
    /\ covered' = [s \in Server |-> covered[s] \ {t}]
    /\ UNCHANGED <<lock, waiting, runVars, status, data, boundVars, late, astray>>

\* Rows come of age; a tenant is soft-deleted.
Age(t) ==
    /\ status[t] # "deleted"
    /\ \/ \E d \in Kind \ data[t] : data' = [data EXCEPT ![t] = @ \cup {d}]
          /\ UNCHANGED status
       \/ status' = [status EXCEPT ![t] = "deleted"] /\ UNCHANGED data
    /\ UNCHANGED <<lock, waiting, runVars, hold, boundVars, history>>

Progress(s) ==
    \/ Boot(s) \/ Take(s) \/ ReadLock(s) \/ AcquireLock(s)
    \/ CheckHold(s) \/ Suspend(s)
    \/ StampLastRun(s) \/ ReleaseLock(s) \/ CountFailure(s)

Batch(s) == Sweep(s) \/ DeleteOld(s) \/ Purge(s)

Next ==
    \/ \E s \in Server : Progress(s) \/ Batch(s) \/ StepFails(s) \/ Crash(s)
    \/ LockExpires \/ Daily
    \/ \E t \in Tenant : PlaceHold(t) \/ LiftHold(t) \/ Age(t)

Spec == Init /\ [][Next]_vars

\* Awaits settle, workers poll, batches come to an end, the container restarts,
\* Redis expires keys and the cron fires every day.
FairSpec ==
    /\ Spec
    /\ \A s \in Server : WF_vars(Progress(s)) /\ WF_vars(Batch(s) /\ pc'[s] # pc[s])
    /\ WF_vars(LockExpires)
    /\ SF_vars(Daily)

-----------------------------------------------------------------------------
\* Two runs are at the tables together only when one has outlived the lock it set,
\* or after somebody deleted another's lock: the GET alone would let both in, the
\* NX does not.
RunsExclude ==
    \A r, s \in Server :
        r # s /\ {pc[r], pc[s]} \subseteq Sweeping => astray \/ {r, s} \cap late # {}

\* No statement removes a row of a tenant on hold, but the batches of logs, sessions
\* and invoices, which look at no hold, and, of conversations, a batch of a run that
\* passed the check before the hold: the hold is looked at once, the batches and the
\* hard deletes come later, and other runs are under way (cleanupService.ts:99-231).
HoldsRespected ==
    [][\A t \in hold : LET gone == data[t] \ data'[t] IN
          \/ gone = {}
          \/ gone = {"swept"} /\ \E s \in Server : pc[s] = "sweep"
          \/ gone = {"old"} /\ \E s \in Server : pc[s] = "delete" /\ who[s] = t /\ t \notin covered[s]]_vars

\* A hold keeps all its tenant has, but for such late batches.  It does not: the
\* three statements at the beginning of a run never look at legal_holds
\* (cleanupService.ts:101-127).
HoldKeepsAll ==
    [][\A t \in hold : data[t] \subseteq data'[t] \/ \E s \in Server : pc[s] = "delete" /\ who[s] = t]_vars

\* The retention rules are carried out again and again, whatever locks dead or
\* failed runs leave behind: what is swept always goes, and old conversations do but
\* for tenants that are, again and again, on hold or not active.
RetentionEnforced ==
    \A t \in Tenant : /\ []<>("swept" \notin data[t])
                      /\ []<>("old" \notin data[t] \/ t \in hold \cup Kept \/ status[t] # "active")

=============================================================================
