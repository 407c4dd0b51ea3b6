# A TLA+ model of n8n_selfhosting

The repository holds two products that share a server: a control plane that rents
out n8n containers (`src/backend`, with the front ends `src/admin` and `src/app`),
and Harikson, a multi-tenant AI assistant (`src/harikson`), whose `tenant-api`
serves the tenants and whose `backend` is the operator's API. This directory
models the parts where order, overlap and failure decide what happens, checks the
models with TLC and proves the most important properties with TLAPS.

Paths below are relative to `src/harikson/tenant-api/src/` unless they begin with
`src/`.

## 1. Inventory

### The tenant-api

| component | code | state | operations |
|---|---|---|---|
| database access | `db/pool.ts`; private `executeQuery` in `workers/scheduler.ts`, `services/agents/orchestrator.ts`, `services/indexer/repository-indexer.ts`, `services/search/vector-search.ts`, `services/rag.service.ts`, `services/tools/executor.ts`, `services/context/context-builder.ts`, `services/memory/store.ts` | pooled sessions with `app.current_tenant`, wrapped `client.query` | checkout with validation and back-off, set / assert / clear the context, release |
| payment webhooks | `services/webhookRetryService.ts`, `routes/billing.routes.ts` | `payment_webhooks`, two BullMQ queues, `tenants.status` | deliver, enqueue, process, retry, dead-letter |
| dunning and trials | `services/dunningService.ts`, `services/trialService.ts`, chat gate in `routes/chat.routes.ts` | `tenants.status` and `metadata.dunning_stage`, `subscriptions.status`, `dunningQueue` | trigger, milestone, cancel, reactivate, trial check |
| data retention | `services/cleanupService.ts`, cleanup worker in `workers/scheduler.ts` | `cleanup:lock`, `cleanup:last_run`, all tables with retention rules, `legal_holds` | lock, sweep, check the hold, batch deletes, hard deletes, suspend |
| plan changes, query cache | `services/prorationService.ts`, `routes/billing.routes.ts`, `db/pool.ts` 247-348 | subscriptions, invoices, `account_credit`, Redis keys | prorate, change the plan, preview from the cache, invalidate |
| authentication | `routes/auth.routes.ts`, `services/twoFactorService.ts`, `routes/user.routes.ts` | refresh-token families, lockout counters, backup codes, reset tokens | register, login, 2FA, refresh, logout, revoke, reset |
| chat and its workers | `routes/chat.routes.ts`, memory and summarizer workers in `workers/scheduler.ts`, `services/memory/*` | conversations, messages, memories, summaries, BullMQ jobs, a Redis set of processed messages | chat, poll, extract, save, mark, summarize |
| repository indexer | `services/indexer/*`, watcher in `workers/scheduler.ts`, `api/routes/indexer.ts`, `services/indexer/cli.ts` | `file_index_state`, `file_chunks`, running jobs, the watcher's timer | scan, compare, replace chunks, clean up, watch |
| agents and tools | `services/agents/orchestrator.ts`, `services/tools/*`, `api/routes/orchestrator-routes.ts`, `api/routes/tools.ts` | `task_plans`, `tool_executions`, a shared workspace | plan, run steps, reject and rework, call tools, conclude, answer |
| context and search | `services/context/*`, `services/search/vector-search.ts`, `services/memory/retriever.ts`, `api/routes/context.ts`, `search.ts`, `memory.ts` | `file_chunks`, `memories`, the conversation | search, join passages, rank, build a prompt within token budgets |
| documents and RAG | `services/rag.service.ts`, `routes/document.routes.ts`, `routes/documents.ts` | documents and their chunks | upload, search, download |
| migrations | `utils/migrate.ts`, `migrations/*` | the `migrations` table | apply in order |

They meet in PostgreSQL (`tenants.status` is written by webhooks, dunning, trials,
cleanup and the admin API), in Redis (BullMQ jobs, locks, caches) and in the one
connection pool that all of them draw from.

### The others

- `src/backend`: accounts (`routes/users.ts`, `routes/auth.ts`: sign-up, approve,
  suspend, unsuspend, delete) and instances (`services/docker.service.ts`,
  `routes/instances.ts`: create, start, stop, restart, scale); the state is rows in
  PostgreSQL beside containers, volumes and ports in Docker, which no transaction
  ties together. Around them invoices (`services/invoice.service.ts`,
  `routes/billing.ts`), three repeatable jobs (`jobs/`: monthly billing, nightly
  backup, metrics) and a script that makes lost containers again
  (`reprovision-existing.ts`).
- `src/harikson/backend`: sign-up, payment, approval and deployment of tenants
  (`services/billing.service.ts`, `routes/tenants.ts`); it swallows Docker errors.
- `src/admin`, `src/app`, `src/harikson/ide-*`, `model-builder`, scripts,
  monitoring: front ends, forwarding, configuration. No model.

### What is hard here

Nothing but single statements is atomic: operations are sequences of awaits, and
several of them run at once (HTTP requests, up to five jobs of one worker, several
servers). Any await may reject; the process may die between two of them, and
BullMQ then runs a stalled job once more. Providers deliver events twice. Redis
keys expire while their owner still works. A connection's session outlives the
request that used it. `PROJECT.json` lists each hazard at its line with the
properties that cover it, or why none does.

### What makes each component correct

- database access: a callback sees its own tenant only; connections are not lost;
  every request ends.
- webhooks: an event is applied by one worker at a time, stays processed, gets a
  verdict, and is dead-lettered when it failed.
- dunning: no early cancellation; tenant and subscription agree; the lock on the
  chat holds; nobody stays past due for ever.
- retention: one run at a time; the deletes that look at legal holds keep to them; the
  rules go on being applied.
- plan changes: what several changes charge and credit adds up to the difference of
  the first and the last plan; tenant, subscription and provider name one plan.
- authentication: a session that ended stays ended; a browser that keeps its cookie
  keeps its session, and a family has one live token; a user is asked for the second
  factor he proved to have, and for no other.
- chat and workers: a message gives its fact once; every message and every long
  conversation is some time dealt with.
- indexer: the two tables agree file by file, and a workspace that comes to rest is
  indexed as it is.
- agents: a plan that is complete was run in order and its last change tested; a row
  is concluded once and before the answer.
- context and search: a passage is what the file says; a prompt fits its window.
- provisioning: rows and containers agree when the requests are over; a repeated
  attempt repairs a failed one; containers do not outlive their rows.
- hosting: one invoice a month, paid once; a limit in the row is the container's; a job
  that is due ends, and one item's failure costs no other item its turn.

## 2. Modules

| module | models | run |
|---|---|---|
| `TenantPool` | `connectWithValidation`, `executeTenantQuery`, `executeQuery`, raw queries, node-postgres' release | `pool` |
| `WebhookRetry` | the webhook routes, the retry worker, BullMQ's jobIds | `webhooks` |
| `Dunning` | dunning, reactivation, trials, the webhooks' effect, the chat gate | `dunning` |
| `Cleanup` | the cleanup job on several servers | `cleanup` |
| `PlanChange` | `/change-plan`, proration, the price preview and its cache | `plan_change` |
| `Sessions` | registration, sign-in, 2FA, refresh families, sign-out, reset | `sessions` |
| `Conversations` | chat requests, the memory and summarizer workers | `conversations` |
| `Indexing` | the indexer, its watcher, route and command line | `indexing` |
| `Agents` | the orchestrator and its tools | `agents` |
| `PlanLife` | abstract: what a client may expect of a row of `task_plans`; `Agents` implements it | `agents` |
| `Prompt` | search, joining, ranking, budgets, building of a prompt | `prompt` |
| `Provisioning` | users, instances and Docker containers of the control plane | `provisioning` |
| `Hosting` | its invoices, payments, scheduled jobs, resource limits | `hosting` |
| `..._proofs` | proofs about `TenantPool`, `WebhookRetry`, `Dunning`, `PlanChange`, `Sessions`, `Provisioning`, `Hosting` | |
| `Workers_proofs` | proofs about `Indexing` (extended), `Cleanup` (as its instance `Sweeps`), `Conversations` (as `Chats`) and `Agents` (as `Plans`) | |
| `MC...` | the small instances | |

The definitions named `Bug...` are mutants: each is a plausible mistake in the
definition that follows it and is not part of the model. `PROJECT.json` pairs each
property with the mutant that TLC must find to violate it.

Many models have history variables, which the code does not have: they record
which accounts, files, conversations two operations overlapped on or a fault cut
short. The code keeps several of its promises only outside of such windows; a
property says which of them it excepts, and nothing more.

### TenantPool

State: per slot of the pool whether it is connected, idle or checked out
(`place`), the session's `app.current_tenant` (`ctx`), pg's `_queryable`
(`healthy`) and the depth of tracing wrappers (`wraps`); per request its step,
usage, tenant, client and remaining retries. A request picks one of three usages:
`"tenant"` (`executeTenantQuery`), `"copy"` (`executeQuery`, the same lines in eight
files) and `"raw"` (`pool.query`, `checkDbHealth`). Each await is an action; each
query may fail with the session alive or dead. `connect()` rejects at any time,
which covers the time-out with every slot busy. `pool` and `readPool` are two
instances of the module: the choice between them has no effect on either.

The SQL functions `set_tenant_context` and `assert_tenant_context` are not defined
by any migration of the repository; they are modelled from their use, as setting
and checking `app.current_tenant`. `connectWithValidation` keeps its variable
`client` across iterations and may release a discarded client again; node-postgres
throws, the code ignores it, and the model has no step for it. The first branch of its
catch (116-118, no client and no retries left) cannot be reached, as the loop ends
before: `FailAttempt` leaves it out.

### WebhookRetry

State: the row's status per event, the state of each job name (event and attempt,
as in the jobId), BullMQ's stall counts, handlers of the route between the INSERT
and the add, deliveries and acknowledgements, the dead-letter queue and the
tenant's status. The handler's awaits are states of the job. `Add` does nothing
while a job of that name is stored: that is how BullMQ treats a jobId, finished
jobs included. `Expire` is `removeOnComplete` / `removeOnFail` of the first job;
the retry jobs have neither.

### Dunning

State: status and stage of each tenant, status of its subscription, the jobs of
`dunningQueue`, the day, and for each concurrent activity its step, tenant, job and
worklist. The day moves only to the next due milestone and only while no operation
is under way: operations take seconds, milestones days. A worker may nevertheless
be late by any time, since a due job need not be taken at once. `raced` and
`broken` are history variables: the tenants two operations overlapped on, and those
an operation was cut short on. The code keeps its promises only outside of them,
and the properties say which one excludes what. A milestone has one attempt, so a
failed statement ends it; when its worker dies it is queued again once, and at a second
stall BullMQ fails it (`maxStalledCount`). Either way its tenant is broken.

`triggerSubscriptionDunning` and `checkTrialExpirations` are called by the tests
only; the model lets the environment call them. `Webhook` is the tenant update of
`processWebhookPayload`: it leaves subscription, stage and jobs alone.

### Cleanup

State: whose lock `cleanup:lock` is, waiting jobs, each server's run, and per tenant its status, removable rows and legal hold.
Time is not counted: `LockExpires` may happen whenever there is a lock, so runs may
outlast it. `covered`, `late` and `astray` are history variables: tenants on hold
since a run began, runs that outlived their lock, and that somebody deleted a lock
that was not theirs (the DELs of lines 271 and 283 do not check). The branch for a
lock older than two hours cannot be reached, as its TTL is one hour. No code of the
repository writes `legal_holds`, `deleted_at` or `downgrade_grace_ends`: these are
inputs. `legal_holds.expires_at` is read by nothing. `cleanup:last_run` is no variable: it
lets a startup add its job or not, and `Boot` does either.

Removable rows are of three kinds: `old` conversations, the soft-deleted `trash`, and what
is `swept` (activity logs, sessions, invoices). `Sweep` deletes the last without a look at
`legal_holds`, for tenants on hold as well. `HoldsRespected` therefore speaks of the other two
kinds and names the sweep as its exception; that a hold keeps everything is
`HoldKeepsAll`, which the code does not keep (see "Where the code differs").

### PlanChange

State: the subscription's plan and status, `tenants.plan`, the credit, the sum of
paid invoices, the plan Stripe charges for, the days left, the cached copies of the
subscription row, and per request its step, what it read and the amount it
computed. `POST /change-plan` reads and then is `TellStripe`, `Invoice`, `Tenant`,
`Subscription`, `Invalidate`, one action per statement; `Abort` is a failed statement
or a crash at any of them. A preview is `Query` and `Store`, as `executeCachedQuery`
has an await between the two, and it works on the cached row while there is one.
Amounts are whole cents and the rounding of the proration is the code's.

History: `base` (balance and plan when the day's changes began), `even` (since then
one change after the other without a fault), `split` (a change left the three plans
apart). A change of a tenant that is past due finds no subscription: it charges the
full price and leaves the subscription's plan. The checkout webhook sets
`tenants.status` only and is not an action here.

### Sessions

State: the row of each account with its counters and secrets, every refresh token
issued, those in the table and those past `expires_at`, the cookie of each browser,
and per request its step and what it has read. Each statement of a route is an
action: a refresh is `Refresh` (find the token of the cookie), then `Rotate` (delete it),
`InsertToken` and `RespondRefresh`, or `DropExpired`, or, from a browser that has moved,
`DropFamily`. `Abort` is a failed statement, a crash, or a response that is lost. Durations are events: a token, a lock, a reset link runs out.

History: `ended` (families signed out, revoked, dropped or reset), `frayed` (families
an overlap or a fault has split), `confirmed` (the secret each user last proved to
have), `mixed` (users whose 2FA requests overlapped). The model keeps what the code
does and one would not expect: 2FA verification stores no backup codes; login takes
the object that `verifyBackupCode` returns for a truth value; a failed backup code
clears a login lock; a double submission of the verification enables 2FA without a
secret (it is what `mixed` excepts); registration has no transaction. Nothing in
`src/` sets `req.user`: the model takes an authenticated request for granted.

### Conversations

State: the conversations, their messages in order, the chat requests, the summaries,
the memory worker of each server, the extract and summarize jobs, BullMQ's stall
counts, the Redis set of processed messages, and how many facts each message gave.
A chat request is `Chat`, `SaveUser`, `SaveReply` or `ReplyFails`; in a stream a
failed save of the reply is an unhandled rejection and the process dies. The memory
worker is `Poll`, `PollRow` (one look at the set and one add per message), `Take`,
`Check`, `Generate`, `Save`, `Mark`. A stored job keeps a second one of its jobId out;
it is removed, when it is a day old, by a later job's end. A job whose server died
is run again once; the second time it has failed. `Save` has three outcomes: the fact is
there; it is not; or its INSERT took effect and the clearing of the session's context
after it failed, so that `MemoryStore.save` throws, the extractor logs, and the job
completes without the mark. Such a message is polled again when its job is forgotten, and
its fact saved a second time. A summary being inserted dies with its server.

History: `handled` (facts were asked for), `lost` (a fault kept them from a message) and
`again` (how often a fault parted a fact from its mark): `SavedOnce` allows one fact, and
one more for each such fault. The poller looks at the oldest messages and at the
processed ones among them too, so messages beyond the hundredth wait until others
are deleted: `WorkersCatchUp` speaks of those within. The processed set expires as a
whole a week after its first entry. Memories of a conversation that is being
deleted may still be saved. More than 50 short messages are never summarized, as
building a context wants more than 60 % of its budget in use: `Wordy` are the others.

### Indexing

State: the files on disk with their times, `file_index_state`, `file_chunks`, the
runs, `activeJobs`, and the watcher, idle or in its 3 s. A run is `Scan`, then for
each file `Read`, `Query`, `DeleteChunks`, `Upsert`, and `InsertChunk` for each chunk,
then `List`, `CleanChunks` and `CleanRow` for what has gone. Starting points of chunks are
computed from size and overlap as the code does. `FileFails` is an error that ends
one file, `Crash` that of the server or of the command line.

History: `astray`, the files whose index may be wrong: two runs were on them, a
statement failed on them, a crash or a restored mtime came between. A run by itself
that indexes such a file takes it out. A failed INSERT leaves the row that says
"indexed" without its chunks; nothing scans the workspace when a server starts; the
clean-up of a second workspace of one tenant removes the rows of the first (the
model has one workspace).

### Agents and PlanLife

State of `Agents`: what `executeTask` has in memory (steps, index, attempts, tool
calls), status and copy of the plan in `task_plans`, what the client has been
answered, and the tool log. `Execute` and `InsertPlan` begin a task with whatever plan the
model answers, the default one if none can be parsed; `Research`, `Coder`, `Tester`,
`Approve`, `Reject`, `OtherAgent` are the runs of a step, `RunTool` one tool call with the
outcomes its handler has, `Rewind` the way back to the Coder, `FailPlan` and
`CompletePlan` the conclusions. History: `fresh` (tests have seen the workspace as it is)
and `beside` (another task overlapped). A task that has used its 15 runs of steps is
"completed" although steps are pending, and failing tests count as a success of the
step: the properties do not say otherwise. A crash leaves the row "running".

`PlanLife` is the abstract specification: a row is unasked, running, completed or failed,
and its client waiting, answered or cut off. `Agents` implements it with the identity
on `status` and `answer`: `KeepsItsPlan == Life!Spec`, its liveness included.

### Prompt

State: the tables of chunks and memories, the conversation, how far its summary goes,
and the requests. `Retrieve` and `Search` find, join and rank; `ReadHistory`, `InsertSummary`,
`LatestSummary` and `Assemble` build a prompt, while `Say`, `SaveFact` and `ForgetFact` go on
beside them. A text is a sequence of units of four characters; a unit costs a token
or more, and the cut takes it to cost one, as `token-budget.ts` does. The initial
states are all tables over the given chunks and facts, so the functions are checked on
every small input; nearness and keyword hits are attributes of the rows.

What the properties leave out because the code does: the open file has no budget and
takes what is reserved for tools; a text denser than a token for four characters
exceeds its budget; a failed INSERT of a summary drops the history from that prompt;
every build of a long conversation makes another summary; the history is cut from its
start, where a fresh summary is. The keyword fallback finds nothing the vector search
did not. A search without a user looks at all memories of the tenant.

### Provisioning

State: `users.status`, the table `instances`, and per container name (an instance
name with `n8n`, `api` or `ai`) its state, which container of that name it is, and
its volume; for each request its step, the user, the row and the further rows it
read at its start, and in `createInstance` the container at hand and
`mainContainerId`. Routes that share code share actions: `Main` is the first Docker
call of start, stop, restart and delete, `SideApi` and `SideAi` what follows for an
n8n container; `List` ... `Save` are `createInstance` and the statement after it.
`Verb` maps each route to what it does to a container.

Docker is external: the model has it start, stop and remove containers, refuse a
taken name (409) or a taken host port, and, as dockerode does, answer "already
started" or "already stopped" (304) as an error. Somebody may remove a container by hand
(`Vanish`), also while a request is at work on its name. The host port is the constant 5005
outside development. Deleted users do not come back; another user may have the
same instance name, as names are made of the part of the address before the @.

History: `raced` (two requests, or one and a removal by hand, overlapped on a name),
`broken` (a failure or a crash cut a request short there), `shared` (two rows had the name),
and `lost` (the container of a row with that name has vanished), which ends when a start
or a restart makes the n8n container again and gives it to the row. A user deleted
before that leaves the api container behind (`NoOrphanEver`). `StatusAgrees` and
`NoOrphan` hold outside of these, `ProvisionedRuns` also after failures: that is the
claim of the comment in `routes/users.ts` 42-43, that approval may be repeated. All
three speak of instances with n8n (`NoOrphan` also of api containers): an instance
with the AI stack only may be recorded as running while the port is taken.

### Hosting

State: users and their tokens, the rows and limits of instances, the limits and
identity of their containers, the invoices with their payments, the repeatable jobs
with the workers of each server, and the requests under way. `SignUp` ... `Vanish` are
`Provisioning`'s requests, one step each; `Scale`, `ScaleBox`, `ScaleRow` are the scaling of
a container and of its row, `Reprovision` and `Redeploy` the script that makes lost
containers again; `Pay` and `SetPaid` a payment; `Due`, `Take`, `List`, `ReadUser`, `Measure`,
`Handle` and `Recover` the life of a job. History: `listed` and `missed` (what a run found and
failed on), `redone` (months billed by a job that was run again), `off` (instances
whose limits need not agree), `raced` (invoices paid twice at once).

A limit is a number with its unit, as `instances.ts` 14-17 accepts it. The row keeps it as it
was given; `scaleInstance` passes `parseInt` of it to Docker as megabytes, so the unit is
dropped (`ParseInt`): "2g" becomes 2 MiB, which Docker may also refuse. `LimitsAgree` speaks
of limits in megabytes, those that follow a scaling to gigabytes included; `LimitsMeant`
does not hold. The CPU limit goes along with the memory and is converted exactly; it is
left out. `Start` may register the first one or two of the three jobs only. An invoice is
paid by its owner or by an administrator.

`off` names what the code does not do: the row of an ENTERPRISE instance, and of a
BUSINESS one made by `POST /instances`, gets other limits than the container; a
container made again has lost its scaling. A billing job that died half way bills
from the start when it is run again. One deleted instance ends that night's backup,
which then has failed. A token stays good for seven days after a suspension.

## 3. Runs

| run | instance | shows |
|---|---|---|
| `pool` | 2 slots, 2 requests, 2 tenants, 3 retries as in the code; 190 000 states | `NoConnectionLeak`, `OwnContext`, `LeaksOnlyByFailedClear`, `EveryRequestEnds` |
| `webhooks` | 1 event, 3 attempts, 3 deliveries, 1 fault, 2 crashes; 216 000 states | `OneLiveJob`, `ProcessedIsFinal`, `FailedIsDeadLettered`, `EveryEventSettles` |
| `dunning` | 1 tenant, 2 activities, days 0, 7, 30, 2 failed payments, 2 crashes or 1 failed step; 1 470 000 states | `NoEarlyCancel`, `SubFollowsTenant`, `LockHolds`, `PastDueEnds` |
| `cleanup` | 2 servers, 1 tenant, 1 waiting job, 2 faults, one of them a crash at most; 1 350 000 states | `RunsExclude`, `HoldsRespected`, `RetentionEnforced` |
| `plan_change` | 3 plans of 0, 100 and 250 cents, a period of 3 days, 2 requests, 2 changes, 1 preview, 1 fault; 7 000 000 states | `MoneyTelescopes`, `PlansAgree` |
| `sessions` | 1 user, 2 browsers, 2 requests at a time, 6 in all, 3 tokens, 2 secrets, limits of 2, 1 reset, 1 fault; 1 260 000 states | `EndedStaysEnded`, `SessionKept`, `SecondFactorWorks` |
| `conversations` | 2 messages, 1 conversation, 1 server, a poll of 1, 1 fault; 216 000 states | `SavedOnce`, `WorkersCatchUp` |
| `indexing` | 1 file, 2 contents of 4 and 2 words, chunks of 3 with 1 in common, 2 runs at a time, 3 mtimes, 1 fault; 3 500 000 states | `TablesAgree`, `IndexIsCurrent` |
| `agents` | 2 tasks, 4 plans, 6 runs of steps, 1 tool call, 1 fault; 811 000 states | `PlanIsRun`, `KeepsItsPlan` (the refinement of `PlanLife`) |
| `prompt` | 1 request, 5 chunks, one of them stored twice, 2 facts, 3 messages, a window of 14 tokens; 1 070 000 states | `PassagesExact`, `PromptFits` |
| `provisioning` | 2 users of one name, a second name, 2 requests at a time, 3 in all, 2 rows, 2 containers per name, 1 fault or vanished container; 2 150 000 states | `StatusAgrees`, `NoOrphan`, `ProvisionedRuns` |
| `hosting` | 2 users with an instance each, 2 requests at a time, 4 in all, a limit of 1024m and one of 2g, 1 job due, 1 server, 2 faults; 317 000 states | `ChargedOnce`, `LimitsAgree`, `JobsDone` |

### Why the bounds are enough

Two slots and two requests let one request find what another left, on the same or the
other slot; a third adds no new pair. Events share no row, jobId or job; three
attempts have a first, a middle and a last one, and three deliveries include a
redelivery after the verdict and one beside it; two crashes exhaust BullMQ's one
recovery. Two activities of dunning overlap in every pair of operations; of the
milestones, day 0 is due at once, 7 is past the gate's 4, and 30 cancels; two failed
payments give an old and a new schedule, and two crashes are what fails a job. Two servers race for the clean-up's lock; one
tenant suffices as `todo` is handled tenant by tenant without shared state.

Two plan changes are enough to go up and down again, or to overlap, and prices that do
not divide by the days show every rounding. Families and accounts share nothing, so one
user has all the conflicts; three tokens are a sign-in, its refresh and a second family
or rotation; limits of two separate "the first failure" from "the last". Two messages
and a poll of one make the second wait for the first; the crash is before, between or
after the two writes. A file of four words has two chunks and one of two words has one,
files share no rows, and two runs meet at each statement. Six runs of steps are a plan of four and one rework,
or end in the middle of one; the four plans are the default, the empty one, one with a
Reviewer between Coder and Tester, and one whose Reviewer has no Coder. Five chunks
make a passage too long to be joined, a duplicate and a second file. Three provisioning
requests are enough for making, changing and deleting an instance, for a failed attempt
and its repetition, and for two that overlap after a third. One job that is due meets a deletion,
a failure and a crash on either of two items, and two faults are a crash and the stall
of the job that was run again. The users and requests are symmetric where a cfg says
so, and in no run with a liveness property. The proofs need none of these bounds.

`CHECK_DEADLOCK FALSE` is set where the system may really stop: in all runs but `pool`
and `cleanup`, when the bounded deliveries, requests, changes or due jobs are used up
and nothing is left to do.

### Fairness

Weak fairness for what the runtime does by itself: an await settles, a worker
polls its queue, a timer fires, a delayed job becomes due, a key expires, the cron
fires, a container is restarted (`restart` in the compose file), a server comes back.
Statements, tool processes and fetches of `Agents` all have time limits, so every task
goes on. Some actions need strong fairness, since other steps can disable them again
and again: taking a due dunning job (all activities busy), adding the daily cleanup
(one still waiting), the memory poll and the taking of each job in `Conversations` and
`Hosting` (the queues are first in, first out, and one worker serves both). In
`Cleanup`, a batch delete is assumed to come to its last batch. Deliveries, failed
payments, reactivations, holds, chat requests, faults and crashes have no fairness.

### Where the code differs from what it says

Nine statements of the repository's comments and documents do not hold of the code, and
four claims one would make of it. Each is
defined as a property, and TLC violates it within a few steps, most of them without
faults, under the cfg named here: `tlc -config MCDunningLock.cfg MCDunning`.

1. `OneTracePerQuery` (`MCTenantPoolTraces.cfg`): `pool.ts` 99-103 wraps `client.query` on every
   checkout of the same client object, so a query on a reused connection is traced
   once per checkout (`CODE_REVIEW_CHECKLIST.md` line 5 wants one traced query).
2. `PendingHasJob` (`MCWebhookRetryStuck.cfg`): retry jobs keep their jobId for ever
   (`webhookRetryService.ts` 149-152), so when a failed event is delivered again a week
   later, its first attempt sets it pending and the retry is not added.
3. `ChatLockedAfterGrace` (`MCDunningLock.cfg`): the gate compares `dunning_stage` with 4
   (`chat.routes.ts` 103) but the stage is a day: the chat locks on day 7, not 14.
4. `OnlyPastDueCanceled` (`MCDunningRace.cfg`): the day-30 job checks the status once
   (`dunningService.ts` 84) and cancels without a condition (122).
5. `DeletedLeavesNothing` (`MCProvisioningLeft.cfg`): `deleteInstance` removes the side containers
   only beside a main container named `nv-instance-...`
   (`src/backend/src/services/docker.service.ts` 386), so deleting a user without n8n
   leaves the ai container (`routes/users.ts` 195: "... all workloads destroyed.").
6. `InvalidationReachesPreview` (`MCPlanChangePreview.cfg`): a preview that has read the old row
   stores it after the invalidation (`pool.ts` 344: "Tenant cache cleared").
7. `ReviewSeesLastChange` (`MCAgentsReview.cfg`): after a rework the Reviewer may be given the
   outcomes of an earlier run of the Coder (`orchestrator.ts` 304: "We pass Coder
   changes to reviewer context").
8. `SkipsOnlyIndexed` (`MCIndexingSkip.cfg`): a file is skipped when mtime OR hash match
   (`repository-indexer.ts` 254: "If mtime and sha256 match, skip re-indexing").
9. `PartsKeepBudgets` (`MCPromptParts.cfg`): a history of dense text exceeds its budget
   (`token-budget.ts` 3-11: "variable max").
10. `HoldKeepsAll` (`MCCleanupHold.cfg`): a legal hold keeps all rows of its tenant. The deletes of
    activity logs, sessions and invoices never look at it (`cleanupService.ts` 99-134).
11. `LimitsMeant` (`MCHostingUnits.cfg`): a container has the memory its row says. After a scaling to
    "2g", an example of `instances.ts` 16, it has 2 MiB (`docker.service.ts` 412).
12. `NoOrphanEver` (`MCProvisioningLost.cfg`): no n8n or api container is without a row. Deleting a
    user whose n8n container has vanished leaves the api container (381-386).
13. `CancelTakenUp` (`MCDunningStall.cfg`): a cancellation that has begun is finished. When the second
    UPDATE of the day-30 job fails, or its worker dies a second time, the subscription is canceled,
    the tenant past due, and no job is left (`dunningService.ts` 121-122).

Two more statements are defined without a cfg: `NeverReprocessed` in `WebhookRetry` (a worker
that dies after adding the retry runs again beside it) and `CleanIdle` in `TenantPool`
(executeQuery's swallowed clear; section "API Connection Lifecycle" of the
repository's README).

Some code is never reached, and the models describe it as written: the server's start calls
`runMigrations()` without the pool it needs and ends (`index.ts` 181), so that it comes
neither to its workers nor to a request (and the call of the workers behind that, 187, is of
`start()` where the scheduler has the static `startAll`); and it
never sets the `redis` that `routes/chat.ts` takes its idempotency keys from.

## 4. Proofs

TLAPS proves, for every value of the constants that satisfies the assumption of the
module (distinct null values, bounds that are natural numbers; in `Conversations` also
that no message is a conversation, as their jobs are of two queues; in `Provisioning` that
`Mock` is no container's id, as those are hashes; in `PlanChange` that one plan is the dearest, as
the table `plans` is finite). Each inductive invariant was given to TLC before it was
proved, on the instance of the run or, for `Hosting` and `Conversations`, on one with two
servers. Theorems about an instance have that module's assumption as
their hypothesis; TLC evaluates it in the runs of the module.


| theorem | says |
|---|---|
| `TenantPool_proofs!TypeCorrect` | types; `tries` never falls below 0 |
| `TenantPool_proofs!NoLeak` | `NoConnectionLeak` |
| `TenantPool_proofs!Isolation` | `OwnContext` |
| `TenantPool_proofs!OnlyFailedClearLeaks` | `LeaksOnlyByFailedClear` |
| `TenantPool_proofs!CleanWithoutCopies` | `CleanIdle`, if no request uses `executeQuery` |
| `WebhookRetry_proofs!TypeCorrect` | types |
| `WebhookRetry_proofs!OneJobPerEvent` | `OneLiveJob` |
| `WebhookRetry_proofs!NoFailureIsLost` | `FailedIsDeadLettered` |
| `WebhookRetry_proofs!ProcessedOnce` | `ProcessedIsFinal` |
| `Dunning_proofs!TypeCorrect` | types |
| `Dunning_proofs!NothingEarly` | `NoEarlyCancel` |
| `Dunning_proofs!SubscriptionFollows` | `SubFollowsTenant` |
| `Dunning_proofs!LockKept` | `LockHolds` |
| `Workers_proofs!IndexTypes` | types of `Indexing` |
| `Workers_proofs!ChunksMatch` | `Indexing!TablesAgree` |
| `Workers_proofs!NoChangeLost` | `Indexing!IndexIsCurrent` |
| `Workers_proofs!SweepTypes` | types of `Cleanup` |
| `Workers_proofs!Exclusion` | `Cleanup!RunsExclude` |
| `Workers_proofs!HoldsKept` | `Cleanup!HoldsRespected`: the deletes that look at holds keep to them |
| `Workers_proofs!FactsOnce` | `Conversations!SavedOnce` |
| `Workers_proofs!PlanTypes` | types of `Agents` |
| `Workers_proofs!PlansAreRun` | `Agents!PlanIsRun` |
| `Workers_proofs!PlanLifeKept` | the safety part of the refinement: `Init` and every step of `Agents` map to `PlanLife`'s |
| `PlanChange_proofs!MoneyAddsUp` | `MoneyTelescopes` |
| `PlanChange_proofs!PlansStayTogether` | `PlansAgree` |
| `PlanChange_proofs!WithinBounds` | `TypeOK`: types, and what can be charged or credited at most |
| `Sessions_proofs!SignedOutIsOut` | `EndedStaysEnded` |
| `Sessions_proofs!OneTokenPerSession` | `SessionKept` |
| `Sessions_proofs!ProvedSecretIsAsked` | `SecondFactorWorks` |
| `Sessions_proofs!CountedWasTried` | `TypeOK`: types, and no account counts more failures than were tried |
| `Hosting_proofs!BilledOnce` | `ChargedOnce` |
| `Hosting_proofs!LimitsKnown` | `LimitsAgree`, for limits in megabytes |
| `Hosting_proofs!NobodyMissed` | the safety half of `JobsDone`: a job that has completed has handled all it found, or failed on it |
| `Provisioning_proofs!TypeCorrect` | types |
| `Provisioning_proofs!StatusesAgree` | `StatusAgrees` |
| `Provisioning_proofs!NothingOrphaned` | `NoOrphan` |
| `Provisioning_proofs!ProvisionedRun` | `ProvisionedRuns` |

**TenantPool.** `TypeOK` is not inductive: `FailAttempt` decrements `tries`, which stays
natural only because a request that is not over has an attempt left
(`AttemptLeft`). `OwnContext` needs to know that nobody else touches a checked-out
client, which is `NoConnectionLeak`, that the context is the request's own from
`"assert"` on, and that a step belongs to its usage (`StepOfMode`), so that the
raw query's release is not a release of a tenant's client. `ContextAt` also says
that `executeTenantQuery` holds a clean client before it sets the context, which is
why its release without a clear leaks nothing. `IInv` is their conjunction;
`NextIInv` has a step per action and under it one per conjunct it disturbs.
The action property follows from `IInv` by looking at the steps that make a slot
idle.

**WebhookRetry.** That at most one job of an event is live (`Alone`) needs to know that a
redelivery cannot add a first job beside a retry, as the first job stays stored while
others are at work (`FirstStored`), and that nothing is recovered before the first crash
(`NotStalled`). A row is marked failed by the last attempt alone (`LastGivesUp`), which
is live until it has added the dead letter (`LastLives`). A job at work on a processed
event has only its check before it (`OnlyChecks`), from which `ProcessedIsFinal` follows.
The lemma `JobMoves` is shared by all the steps of the handler.

**Dunning.** What an activity is about follows from its step (`Shapes`), two activities on
one tenant are marked (`OverlapsMarked`), and a job at work is some worker's
(`ActiveOwned`). With these, `NoEarlyCancel` is that a cancellation from an earlier
schedule is on its way out: about to be listed or removed, or at work (`OldJobsGo`). The
other two properties are about a tenant that nothing has overlapped or broken
(`Clean`). Its jobs are of one schedule, so they differ in their days alone
(`OneSchedule`); the worker therefore takes them by their days, and once the chat is
locked only later milestones are left (`LockedRest`). `WayOf` says how far the one
operation on the tenant has come: between the two statements of a trigger, for instance, the
subscription is past due already and the tenant not yet. A milestone that a
crash puts back is still the earliest of its schedule, so it comes first again; one that
stalls a second time leaves the queue and its tenant is broken, which is why
`SubFollowsTenant` excepts it.

**Cleanup.** Whoever is at the tables holds the lock, has outlived it, or lost it to
another's DEL (`LockedOrLate`); two holders would be one. For legal holds, the run
never reaches `"delete"` for a tenant covered since its beginning (`CoveredHeld`):
`CheckHold` passes it over, and lifting a hold uncovers the tenant. So a removal under a
hold is that of a run that looked before the hold, or of the sweep, which looks at none.

**Conversations.** A worker with a message holds that message's active job
(`Holding`), and two workers never hold one (`OneHolder`). Then what has been saved is in the
set of processed messages, or its worker is about to put it there, and what is being
extracted has been saved `again[m]` times at most (`Once`); a fault that parts fact and mark
(between the two writes, inside `save` after its INSERT, an unanswered check, the end of
the set's life) adds one to `again`, and one more fact may follow. The worker's history
of rows needs no type, and the order of messages plays no part.

**Indexing.** `Shape` says what a run has at each step. An unmarked file has at most one run
past its query (`Tables`), and that one knows how far the file's row and chunks have come
(`Written`): none between DELETE and the first INSERT, then those that start before the
next one. That the starts are met one after the other, and the last one ends the file,
is arithmetic of multiples of `ChunkSize - Overlap` (`NextStart`, `LastIs`), so the theorem
holds for any size and overlap. `Follows` relates a row, or what a run has read, to the
disk by its mtime: a file skipped for its mtime has that content, or was given the
mtime of an earlier one, and is marked. For `IndexIsCurrent`, an unmarked file is
`Settled`, the timer runs, or a run `Will` settle it: it has not scanned, has the file on its
worklist, has just read the very content, or is to remove its row. A change makes
the timer run, and the timer's end a run that has not scanned.

**PlanChange.** `AloneAt`: while no other change has run beside a request, what it read is
still the row. `MoneyAt` follows the amount through the statements: before the invoice the
balance is that of the day's changes so far, after it that and the request's net
(`Posted`), and when the subscription is written the sum telescopes. `PlansAt` says for each
step which of the three plans are new already. The bounds on amounts in `TypeOK` are not
inductive, for a request may still charge; `Bounded` leaves room for it: what has been paid,
and the price of the dearest plan for each change still to write its invoice, are no more
than that price for each change requested, and so for the credit. A change makes the
room, its invoice or its credit takes it, and a fault leaves it unused.

**Sessions.** The tokens: two tokens of a family have the same user and browser
(`FamiliesAgree`, `OwnDevice`), a family not frayed has one live token, or one refresh that has
dropped it (`OneLive`, `OneRefresh`, `DropAlone`); from there the token a request was given,
the one it made, and the cookie are followed step by step (`TokenAt`, `GotAt`, `FreshAt`,
`CookieAt`). The second factor: what a verification under way has seen is the temporary
secret still there, or the user is `mixed` (`ProvesAt`). The properties are disjunctions over histories, and most of the
proof is that an overlap puts the family into `frayed` before it does harm. The bounds of
`TypeOK` follow from `Guesses`: a counter read in one statement and written in another
leaves room for all codes under way (`Pending`), as each was guessed when its request began
and is counted once, so that no account counts more failures than there were.

**Agents.** At the head of the loop the steps before the index are completed, in runs
that increase, and none of them in the attempt being made (`Loops`, from `Behind` and
`Earlier`); so a plan at its end was run in order. Two tasks under way have overlapped
(`Overlaps`), and a task whose tests are behind it has them `fresh` unless it was overlapped
(`Tests`). `Rows` relates memory, row and answer, which is
what each step of the refinement needs. The fairness of `Life!Spec` is left to TLC.

**Hosting.** An active job has one worker (`OneWorker`), also after a stall, for the
worker of a dead server is down. Within a run, whom it has still to bill it has not billed
(`Unbilled`), unless the month was run again (`redone`); so a month has one invoice a user
(`Monthly`). An invoice is paid by the one request that found it unpaid, or it is
`raced` (`Payments`). `LimitsFollow` follows a scaling: between the update of the container and
that of the row the request itself knows the limit whose number (`ParseInt`) the container
has, and no second scaling is under way on an instance that is not `off`; for a limit in
megabytes the number is the limit. `NoneLost` says of every item a run found that it
was handled, failed, is still to come, or has gone since; when nothing is to come, the
safety half of `JobsDone` is left.

**Provisioning.** None of the properties is inductive: they speak of names nobody is at work
on, and what a name is then was decided by the requests before. A request has, by its
step and operation, a row and containers of one name (`Shape`); the row it read has
kept its id, name and user (`Known`), an id no statement has inserted yet is its own
(`Fresh`), and alone on a name what it read is still the row (`Copies`), and the n8n
container it has started runs (`Runs`): this alone gives `ProvisionedRuns`, whatever has
failed before. Of the table and the histories: one row an id (`Keyed`), two rows of one name
have it in `shared` (`Twins`), two requests of one name in `raced` (`Apart`). For a name
in no history, `Kept` is the outcome: with nobody at work its row has its container and the
status of it, and without a row it has none (`Good`); else each request
has brought it as far as its step says (`Work`: the row at hand by `Hand`, a container
under construction by `Build`, the rows a deletion has still to come to are `Good` and those
behind it bare). A fault or an overlap puts the name into a history in the very
step that would break `Kept`; the proof is that no other step breaks it, and that a step on one
name leaves the others as they were (`Only`, with the lemmas `...Keeps`). A container that vanishes beside a request puts its name
into `raced`; else, if it is some row's, into `lost`; else every row of the name still has its
own. The one step that takes a name out of a history is the `Save` of a start or restart: the
row then has the n8n container the request has made or found and started (`Runs`), with no
other row of that name, so the name is `Good` again.

Model-checked and not proved: the types of `Conversations`; all of `Prompt`,
whose properties are about what folds over sequences compute and would need induction
over data; and all
liveness (`EveryRequestEnds`, `EveryEventSettles`, `PastDueEnds`, `RetentionEnforced`,
`WorkersCatchUp`, `JobsDone`, the answers of `PlanLife`), since TLAPS proves neither
liveness under fairness nor `ENABLED`.

## 5. Not modelled

- Documents and RAG: the statements of `services/rag.service.ts` and the routes name
  columns no schema of the repository has, so that an upload fails at its first INSERT;
  key rotation has no caller.
- Harikson's admin API (`src/harikson/backend`): its Prisma schema lacks columns that
  its statements name, so sign-up fails.
- Migrations: the server never runs them (see above).
- Small services and routes (e-mail, custom domains, tax, scraper, widget, health):
  conversions and single statements.
- Front ends, IDE bridge and extension, model builder, deployment, monitoring.
- Inside the modelled parts: e-mails, log lines, payload contents and SQL beyond the
  rows the properties speak of; rate limits, profile, API keys and Google's redirect
  (`Sessions`); the checkout session and tax (`PlanChange`); the cache warmer, health records, the
  extraction that `routes/chat.ts` asks for without a message id, the queue of failed
  jobs (`Conversations`); which files are ignored and what an embedding says (`Indexing`);
  the costs of `tokenCountingService` (`Prompt`); amounts and line items of invoices,
  domains (`Hosting`); resource statistics, logs, mock mode, the port search of
  development mode (`Provisioning`); in `Cleanup` the failure counter, the GDPR package
  (built and dropped), the disabling of surplus agents; in `Dunning` the free-plan
  fallback and reminders; the choice between the two pools (`TenantPool`).

The services are written against columns and status values that the migrations
do not all have (`payment_webhooks.provider` and `status`, `tenants.metadata`,
`subscriptions.status = 'canceled'`). The models follow the services.

## 6. Plan

What is left, in this order:

1. `Provisioning` shown to implement the part of `Hosting` that takes an instance's
   life as single steps, for requests that neither overlap nor break off.
2. Larger instances: two servers for `Conversations` and `Hosting`, two files for
   `Indexing`, each without its liveness property.
3. Documents and the admin API, once their schemas fit their statements.
