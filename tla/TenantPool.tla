------------------------------ MODULE TenantPool ------------------------------
(***************************************************************************)
(* The tenant-api's PostgreSQL connection pool and the three ways its code *)
(* uses a pooled connection:                                               *)
(*                                                                         *)
(*   "tenant"  executeTenantQuery (db/pool.ts): a validated checkout, the  *)
(*             tenant context set, asserted and cleared;                   *)
(*   "copy"    the private executeQuery that the scheduler, orchestrator,  *)
(*             indexer, search, RAG, tools, context and memory modules     *)
(*             each carry: no validation, a clear that may fail silently;  *)
(*   "raw"     pool.query and checkDbHealth: no context at all.            *)
(*                                                                         *)
(* app.current_tenant is a SESSION setting (set_config(..., false)), so it *)
(* outlives the checkout that set it: that is what the properties are      *)
(* about.  Each of `pool' and `readPool' is one instance of this module.   *)
(* Every await of the code is a step of its own; any query may fail.       *)
(***************************************************************************)
EXTENDS Naturals, FiniteSets

CONSTANTS
    Conn,       \* the slots of one pool (max: 20 in the code)
    Req,        \* concurrent requests or worker jobs
    Tenant,
    NoTenant,   \* app.current_tenant is unset or ''
    NoConn,
    Modes,      \* which of the three usages the requests pick from
    MaxWraps    \* bound on the count of tracing wrappers kept per connection

ASSUME PoolAssumption ==
    /\ NoTenant \notin Tenant
    /\ NoConn \notin Conn
    /\ Modes \subseteq {"tenant", "copy", "raw"}
    /\ MaxWraps \in Nat \ {0}

VARIABLES
    place,      \* where each slot is: not connected, idle in the pool, checked out
    ctx,        \* the session's app.current_tenant
    healthy,    \* pg's client._queryable
    wraps,      \* how many traceQuery wrappers client.query carries
    pc, mode, who, held, tries

vars == <<place, ctx, healthy, wraps, pc, mode, who, held, tries>>
connVars == <<place, ctx, healthy, wraps>>
reqVars == <<pc, mode, who, held, tries>>

Retries == 3    \* `let retries = 3' in connectWithValidation

Steps == {"done", "acquire", "backoff", "validate", "set", "assert", "run",
          "reset", "release", "clear", "clearAfterError", "query"}

TypeOK ==
    /\ place \in [Conn -> {"absent", "idle", "busy"}]
    /\ ctx \in [Conn -> Tenant \cup {NoTenant}]
    /\ healthy \in [Conn -> BOOLEAN]
    /\ wraps \in [Conn -> 0 .. MaxWraps]
    /\ pc \in [Req -> Steps]
    /\ mode \in [Req -> {"tenant", "copy", "raw"}]
    /\ who \in [Req -> Tenant]
    /\ held \in [Req -> Conn \cup {NoConn}]
    /\ tries \in [Req -> 0 .. Retries]

Init ==
    /\ place = [c \in Conn |-> "absent"]
    /\ ctx = [c \in Conn |-> NoTenant]
    /\ healthy = [c \in Conn |-> TRUE]
    /\ wraps = [c \in Conn |-> 0]
    /\ pc = [r \in Req |-> "done"]
    /\ mode = [r \in Req |-> "raw"]
    /\ who \in [Req -> Tenant]
    /\ held = [r \in Req |-> NoConn]
    /\ tries = [r \in Req |-> 0]

-----------------------------------------------------------------------------
(* node-postgres: what a checkout and a release do to a slot *)

\* client.release(true), an error on an idle client, or the idle timeout: the
\* session ends, and a later connect in this slot starts a fresh one.
Discard(c) ==
    /\ place' = [place EXCEPT ![c] = "absent"]
    /\ ctx' = [ctx EXCEPT ![c] = NoTenant]
    /\ healthy' = [healthy EXCEPT ![c] = TRUE]
    /\ wraps' = [wraps EXCEPT ![c] = 0]

\* client.release() with the session's setting left at t: pg-pool keeps a
\* queryable client, and drops one whose socket has failed.
Release(c, t) ==
    \/ /\ healthy[c]
       /\ place' = [place EXCEPT ![c] = "idle"]
       /\ ctx' = [ctx EXCEPT ![c] = t]
       /\ UNCHANGED <<healthy, wraps>>
    \/ ~healthy[c] /\ Discard(c)

Goto(r, l) == pc' = [pc EXCEPT ![r] = l]

\* The request is over and its client went back: a result or an error.
Finish(r) ==
    /\ Goto(r, "done")
    /\ held' = [held EXCEPT ![r] = NoConn]
    /\ tries' = [tries EXCEPT ![r] = 0]
    /\ UNCHANGED <<mode, who>>

-----------------------------------------------------------------------------
Begin(r) ==
    /\ pc[r] = "done"
    /\ \E m \in Modes, t \in Tenant :
          /\ mode' = [mode EXCEPT ![r] = m]
          /\ who' = [who EXCEPT ![r] = t]
          /\ tries' = [tries EXCEPT ![r] = IF m = "tenant" THEN Retries ELSE 1]
    /\ Goto(r, "acquire")
    /\ UNCHANGED <<connVars, held>>

\* What a request does first with its client.
FirstStep == [tenant |-> "validate", copy |-> "set", raw |-> "query"]

\* pool.connect() resolves.  connectWithValidation then replaces client.query
\* by a traced version of itself, on every checkout of the same client object.
Checkout(r) ==
    /\ pc[r] = "acquire"
    /\ \E c \in Conn :
          /\ place[c] # "busy"
          /\ place' = [place EXCEPT ![c] = "busy"]
          /\ held' = [held EXCEPT ![r] = c]
          /\ wraps' = IF mode[r] = "tenant" /\ wraps[c] < MaxWraps
                        THEN [wraps EXCEPT ![c] = @ + 1] ELSE wraps
    /\ Goto(r, FirstStep[mode[r]])
    /\ UNCHANGED <<ctx, healthy, mode, who, tries>>

\* Mutant: the back-off loop forgets to give up after the last retry.
BugNoGiveUp(r) ==
    /\ held' = [held EXCEPT ![r] = NoConn]
    /\ tries' = [tries EXCEPT ![r] = @ - 1]
    /\ Goto(r, "backoff")
    /\ UNCHANGED <<mode, who>>

\* Mutant: a retry that does not count.
BugUncounted(r) ==
    /\ held' = [held EXCEPT ![r] = NoConn]
    /\ Goto(r, "backoff")
    /\ UNCHANGED <<mode, who, tries>>

\* The catch of connectWithValidation: one retry less; a back-off, or the throw.
\* Its first branch (116-118) is unreachable: current_setting(..., true) answers
\* NULL for an unknown parameter and raises no such error.
FailAttempt(r) ==
    /\ held' = [held EXCEPT ![r] = NoConn]
    /\ tries' = [tries EXCEPT ![r] = @ - 1]
    /\ Goto(r, IF tries[r] = 1 THEN "done" ELSE "backoff")
    /\ UNCHANGED <<mode, who>>

\* pool.connect() rejects: the 5 s timeout with every slot busy, or no database.
\* Outside connectWithValidation nothing retries, and tries is 1.
CheckoutFails(r) ==
    /\ pc[r] = "acquire"
    /\ FailAttempt(r)
    /\ UNCHANGED connVars

Retry(r) ==
    /\ pc[r] = "backoff"
    /\ Goto(r, "acquire")
    /\ UNCHANGED <<connVars, mode, who, held, tries>>

\* Reading current_setting('app.current_tenant', true): clean, use the client.
Validate(r) ==
    /\ pc[r] = "validate"
    /\ healthy[held[r]]
    /\ ctx[held[r]] = NoTenant
    /\ Goto(r, "set")
    /\ UNCHANGED <<connVars, mode, who, held, tries>>

\* Mutant: a polluted client is given up without client.release(true).
BugKeepPolluted(r) ==
    /\ pc[r] = "validate"
    /\ FailAttempt(r)
    /\ UNCHANGED connVars

\* "Connection pollution detected", or the read itself failed: discard, retry.
ValidateFails(r) ==
    /\ pc[r] = "validate"
    /\ Discard(held[r])
    /\ FailAttempt(r)

SetContext(r) ==
    /\ pc[r] = "set"
    /\ healthy[held[r]]
    /\ ctx' = [ctx EXCEPT ![held[r]] = who[r]]
    /\ Goto(r, IF mode[r] = "tenant" THEN "assert" ELSE "run")
    /\ UNCHANGED <<place, healthy, wraps, mode, who, held, tries>>

\* Mutant: executeQuery's set_tenant_context fails as silently as its clear.
BugIgnoreSetFailure(r) ==
    /\ pc[r] = "set"
    /\ Goto(r, "run")
    /\ UNCHANGED <<connVars, mode, who, held, tries>>

\* contextSet is still false: executeTenantQuery only releases; executeQuery's
\* catch clears in any case.
SetContextFails(r) ==
    /\ pc[r] = "set"
    /\ Goto(r, IF mode[r] = "tenant" THEN "release" ELSE "clearAfterError")
    /\ UNCHANGED <<connVars, mode, who, held, tries>>

AssertContext(r) ==
    /\ pc[r] = "assert"
    /\ \/ healthy[held[r]] /\ Goto(r, "run")
       \/ Goto(r, "reset")
    /\ UNCHANGED <<connVars, mode, who, held, tries>>

\* The callback ends, with a result or an exception.
CallbackEnds(r) ==
    /\ pc[r] = "run"
    /\ \/ mode[r] = "tenant" /\ Goto(r, "reset")
       \/ mode[r] = "copy" /\ \E l \in {"clear", "clearAfterError"} : Goto(r, l)
    /\ UNCHANGED <<connVars, mode, who, held, tries>>

\* Mutant: a failed clear is logged and the client released all the same.
BugReleaseUncleared(r) ==
    /\ pc[r] = "reset"
    /\ Release(held[r], NoTenant) \/ Release(held[r], ctx[held[r]])
    /\ Finish(r)

\* The finally of executeTenantQuery with contextSet: clear and release, or
\* destroy the connection when the clear fails.
Reset(r) ==
    /\ pc[r] = "reset"
    /\ \/ healthy[held[r]] /\ Release(held[r], NoTenant)
       \/ Discard(held[r])
    /\ Finish(r)

\* The same finally without contextSet.
ReleaseUnset(r) ==
    /\ pc[r] = "release"
    /\ Release(held[r], ctx[held[r]])
    /\ Finish(r)

\* executeQuery's clear after the callback; a failure lands in its catch.
CopyClear(r) ==
    /\ pc[r] = "clear"
    /\ \/ healthy[held[r]] /\ Release(held[r], NoTenant) /\ Finish(r)
       \/ Goto(r, "clearAfterError") /\ UNCHANGED <<connVars, mode, who, held, tries>>

\* The clear in executeQuery's catch: a failure is only a warning, and the
\* finally releases the client in either case.
CopyClearAfterError(r) ==
    /\ pc[r] = "clearAfterError"
    /\ \/ healthy[held[r]] /\ Release(held[r], NoTenant)
       \/ Release(held[r], ctx[held[r]])
    /\ Finish(r)

\* pool.query releases with the error it got, if any: an error discards.
RawQuery(r) ==
    /\ pc[r] = "query"
    /\ \/ Release(held[r], ctx[held[r]])
       \/ Discard(held[r])
    /\ Finish(r)

\* The socket of a checked-out client fails; of an idle one (or idleTimeoutMillis
\* passes), the pool drops it.
ConnectionLost(c) ==
    /\ \/ /\ place[c] = "busy" /\ healthy[c]
          /\ healthy' = [healthy EXCEPT ![c] = FALSE]
          /\ UNCHANGED <<place, ctx, wraps>>
       \/ place[c] = "idle" /\ Discard(c)
    /\ UNCHANGED reqVars

Progress(r) ==
    \/ Checkout(r) \/ CheckoutFails(r) \/ Retry(r)
    \/ Validate(r) \/ ValidateFails(r)
    \/ SetContext(r) \/ SetContextFails(r) \/ AssertContext(r)
    \/ CallbackEnds(r) \/ Reset(r) \/ ReleaseUnset(r)
    \/ CopyClear(r) \/ CopyClearAfterError(r) \/ RawQuery(r)

Next ==
    \/ \E r \in Req : Begin(r) \/ Progress(r)
    \/ \E c \in Conn : ConnectionLost(c)

Spec == Init /\ [][Next]_vars

\* Promises settle: a query resolves or rejects, connect() times out after 5 s,
\* a back-off timer fires.
FairSpec == Spec /\ \A r \in Req : WF_vars(Progress(r))

-----------------------------------------------------------------------------
\* Every checked-out connection belongs to exactly one unfinished request: each
\* path through connectWithValidation, executeTenantQuery, executeQuery and
\* pool.query releases its client once, so the pool's capacity is never lost.
NoConnectionLeak ==
    /\ \A c \in Conn : place[c] = "busy" <=> \E r \in Req : held[r] = c
    /\ \A r, s \in Req : held[r] = held[s] /\ held[r] # NoConn => r = s
    /\ \A r \in Req : held[r] = NoConn <=> pc[r] \in {"done", "acquire", "backoff"}

\* A callback of executeTenantQuery or of executeQuery runs under the context of
\* its own tenant, whatever the other users of the pool left on the connection.
OwnContext ==
    \A r \in Req : pc[r] = "run" => ctx[held[r]] = who[r]

\* A connection whose context is set is put back in the pool only by the clear in
\* executeQuery's catch failing: executeTenantQuery destroys it instead, and no
\* other release leaves a setting that was not already there at checkout.
LeaksOnlyByFailedClear ==
    [][\A c \in Conn :
          place[c] = "busy" /\ place'[c] = "idle" /\ ctx'[c] # NoTenant =>
              \E r \in Req : /\ held[r] = c
                             /\ \/ mode[r] = "copy" /\ pc[r] = "clearAfterError"
                                \/ mode[r] = "raw" /\ ctx'[c] = ctx[c]]_vars

\* Every request ends, with a result or an error: no state of the pool, polluted
\* or exhausted, keeps connectWithValidation retrying.
EveryRequestEnds == \A r \in Req : pc[r] # "done" ~> pc[r] = "done"

\* README, "API Connection Lifecycle (Anti-Leak)": a client goes back to the pool
\* with its context reset, so an idle connection carries none.
CleanIdle == \A c \in Conn : place[c] = "idle" => ctx[c] = NoTenant

\* CODE_REVIEW_CHECKLIST, "Query Tracking": one traceQuery, with one query ID,
\* around each query; so a client about to be queried carries one wrapper.
OneTracePerQuery ==
    \A r \in Req : pc[r] = "validate" => wraps[held[r]] <= 1

=============================================================================
