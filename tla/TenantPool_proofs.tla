--------------------------- MODULE TenantPool_proofs ---------------------------
(* Proofs about TenantPool, for any pool, requests and tenants.               *)
EXTENDS TenantPool, TLAPS

\* A request that is not over has an attempt left: the back-off loop counts down
\* from Retries and leaves at the last one.
AttemptLeft == \A r \in Req : pc[r] # "done" => tries[r] >= 1

\* Each step belongs to the code of one usage of the pool.
StepOfMode ==
    \A r \in Req :
        /\ pc[r] \in {"validate", "assert", "reset", "release"} => mode[r] = "tenant"
        /\ pc[r] \in {"clear", "clearAfterError"} => mode[r] = "copy"
        /\ pc[r] = "query" => mode[r] = "raw"
        /\ pc[r] \in {"set", "run"} => mode[r] # "raw"

\* What a validated client carries before and after its context is set.
ContextAt ==
    \A r \in Req :
        /\ pc[r] \in {"assert", "run"} => ctx[held[r]] = who[r]
        /\ pc[r] = "set" /\ mode[r] = "tenant" => ctx[held[r]] = NoTenant
        /\ pc[r] = "release" => ctx[held[r]] = NoTenant

\* The inductive invariant.
IInv == TypeOK /\ NoConnectionLeak /\ AttemptLeft /\ StepOfMode /\ ContextAt

\* A pool without connections and requests satisfies the inductive invariant.
LEMMA InitIInv == Init => IInv
BY PoolAssumption DEF Init, IInv, TypeOK, NoConnectionLeak, AttemptLeft, StepOfMode, ContextAt,
    Steps, Retries

\* Ending a session leaves the slots well typed.
LEMMA DiscardTypes ==
    ASSUME TypeOK, NEW c \in Conn, Discard(c)
    PROVE  /\ place' \in [Conn -> {"absent", "idle", "busy"}]
           /\ ctx' \in [Conn -> Tenant \cup {NoTenant}]
           /\ healthy' \in [Conn -> BOOLEAN]
           /\ wraps' \in [Conn -> 0 .. MaxWraps]
<1>1. healthy' = [healthy EXCEPT ![c] = TRUE]
  BY DEF Discard
<1>2. healthy' \in [Conn -> BOOLEAN]
  BY <1>1, Zenon DEF TypeOK
<1>3. /\ place' \in [Conn -> {"absent", "idle", "busy"}]
      /\ ctx' \in [Conn -> Tenant \cup {NoTenant}]
      /\ wraps' \in [Conn -> 0 .. MaxWraps]
  BY PoolAssumption DEF TypeOK, Discard
<1> QED
  BY <1>2, <1>3

\* So does putting it back with any setting.
LEMMA ReleaseTypes ==
    ASSUME TypeOK, NEW c \in Conn, NEW t \in Tenant \cup {NoTenant}, Release(c, t)
    PROVE  /\ place' \in [Conn -> {"absent", "idle", "busy"}]
           /\ ctx' \in [Conn -> Tenant \cup {NoTenant}]
           /\ healthy' \in [Conn -> BOOLEAN]
           /\ wraps' \in [Conn -> 0 .. MaxWraps]
<1>1. CASE Discard(c)
  BY <1>1, DiscardTypes
<1>2. CASE ~Discard(c)
  BY <1>2 DEF TypeOK, Release
<1> QED
  BY <1>1, <1>2

\* Every step of a request, and the loss of a connection, preserves it.
LEMMA NextIInv == IInv /\ [Next]_vars => IInv'
<1> SUFFICES ASSUME IInv, [Next]_vars PROVE IInv'
  OBVIOUS
<1> USE PoolAssumption DEF IInv, TypeOK, connVars, reqVars, Goto, Steps, Retries
<1>1. ASSUME NEW r \in Req, Begin(r) PROVE IInv'
  <2>1. TypeOK'
    BY <1>1 DEF Begin, AttemptLeft
  <2>2. NoConnectionLeak'
    BY <1>1 DEF Begin, NoConnectionLeak
  <2>3. AttemptLeft'
    BY <1>1 DEF Begin, AttemptLeft
  <2>4. StepOfMode'
    BY <1>1 DEF Begin, StepOfMode
  <2>5. ContextAt'
    BY <1>1 DEF Begin, ContextAt, NoConnectionLeak, StepOfMode
  <2> QED
    BY <2>1, <2>2, <2>3, <2>4, <2>5
<1>2. ASSUME NEW r \in Req, Checkout(r) PROVE IInv'
  <2>1. TypeOK'
    BY <1>2 DEF Checkout, FirstStep, AttemptLeft
  <2>2. NoConnectionLeak'
    BY <1>2 DEF Checkout, FirstStep, NoConnectionLeak
  <2>3. AttemptLeft'
    BY <1>2 DEF Checkout, FirstStep, AttemptLeft
  <2>4. StepOfMode'
    BY <1>2 DEF Checkout, FirstStep, StepOfMode
  <2>5. ContextAt'
    BY <1>2 DEF Checkout, FirstStep, ContextAt, NoConnectionLeak, StepOfMode
  <2> QED
    BY <2>1, <2>2, <2>3, <2>4, <2>5
<1>3. ASSUME NEW r \in Req, CheckoutFails(r) PROVE IInv'
  <2>1. TypeOK'
    BY <1>3 DEF CheckoutFails, FailAttempt, AttemptLeft
  <2>2. NoConnectionLeak'
    BY <1>3 DEF CheckoutFails, FailAttempt, NoConnectionLeak
  <2>3. AttemptLeft'
    BY <1>3 DEF CheckoutFails, FailAttempt, AttemptLeft
  <2>4. StepOfMode'
    BY <1>3 DEF CheckoutFails, FailAttempt, StepOfMode
  <2>5. ContextAt'
    BY <1>3 DEF CheckoutFails, FailAttempt, ContextAt, NoConnectionLeak, StepOfMode
  <2> QED
    BY <2>1, <2>2, <2>3, <2>4, <2>5
<1>4. ASSUME NEW r \in Req, Retry(r) PROVE IInv'
  <2>1. TypeOK'
    BY <1>4 DEF Retry, AttemptLeft
  <2>2. NoConnectionLeak'
    BY <1>4 DEF Retry, NoConnectionLeak
  <2>3. AttemptLeft'
    BY <1>4 DEF Retry, AttemptLeft
  <2>4. StepOfMode'
    BY <1>4 DEF Retry, StepOfMode
  <2>5. ContextAt'
    BY <1>4 DEF Retry, ContextAt, NoConnectionLeak, StepOfMode
  <2> QED
    BY <2>1, <2>2, <2>3, <2>4, <2>5
<1>5. ASSUME NEW r \in Req, Validate(r) PROVE IInv'
  <2>1. TypeOK'
    BY <1>5 DEF Validate, AttemptLeft
  <2>2. NoConnectionLeak'
    BY <1>5 DEF Validate, NoConnectionLeak
  <2>3. AttemptLeft'
    BY <1>5 DEF Validate, AttemptLeft
  <2>4. StepOfMode'
    BY <1>5 DEF Validate, StepOfMode
  <2>5. ContextAt'
    BY <1>5 DEF Validate, ContextAt, NoConnectionLeak, StepOfMode
  <2> QED
    BY <2>1, <2>2, <2>3, <2>4, <2>5
<1>6. ASSUME NEW r \in Req, ValidateFails(r) PROVE IInv'
  <2>1. TypeOK'
    BY <1>6, DiscardTypes, ReleaseTypes DEF ValidateFails, FailAttempt, AttemptLeft, NoConnectionLeak
  <2>2. NoConnectionLeak'
    BY <1>6 DEF ValidateFails, FailAttempt, Discard, NoConnectionLeak
  <2>3. AttemptLeft'
    BY <1>6 DEF ValidateFails, FailAttempt, Discard, AttemptLeft
  <2>4. StepOfMode'
    BY <1>6 DEF ValidateFails, FailAttempt, Discard, StepOfMode
  <2>5. ContextAt'
    BY <1>6 DEF ValidateFails, FailAttempt, Discard, ContextAt, NoConnectionLeak, StepOfMode
  <2> QED
    BY <2>1, <2>2, <2>3, <2>4, <2>5
<1>7. ASSUME NEW r \in Req, SetContext(r) PROVE IInv'
  <2>1. TypeOK'
    BY <1>7 DEF SetContext, AttemptLeft
  <2>2. NoConnectionLeak'
    BY <1>7 DEF SetContext, NoConnectionLeak
  <2>3. AttemptLeft'
    BY <1>7 DEF SetContext, AttemptLeft
  <2>4. StepOfMode'
    BY <1>7 DEF SetContext, StepOfMode
  <2>5. ContextAt'
    BY <1>7 DEF SetContext, ContextAt, NoConnectionLeak, StepOfMode
  <2> QED
    BY <2>1, <2>2, <2>3, <2>4, <2>5
<1>8. ASSUME NEW r \in Req, SetContextFails(r) PROVE IInv'
  <2>1. TypeOK'
    BY <1>8 DEF SetContextFails, AttemptLeft
  <2>2. NoConnectionLeak'
    BY <1>8 DEF SetContextFails, NoConnectionLeak
  <2>3. AttemptLeft'
    BY <1>8 DEF SetContextFails, AttemptLeft
  <2>4. StepOfMode'
    BY <1>8 DEF SetContextFails, StepOfMode
  <2>5. ContextAt'
    BY <1>8 DEF SetContextFails, ContextAt, NoConnectionLeak, StepOfMode
  <2> QED
    BY <2>1, <2>2, <2>3, <2>4, <2>5
<1>9. ASSUME NEW r \in Req, AssertContext(r) PROVE IInv'
  <2>1. TypeOK'
    BY <1>9 DEF AssertContext, AttemptLeft
  <2>2. NoConnectionLeak'
    BY <1>9 DEF AssertContext, NoConnectionLeak
  <2>3. AttemptLeft'
    BY <1>9 DEF AssertContext, AttemptLeft
  <2>4. StepOfMode'
    BY <1>9 DEF AssertContext, StepOfMode
  <2>5. ContextAt'
    BY <1>9 DEF AssertContext, ContextAt, NoConnectionLeak, StepOfMode
  <2> QED
    BY <2>1, <2>2, <2>3, <2>4, <2>5
<1>10. ASSUME NEW r \in Req, CallbackEnds(r) PROVE IInv'
  <2>1. TypeOK'
    BY <1>10 DEF CallbackEnds, AttemptLeft
  <2>2. NoConnectionLeak'
    BY <1>10 DEF CallbackEnds, NoConnectionLeak
  <2>3. AttemptLeft'
    BY <1>10 DEF CallbackEnds, AttemptLeft
  <2>4. StepOfMode'
    BY <1>10 DEF CallbackEnds, StepOfMode
  <2>5. ContextAt'
    BY <1>10 DEF CallbackEnds, ContextAt, NoConnectionLeak, StepOfMode
  <2> QED
    BY <2>1, <2>2, <2>3, <2>4, <2>5
<1>11. ASSUME NEW r \in Req, Reset(r) PROVE IInv'
  <2>1. TypeOK'
    BY <1>11, DiscardTypes, ReleaseTypes DEF Reset, Finish, AttemptLeft, NoConnectionLeak
  <2>2. NoConnectionLeak'
    BY <1>11 DEF Reset, Release, Discard, Finish, NoConnectionLeak
  <2>3. AttemptLeft'
    BY <1>11 DEF Reset, Release, Discard, Finish, AttemptLeft
  <2>4. StepOfMode'
    BY <1>11 DEF Reset, Release, Discard, Finish, StepOfMode
  <2>5. ContextAt'
    BY <1>11 DEF Reset, Release, Discard, Finish, ContextAt, NoConnectionLeak, StepOfMode
  <2> QED
    BY <2>1, <2>2, <2>3, <2>4, <2>5
<1>12. ASSUME NEW r \in Req, ReleaseUnset(r) PROVE IInv'
  <2>1. TypeOK'
    BY <1>12, DiscardTypes, ReleaseTypes DEF ReleaseUnset, Finish, AttemptLeft, NoConnectionLeak
  <2>2. NoConnectionLeak'
    BY <1>12 DEF ReleaseUnset, Release, Discard, Finish, NoConnectionLeak
  <2>3. AttemptLeft'
    BY <1>12 DEF ReleaseUnset, Release, Discard, Finish, AttemptLeft
  <2>4. StepOfMode'
    BY <1>12 DEF ReleaseUnset, Release, Discard, Finish, StepOfMode
  <2>5. ContextAt'
    BY <1>12 DEF ReleaseUnset, Release, Discard, Finish, ContextAt, NoConnectionLeak, StepOfMode
  <2> QED
    BY <2>1, <2>2, <2>3, <2>4, <2>5
<1>13. ASSUME NEW r \in Req, CopyClear(r) PROVE IInv'
  <2>1. TypeOK'
    BY <1>13, DiscardTypes, ReleaseTypes DEF CopyClear, Finish, AttemptLeft, NoConnectionLeak
  <2>2. NoConnectionLeak'
    BY <1>13 DEF CopyClear, Release, Discard, Finish, NoConnectionLeak
  <2>3. AttemptLeft'
    BY <1>13 DEF CopyClear, Release, Discard, Finish, AttemptLeft
  <2>4. StepOfMode'
    BY <1>13 DEF CopyClear, Release, Discard, Finish, StepOfMode
  <2>5. ContextAt'
    BY <1>13 DEF CopyClear, Release, Discard, Finish, ContextAt, NoConnectionLeak, StepOfMode
  <2> QED
    BY <2>1, <2>2, <2>3, <2>4, <2>5
<1>14. ASSUME NEW r \in Req, CopyClearAfterError(r) PROVE IInv'
  <2>1. TypeOK'
    BY <1>14, DiscardTypes, ReleaseTypes DEF CopyClearAfterError, Finish, AttemptLeft, NoConnectionLeak
  <2>2. NoConnectionLeak'
    BY <1>14 DEF CopyClearAfterError, Release, Discard, Finish, NoConnectionLeak
  <2>3. AttemptLeft'
    BY <1>14 DEF CopyClearAfterError, Release, Discard, Finish, AttemptLeft
  <2>4. StepOfMode'
    BY <1>14 DEF CopyClearAfterError, Release, Discard, Finish, StepOfMode
  <2>5. ContextAt'
    BY <1>14 DEF CopyClearAfterError, Release, Discard, Finish, ContextAt, NoConnectionLeak, StepOfMode
  <2> QED
    BY <2>1, <2>2, <2>3, <2>4, <2>5
<1>15. ASSUME NEW r \in Req, RawQuery(r) PROVE IInv'
  <2>1. TypeOK'
    BY <1>15, DiscardTypes, ReleaseTypes DEF RawQuery, Finish, AttemptLeft, NoConnectionLeak
  <2>2. NoConnectionLeak'
    BY <1>15 DEF RawQuery, Release, Discard, Finish, NoConnectionLeak
  <2>3. AttemptLeft'
    BY <1>15 DEF RawQuery, Release, Discard, Finish, AttemptLeft
  <2>4. StepOfMode'
    BY <1>15 DEF RawQuery, Release, Discard, Finish, StepOfMode
  <2>5. ContextAt'
    BY <1>15 DEF RawQuery, Release, Discard, Finish, ContextAt, NoConnectionLeak, StepOfMode
  <2> QED
    BY <2>1, <2>2, <2>3, <2>4, <2>5
<1>16. ASSUME NEW c \in Conn, ConnectionLost(c) PROVE IInv'
  <2>1. TypeOK'
    <3>1. CASE Discard(c)
      BY <1>16, <3>1, DiscardTypes DEF ConnectionLost
    <3>2. CASE ~Discard(c)
      <4>1. healthy' \in [Conn -> BOOLEAN]
        BY <1>16, <3>2, Zenon DEF ConnectionLost
      <4> QED
        BY <1>16, <3>2, <4>1 DEF ConnectionLost
    <3> QED
      BY <3>1, <3>2
  <2>2. NoConnectionLeak'
    BY <1>16 DEF ConnectionLost, Discard, NoConnectionLeak
  <2>3. AttemptLeft'
    BY <1>16 DEF ConnectionLost, Discard, AttemptLeft
  <2>4. StepOfMode'
    BY <1>16 DEF ConnectionLost, Discard, StepOfMode
  <2>5. ContextAt'
    BY <1>16 DEF ConnectionLost, Discard, ContextAt, NoConnectionLeak, StepOfMode
  <2> QED
    BY <2>1, <2>2, <2>3, <2>4, <2>5
<1>17. CASE UNCHANGED vars
  BY <1>17 DEF vars, NoConnectionLeak, AttemptLeft, StepOfMode, ContextAt
<1> QED
  BY <1>1, <1>2, <1>3, <1>4, <1>5, <1>6, <1>7, <1>8, <1>9, <1>10, <1>11, <1>12, <1>13, <1>14, <1>15, <1>16, <1>17 DEF Next, Progress

\* The inductive invariant holds of every behaviour.
THEOREM Invariance == Spec => []IInv
BY InitIInv, NextIInv, PTL DEF Spec

\* Types, the count of retries among them: the loop of connectWithValidation never
\* counts below zero.
THEOREM TypeCorrect == Spec => []TypeOK
<1>1. IInv => TypeOK
  BY DEF IInv
<1> QED
  BY <1>1, Invariance, PTL

\* No path through the three usages of the pool loses a connection, or gives one to
\* two requests, for any number of either.
THEOREM NoLeak == Spec => []NoConnectionLeak
<1>1. IInv => NoConnectionLeak
  BY DEF IInv
<1> QED
  BY <1>1, Invariance, PTL

\* A callback never runs under another tenant's context.
THEOREM Isolation == Spec => []OwnContext
<1>1. IInv => OwnContext
  BY DEF IInv, ContextAt, OwnContext
<1> QED
  BY <1>1, Invariance, PTL

-----------------------------------------------------------------------------
(* The context left on idle connections *)

\* The body of the action property LeaksOnlyByFailedClear.
LeakStep ==
    \A c \in Conn :
        place[c] = "busy" /\ place'[c] = "idle" /\ ctx'[c] # NoTenant =>
            \E r \in Req : /\ held[r] = c
                           /\ \/ mode[r] = "copy" /\ pc[r] = "clearAfterError"
                              \/ mode[r] = "raw" /\ ctx'[c] = ctx[c]

\* No single step puts a connection back with a context set, but the one whose
\* clear failed in executeQuery's catch and the one that found it so.
LEMMA StepLeaks == IInv /\ [Next]_vars => LeakStep
<1> SUFFICES ASSUME IInv, [Next]_vars,
                    NEW c \in Conn, place[c] = "busy", place'[c] = "idle", ctx'[c] # NoTenant
             PROVE  \E r \in Req : /\ held[r] = c
                                   /\ \/ mode[r] = "copy" /\ pc[r] = "clearAfterError"
                                      \/ mode[r] = "raw" /\ ctx'[c] = ctx[c]
  BY DEF LeakStep
<1> USE PoolAssumption DEF IInv, TypeOK, connVars, reqVars, Goto
<1>1. ASSUME NEW r \in Req, Begin(r) \/ Retry(r) \/ CheckoutFails(r) \/ Validate(r)
                            \/ SetContext(r) \/ SetContextFails(r) \/ AssertContext(r)
                            \/ CallbackEnds(r) \/ Checkout(r)
      PROVE  FALSE
  BY <1>1 DEF Begin, Retry, CheckoutFails, Validate, SetContext, SetContextFails,
      AssertContext, CallbackEnds, Checkout
<1>2. ASSUME NEW r \in Req, ValidateFails(r) PROVE FALSE
  BY <1>2 DEF ValidateFails, Discard, NoConnectionLeak
<1>3. ASSUME NEW r \in Req, Reset(r) PROVE FALSE
  BY <1>3 DEF Reset, Release, Discard
<1>4. ASSUME NEW r \in Req, ReleaseUnset(r) PROVE FALSE
  BY <1>4 DEF ReleaseUnset, Release, Discard, ContextAt
<1>5. ASSUME NEW r \in Req, CopyClear(r) PROVE FALSE
  BY <1>5 DEF CopyClear, Release, Discard
<1>6. ASSUME NEW r \in Req, CopyClearAfterError(r)
      PROVE  held[r] = c /\ mode[r] = "copy" /\ pc[r] = "clearAfterError"
  BY <1>6 DEF CopyClearAfterError, Release, Discard, StepOfMode
<1>7. ASSUME NEW r \in Req, RawQuery(r)
      PROVE  held[r] = c /\ mode[r] = "raw" /\ ctx'[c] = ctx[c]
  BY <1>7 DEF RawQuery, Release, Discard, StepOfMode
<1>8. ASSUME NEW d \in Conn, ConnectionLost(d) PROVE FALSE
  BY <1>8 DEF ConnectionLost, Discard
<1>9. CASE UNCHANGED vars
  BY <1>9 DEF vars
<1> QED
  BY <1>1, <1>2, <1>3, <1>4, <1>5, <1>6, <1>7, <1>8, <1>9 DEF Next, Progress

\* In executeTenantQuery no failure puts a connection back with a context set, and
\* raw queries add none: only the swallowed clear of executeQuery does.
THEOREM OnlyFailedClearLeaks == Spec => LeaksOnlyByFailedClear
<1>1. IInv /\ [Next]_vars => [LeakStep]_vars
  BY StepLeaks
<1> QED
  BY <1>1, Invariance, PTL DEF Spec, LeaksOnlyByFailedClear, LeakStep

\* Where a request without the copied executeQuery meets a clean connection.
Clean ==
    /\ \A c \in Conn : place[c] # "busy" => ctx[c] = NoTenant
    /\ \A r \in Req : pc[r] \in {"validate", "query"} => ctx[held[r]] = NoTenant
    /\ \A r \in Req : mode[r] # "copy"

\* Without executeQuery every step keeps the pool's sessions clean.
LEMMA NextClean ==
    ASSUME "copy" \notin Modes
    PROVE  IInv /\ Clean /\ [Next]_vars => Clean'
<1> SUFFICES ASSUME IInv, Clean, [Next]_vars PROVE Clean'
  OBVIOUS
<1> USE PoolAssumption DEF IInv, TypeOK, Clean, connVars, reqVars, Goto
<1>1. ASSUME NEW r \in Req, Begin(r) PROVE Clean'
  BY <1>1 DEF Begin
<1>2. ASSUME NEW r \in Req, Checkout(r) PROVE Clean'
  BY <1>2 DEF Checkout, FirstStep, NoConnectionLeak
<1>3. ASSUME NEW r \in Req, CheckoutFails(r) \/ Retry(r) PROVE Clean'
  BY <1>3 DEF CheckoutFails, FailAttempt, Retry, NoConnectionLeak
<1>4. ASSUME NEW r \in Req, Validate(r) PROVE Clean'
  BY <1>4 DEF Validate
<1>5. ASSUME NEW r \in Req, ValidateFails(r) PROVE Clean'
  BY <1>5 DEF ValidateFails, FailAttempt, Discard, NoConnectionLeak
<1>6. ASSUME NEW r \in Req, SetContext(r) PROVE Clean'
  BY <1>6 DEF SetContext, NoConnectionLeak
<1>7. ASSUME NEW r \in Req, SetContextFails(r) \/ AssertContext(r) \/ CallbackEnds(r) PROVE Clean'
  BY <1>7 DEF SetContextFails, AssertContext, CallbackEnds
<1>8. ASSUME NEW r \in Req, Reset(r) PROVE Clean'
  BY <1>8 DEF Reset, Release, Discard, Finish, NoConnectionLeak
<1>9. ASSUME NEW r \in Req, ReleaseUnset(r) PROVE Clean'
  BY <1>9 DEF ReleaseUnset, Release, Discard, Finish, NoConnectionLeak, ContextAt
<1>10. ASSUME NEW r \in Req, CopyClear(r) \/ CopyClearAfterError(r) PROVE FALSE
  BY <1>10 DEF CopyClear, CopyClearAfterError, StepOfMode
<1>11. ASSUME NEW r \in Req, RawQuery(r) PROVE Clean'
  BY <1>11 DEF RawQuery, Release, Discard, Finish, NoConnectionLeak
<1>12. ASSUME NEW c \in Conn, ConnectionLost(c) PROVE Clean'
  BY <1>12 DEF ConnectionLost, Discard, NoConnectionLeak
<1>13. CASE UNCHANGED vars
  BY <1>13 DEF vars
<1> QED
  BY <1>1, <1>2, <1>3, <1>4, <1>5, <1>6, <1>7, <1>8, <1>9, <1>10, <1>11, <1>12, <1>13
  DEF Next, Progress

\* Without the copies of executeQuery, executeTenantQuery and the raw queries keep
\* what the README says of the connection lifecycle: no idle connection carries a
\* tenant's context, whatever fails.
THEOREM CleanWithoutCopies ==
    ASSUME "copy" \notin Modes
    PROVE  Spec => []CleanIdle
<1>1. Init => Clean
  BY DEF Init, Clean
<1>2. Clean => CleanIdle
  BY DEF Clean, CleanIdle
<1>3. IInv /\ Clean /\ [Next]_vars => Clean'
  BY NextClean
<1> QED
  BY <1>1, <1>2, <1>3, Invariance, PTL DEF Spec

================================================================================
