-------------------------- MODULE WebhookRetry_proofs --------------------------
(* Proofs about WebhookRetry: an event has one job at work, is final once it was *)
(* processed, and is dead-lettered once it failed, for any events, attempts and  *)
(* bounds, but for the crashes and faults that the properties name.              *)
EXTENDS WebhookRetry, TLAPS

\* While a job of an event is queued or runs, its first job is stored.
FirstStored ==
    \A e \in Event : job[<<e, 1>>] = "none" => \A n \in Attempt : job[<<e, n>>] \notin Live \cup Running

\* Only the last attempt gives up, and it does not retry.
LastGivesUp ==
    \A e \in Event, n \in Attempt :
        /\ job[<<e, n>>] \in {"setPending", "addRetry"} => n < MaxAttempts
        /\ job[<<e, n>>] \in {"setFailed", "deadLetter"} => n = MaxAttempts

\* Nothing is recovered before the first crash.
NotStalled == crashes = 0 => \A j \in Job : stalls[j] = 0

\* An event that failed and is not in the dead-letter queue still has its last
\* attempt.
LastLives ==
    \A e \in Event : row[e] = "failed" /\ e \notin dlq /\ faults = 0 /\ crashes <= 1 =>
                        job[<<e, MaxAttempts>>] \in Live

\* Whoever works on a processed event is about to find that out.
OnlyChecks ==
    \A e \in Event : row[e] = "processed" /\ crashes = 0 =>
                        \A n \in Attempt : job[<<e, n>>] \in Working => job[<<e, n>>] = "check"

\* OneLiveJob, without the sets.
Alone ==
    crashes = 0 => \A e \in Event : \A m, n \in Attempt : job[<<e, m>>] \in Live /\ job[<<e, n>>] \in Live => m = n

\* The inductive invariant.
IInv == TypeOK /\ FirstStored /\ LastGivesUp /\ NotStalled /\ LastLives /\ OnlyChecks /\ Alone

\* Names of jobs are pairs.
LEMMA JobIs ==
    ASSUME NEW e \in Event, NEW n \in Attempt
    PROVE  /\ <<e, n>> \in Job /\ n \in Nat
           /\ \A f \in Event, m \in Attempt : <<f, m>> = <<e, n>> <=> f = e /\ m = n
BY DEF Job, Attempt

\* There is a first and a last attempt.
LEMMA Ends == 1 \in Attempt /\ MaxAttempts \in Attempt /\ MaxAttempts \in Nat \ {0}
BY WebhookAssumption DEF Attempt

\* Before the first delivery the invariant holds.
LEMMA IInvInit == Init => IInv
<1> SUFFICES ASSUME Init PROVE IInv
  OBVIOUS
<1>1. \A e \in Event, n \in Attempt : job[<<e, n>>] = "none"
  BY JobIs DEF Init
<1>2. "none" \notin Live \cup Running
  BY DEF Live, Running, Working
<1>3. TypeOK
  BY WebhookAssumption DEF Init, TypeOK
<1>4. \A e \in Event : row[e] = "none"
  BY DEF Init
<1>5. \A j \in Job : stalls[j] = 0
  BY DEF Init
<1> QED
  BY <1>1, <1>2, <1>3, <1>4, <1>5
  DEF IInv, FirstStored, LastGivesUp, NotStalled, LastLives, OnlyChecks, Alone, Live, Running, Working

\* A job goes from where it is at work to its next step s, its row to v.
LEMMA JobMoves ==
    ASSUME IInv, TypeOK', NEW e \in Event, NEW n \in Attempt, NEW s, NEW v,
           job[<<e, n>>] \in Live \cup Running, Goto(<<e, n>>, s), s # "none",
           s \in Live => job[<<e, n>>] \in Live,
           s \in {"setPending", "addRetry"} => n < MaxAttempts,
           s \in {"setFailed", "deadLetter"} => n = MaxAttempts,
           row' = [row EXCEPT ![e] = v], dlq \subseteq dlq', stalls' = stalls, crashes' = crashes,
           faults' = 0 => faults = 0,
           v = "failed" /\ e \notin dlq' /\ faults' = 0 /\ crashes <= 1 =>
                IF n = MaxAttempts THEN s \in Live ELSE row[e] = "failed",
           v = "processed" /\ crashes = 0 =>
                (s \in Working => s = "check") /\ (row[e] = "processed" \/ job[<<e, n>>] \in Live)
    PROVE  IInv'
<1>1. /\ job'[<<e, n>>] = s
      /\ \A f \in Event, m \in Attempt : f # e \/ m # n => job'[<<f, m>>] = job[<<f, m>>]
  BY JobIs DEF Goto, IInv, TypeOK
<1>2. row'[e] = v /\ \A f \in Event \ {e} : row'[f] = row[f]
  BY DEF IInv, TypeOK
<1>3. FirstStored'
  <2> SUFFICES ASSUME NEW f \in Event, job'[<<f, 1>>] = "none", NEW m \in Attempt
               PROVE  job'[<<f, m>>] \notin Live \cup Running
    BY DEF FirstStored, Live, Running, Working
  <2>1. job[<<f, 1>>] = "none"
    BY <1>1, Ends
  <2>2. f # e
    BY <2>1 DEF IInv, FirstStored
  <2> QED
    BY <1>1, <2>1, <2>2 DEF IInv, FirstStored
<1>4. LastGivesUp'
  BY <1>1 DEF IInv, LastGivesUp
<1>5. NotStalled'
  BY DEF IInv, NotStalled
<1>6. LastLives'
  <2> SUFFICES ASSUME NEW f \in Event, row'[f] = "failed", f \notin dlq', faults' = 0, crashes <= 1
               PROVE  job'[<<f, MaxAttempts>>] \in Live
    BY DEF LastLives, Live, Working
  <2>1. CASE f = e /\ n = MaxAttempts
    BY <1>1, <1>2, <2>1
  <2>2. CASE f # e \/ n # MaxAttempts
    <3>1. row[f] = "failed" /\ f \notin dlq /\ faults = 0
      BY <1>2, <2>2
    <3>2. job[<<f, MaxAttempts>>] \in Live
      BY <3>1 DEF IInv, LastLives
    <3> QED
      BY <1>1, <2>2, <3>2, Ends
  <2> QED
    BY <2>1, <2>2
<1>7. OnlyChecks'
  <2> SUFFICES ASSUME NEW f \in Event, row'[f] = "processed", crashes = 0, NEW m \in Attempt, job'[<<f, m>>] \in Working
               PROVE  job'[<<f, m>>] = "check"
    BY DEF OnlyChecks, Working
  <2>1. CASE f = e /\ m = n
    BY <1>1, <1>2, <2>1
  <2>2. CASE f # e
    BY <1>1, <1>2, <2>2 DEF IInv, OnlyChecks
  <2>3. CASE f = e /\ m # n
    <3>1. job[<<e, m>>] \in Working /\ job'[<<f, m>>] = job[<<e, m>>]
      BY <1>1, <2>3
    <3>2. job[<<e, m>>] \in Live
      BY <3>1 DEF Live
    <3>3. job[<<e, n>>] \notin Live
      BY <2>3, <3>2 DEF IInv, Alone
    <3> QED
      BY <1>2, <2>3, <3>1, <3>3 DEF IInv, OnlyChecks
  <2> QED
    BY <2>1, <2>2, <2>3
<1>8. Alone'
  <2> SUFFICES ASSUME crashes = 0, NEW f \in Event, NEW l \in Attempt, NEW m \in Attempt,
                      job'[<<f, l>>] \in Live, job'[<<f, m>>] \in Live
               PROVE  l = m
    BY DEF Alone, Live, Working
  <2>1. job[<<f, l>>] \in Live /\ job[<<f, m>>] \in Live
    BY <1>1
  <2> QED
    BY <2>1 DEF IInv, Alone
<1> QED
  BY <1>3, <1>4, <1>5, <1>6, <1>7, <1>8 DEF IInv
\* The same where the row stays as it is and its job goes on.
LEMMA JobGoesOn ==
    ASSUME IInv, TypeOK', NEW e \in Event, NEW n \in Attempt, NEW s,
           job[<<e, n>>] \in Live \cup Running, Goto(<<e, n>>, s), s # "none",
           s \in Live => job[<<e, n>>] \in Live,
           s \in {"setPending", "addRetry"} => n < MaxAttempts,
           s \in {"setFailed", "deadLetter"} => n = MaxAttempts,
           UNCHANGED <<row, stalls, crashes>>, dlq \subseteq dlq', faults' = 0 => faults = 0,
           row[e] = "failed" /\ e \notin dlq' /\ faults' = 0 /\ crashes <= 1 /\ n = MaxAttempts => s \in Live,
           row[e] = "processed" /\ crashes = 0 => (s \in Working => s = "check")
    PROVE  IInv'
<1>1. row' = [row EXCEPT ![e] = row[e]]
  BY DEF IInv, TypeOK
<1> QED
  BY <1>1, JobMoves

\* A handler that throws leaves a fault behind.
LEMMA ThrowKeeps ==
    ASSUME IInv, TypeOK', NEW e \in Event, NEW n \in Attempt, job[<<e, n>>] \in Working, HandlerThrows(<<e, n>>)
    PROVE  IInv'
<1>1. /\ Goto(<<e, n>>, "throw") /\ UNCHANGED <<row, stalls, crashes, dlq>> /\ faults' # 0
  <2>1. faults \in Nat
    BY WebhookAssumption DEF IInv, TypeOK
  <2> QED
    BY <2>1 DEF HandlerThrows, Fault
<1> DEFINE s == "throw"
<1>2. s # "none" /\ s \notin Live /\ s \notin Working /\ job[<<e, n>>] \in Live \cup Running
  BY DEF Live, Running, Working
<1> QED
  BY <1>1, <1>2, JobGoesOn

\* The steps of a job keep the invariant.
LEMMA DueKeeps == ASSUME IInv, TypeOK', NEW e \in Event, NEW n \in Attempt, Due(e, n) PROVE IInv'
<1> DEFINE s == IF job[<<e, n>>] = "delayed" THEN "waiting" ELSE "check"
<1>1. /\ Goto(<<e, n>>, s) /\ UNCHANGED <<row, stalls, crashes, dlq, faults>> /\ job[<<e, n>>] \in Live
  BY DEF Due, Live
<1>2. /\ s # "none" /\ s \in Live /\ s \notin {"setPending", "addRetry", "setFailed", "deadLetter"}
      /\ (s \in Working => s = "check")
  BY DEF Live, Working
<1> QED
  BY <1>1, <1>2, JobGoesOn

\* A check goes on only with an event that is not processed.
LEMMA CheckKeeps == ASSUME IInv, TypeOK', NEW e \in Event, NEW n \in Attempt, Check(e, n) PROVE IInv'
<1> DEFINE s == IF row[e] = "processed" THEN "return" ELSE "apply"
<1>1. job[<<e, n>>] \in Working /\ job[<<e, n>>] \in Live
  BY DEF Check, Working, Live
<1>2. CASE Goto(<<e, n>>, s) /\ NoFault /\ UNCHANGED <<row, stalls, routeVars, dlq, status, crashes>>
  <2>1. /\ s # "none" /\ (s \in Live <=> row[e] # "processed") /\ s \notin {"setPending", "addRetry", "setFailed", "deadLetter"}
        /\ (s \in Working <=> row[e] # "processed")
    BY DEF Live, Working
  <2> QED
    BY <1>1, <1>2, <2>1, JobGoesOn DEF NoFault
<1> QED
  BY <1>1, <1>2, ThrowKeeps DEF Check

\* What the catch goes on with.
LEMMA ErrorGoesOn ==
    ASSUME IInv, TypeOK', NEW e \in Event, NEW n \in Attempt, job[<<e, n>>] \in Working \ {"check"},
           Goto(<<e, n>>, OnError(n)), UNCHANGED <<row, stalls, crashes, dlq, faults>>
    PROVE  IInv'
<1> DEFINE s == OnError(n)
<1>1. n \in 1 .. MaxAttempts /\ MaxAttempts \in Nat
  BY Ends DEF Attempt
<1>2. /\ s # "none" /\ s \in Live
      /\ (s \in {"setPending", "addRetry"} => n < MaxAttempts)
      /\ (s \in {"setFailed", "deadLetter"} => n = MaxAttempts)
  BY <1>1 DEF OnError, Live, Working
<1>3. ~ (row[e] = "processed" /\ crashes = 0) /\ job[<<e, n>>] \in Live
  BY DEF IInv, OnlyChecks, Live
<1> HIDE DEF s
<1> QED
  BY <1>2, <1>3, JobGoesOn DEF s

\* Applying an event writes the tenant, or nothing.
LEMMA ApplyKeeps == ASSUME IInv, TypeOK', NEW e \in Event, NEW n \in Attempt, Apply(e, n) PROVE IInv'
<1>1. /\ job[<<e, n>>] \in Working \ {"check"} /\ job[<<e, n>>] \in Live
      /\ UNCHANGED <<row, stalls, crashes, dlq, faults>>
  BY DEF Apply, Working, Live
<1>2. CASE Goto(<<e, n>>, "mark")
  <2>1. "mark" \in Live /\ "mark" # "none" /\ "mark" \notin {"setPending", "addRetry", "setFailed", "deadLetter"}
    BY DEF Live, Working
  <2>2. ~ (row[e] = "processed" /\ crashes = 0)
    BY <1>1 DEF IInv, OnlyChecks
  <2> QED
    BY <1>1, <1>2, <2>1, <2>2, JobGoesOn
<1>3. CASE Goto(<<e, n>>, OnError(n))
  BY <1>1, <1>3, ErrorGoesOn
<1> QED
  BY <1>2, <1>3 DEF Apply

\* The job that marks an event processed is its only one.
LEMMA MarkKeeps == ASSUME IInv, TypeOK', NEW e \in Event, NEW n \in Attempt, MarkProcessed(e, n) PROVE IInv'
<1>1. /\ job[<<e, n>>] \in Working \ {"check"} /\ job[<<e, n>>] \in Live
      /\ UNCHANGED <<stalls, crashes, dlq, faults>>
  BY DEF MarkProcessed, Working, Live
<1>2. CASE row' = [row EXCEPT ![e] = "processed"] /\ Goto(<<e, n>>, "return")
  <2>1. "return" \notin Live /\ "return" \notin Working
    BY DEF Live, Working
  <2> QED
    BY <1>1, <1>2, <2>1, JobMoves
<1>3. CASE Goto(<<e, n>>, OnError(n)) /\ UNCHANGED row
  BY <1>1, <1>3, ErrorGoesOn
<1> QED
  BY <1>2, <1>3 DEF MarkProcessed

\* Only an attempt that is not the last sets its event pending.
LEMMA PendingKeeps == ASSUME IInv, TypeOK', NEW e \in Event, NEW n \in Attempt, SetPending(e, n) PROVE IInv'
<1>1. job[<<e, n>>] = "setPending" /\ job[<<e, n>>] \in Working /\ job[<<e, n>>] \in Live /\ n < MaxAttempts
  BY DEF SetPending, Working, Live, IInv, LastGivesUp
<1>2. CASE /\ row' = [row EXCEPT ![e] = "pending"] /\ Goto(<<e, n>>, "addRetry") /\ NoFault
           /\ UNCHANGED <<stalls, routeVars, dlq, status, crashes>>
  BY <1>1, <1>2, JobMoves DEF NoFault
<1> QED
  BY <1>1, <1>2, ThrowKeeps DEF SetPending

\* The last attempt that marks its event failed goes on to the dead-letter queue.
LEMMA FailedKeeps == ASSUME IInv, TypeOK', NEW e \in Event, NEW n \in Attempt, SetFailed(e, n) PROVE IInv'
<1>1. job[<<e, n>>] = "setFailed" /\ job[<<e, n>>] \in Working /\ job[<<e, n>>] \in Live /\ n = MaxAttempts
  BY DEF SetFailed, Working, Live, IInv, LastGivesUp
<1>2. CASE /\ row' = [row EXCEPT ![e] = "failed"] /\ Goto(<<e, n>>, "deadLetter") /\ NoFault
           /\ UNCHANGED <<stalls, routeVars, dlq, status, crashes>>
  <2>1. "deadLetter" \in Live
    BY DEF Live, Working
  <2> QED
    BY <1>1, <1>2, <2>1, JobMoves DEF NoFault
<1> QED
  BY <1>1, <1>2, ThrowKeeps DEF SetFailed

\* The dead-letter queue gets the event.
LEMMA DeadLetterKeeps == ASSUME IInv, TypeOK', NEW e \in Event, NEW n \in Attempt, DeadLetter(e, n) PROVE IInv'
<1>1. job[<<e, n>>] \in Working /\ job[<<e, n>>] \in Live
  BY DEF DeadLetter, Working, Live
<1>2. CASE /\ dlq' = dlq \cup {e} /\ Goto(<<e, n>>, "return") /\ NoFault
           /\ UNCHANGED <<row, stalls, routeVars, status, crashes>>
  <2>1. "return" \notin Live /\ "return" \notin Working
    BY DEF Live, Working
  <2> QED
    BY <1>1, <1>2, <2>1, JobGoesOn DEF NoFault
<1> QED
  BY <1>1, <1>2, ThrowKeeps DEF DeadLetter

\* BullMQ records a job that is over: its event is not waiting for it.
LEMMA RecordKeeps == ASSUME IInv, TypeOK', NEW e \in Event, NEW n \in Attempt, Record(e, n) PROVE IInv'
<1> DEFINE s == IF job[<<e, n>>] = "return" THEN "completed" ELSE "failed"
<1>1. /\ job[<<e, n>>] \in Running /\ job[<<e, n>>] \notin Live
      /\ Goto(<<e, n>>, s) /\ UNCHANGED <<row, stalls, crashes, dlq, faults>>
  BY DEF Record, Running, Working, Live
<1>2. s # "none" /\ s \notin Live /\ s \notin Working /\ s \notin {"setPending", "addRetry", "setFailed", "deadLetter"}
  BY DEF Live, Working
<1>3. ~ (row[e] = "failed" /\ e \notin dlq /\ faults = 0 /\ crashes <= 1 /\ n = MaxAttempts)
  BY <1>1 DEF IInv, LastLives
<1> QED
  BY <1>1, <1>2, <1>3, JobGoesOn
\* The retry is the event's one live job from the moment it is added.
LEMMA RetryKeeps == ASSUME IInv, TypeOK', NEW e \in Event, NEW n \in Attempt, AddRetry(e, n) PROVE IInv'
<1>1. /\ job[<<e, n>>] = "addRetry" /\ job[<<e, n>>] \in Working /\ job[<<e, n>>] \in Live
      /\ n < MaxAttempts /\ n \in Nat /\ n + 1 \in Attempt /\ n + 1 # n
  <2>1. job[<<e, n>>] = "addRetry" /\ job[<<e, n>>] \in Working /\ job[<<e, n>>] \in Live
    BY DEF AddRetry, Working, Live
  <2>2. n < MaxAttempts
    BY <2>1 DEF IInv, LastGivesUp
  <2> QED
    BY <2>1, <2>2, Ends DEF Attempt
<1>2. CASE /\ job' = [Add(<<e, n + 1>>, "delayed") EXCEPT ![<<e, n>>] = "return"] /\ NoFault
           /\ UNCHANGED <<row, stalls, routeVars, dlq, status, crashes>>
  <2>1. "return" \notin Live /\ "return" \notin Working /\ "delayed" \in Live /\ "delayed" \notin Working
    BY DEF Live, Working
  <2>2. CASE job[<<e, n + 1>>] # "none"
    <3>1. Goto(<<e, n>>, "return")
      BY <1>2, <2>2 DEF Add, Goto
    <3> QED
      BY <1>1, <1>2, <2>1, <3>1, JobGoesOn DEF NoFault
  <2>3. CASE job[<<e, n + 1>>] = "none"
    <3>1. /\ job'[<<e, n>>] = "return" /\ job'[<<e, n + 1>>] = "delayed"
          /\ \A f \in Event, m \in Attempt : f # e \/ (m # n /\ m # n + 1) => job'[<<f, m>>] = job[<<f, m>>]
      BY <1>1, <1>2, <2>3, JobIs DEF Add, IInv, TypeOK
    <3>2. UNCHANGED <<row, stalls, dlq, crashes, faults>>
      BY <1>2 DEF NoFault
    <3>3. FirstStored'
      <4> SUFFICES ASSUME NEW f \in Event, job'[<<f, 1>>] = "none", NEW m \in Attempt
                   PROVE  job'[<<f, m>>] \notin Live \cup Running
        BY DEF FirstStored, Live, Running, Working
      <4>1. CASE f = e
        <5>1. job[<<e, 1>>] = "none"
          BY <3>1, <4>1, Ends
        <5> QED
          BY <1>1, <5>1 DEF IInv, FirstStored
      <4>2. CASE f # e
        BY <3>1, <4>2, Ends DEF IInv, FirstStored
      <4> QED
        BY <4>1, <4>2
    <3>4. LastGivesUp'
      BY <3>1 DEF IInv, LastGivesUp
    <3>5. NotStalled'
      BY <3>2 DEF IInv, NotStalled
    <3>6. LastLives'
      <4> SUFFICES ASSUME NEW f \in Event, row[f] = "failed", f \notin dlq, faults = 0, crashes <= 1
                   PROVE  job'[<<f, MaxAttempts>>] \in Live
        BY <3>2 DEF LastLives, Live, Working
      <4>1. job[<<f, MaxAttempts>>] \in Live
        BY DEF IInv, LastLives
      <4> QED
        BY <1>1, <2>1, <3>1, <4>1, Ends
    <3>7. OnlyChecks'
      BY <2>1, <3>1, <3>2 DEF IInv, OnlyChecks, Working
    <3>8. Alone'
      <4> SUFFICES ASSUME crashes = 0, NEW f \in Event, NEW l \in Attempt, NEW m \in Attempt,
                          job'[<<f, l>>] \in Live, job'[<<f, m>>] \in Live
                   PROVE  l = m
        BY <3>2 DEF Alone, Live, Working
      <4>1. CASE f = e
        <5>1. \A k \in Attempt : job[<<e, k>>] \in Live => k = n
          BY <1>1 DEF IInv, Alone
        <5>2. \A k \in Attempt : job'[<<e, k>>] \in Live => k = n + 1
          BY <2>1, <3>1, <5>1
        <5> QED
          BY <4>1, <5>2
      <4>2. CASE f # e
        BY <3>1, <4>2 DEF IInv, Alone
      <4> QED
        BY <4>1, <4>2
    <3> QED
      BY <3>3, <3>4, <3>5, <3>6, <3>7, <3>8 DEF IInv
  <2> QED
    BY <2>2, <2>3
<1> QED
  BY <1>1, <1>2, ThrowKeeps DEF AddRetry

\* A delivery makes a row, and leaves the rows and jobs there are.
LEMMA DeliverKeeps == ASSUME IInv, TypeOK', NEW e \in Event, Deliver(e) PROVE IInv'
<1>1. UNCHANGED <<job, stalls, dlq, crashes>>
  BY DEF Deliver
<1>2. \A f \in Event : row'[f] = row[f] \/ row'[f] = "pending"
  BY DEF Deliver, IInv, TypeOK
<1>3. faults' = 0 => faults = 0
  BY WebhookAssumption DEF Deliver, Fault, NoFault, IInv, TypeOK
<1>4. LastLives'
  BY <1>1, <1>2, <1>3 DEF IInv, LastLives
<1>5. OnlyChecks'
  BY <1>1, <1>2 DEF IInv, OnlyChecks
<1> QED
  BY <1>1, <1>4, <1>5 DEF IInv, FirstStored, LastGivesUp, NotStalled, Alone

\* The first job is added only to an event without a live one.
LEMMA EnqueueKeeps == ASSUME IInv, TypeOK', NEW e \in Event, Enqueue(e) PROVE IInv'
<1>1. UNCHANGED <<row, stalls, dlq, crashes>>
  BY DEF Enqueue
<1>2. faults' = 0 => faults = 0
  BY WebhookAssumption DEF Enqueue, Fault, NoFault, IInv, TypeOK
<1>3. CASE job' = job
  BY <1>1, <1>2, <1>3 DEF IInv, FirstStored, LastGivesUp, NotStalled, LastLives, OnlyChecks, Alone
<1>4. CASE job[<<e, 1>>] = "none" /\ job' = [job EXCEPT ![<<e, 1>>] = "waiting"]
  <2>1. /\ job'[<<e, 1>>] = "waiting" /\ "waiting" \in Live /\ "waiting" \notin Working
        /\ \A f \in Event, m \in Attempt : f # e \/ m # 1 => job'[<<f, m>>] = job[<<f, m>>]
    BY <1>4, JobIs, Ends DEF IInv, TypeOK, Live, Working
  <2>2. \A m \in Attempt : job[<<e, m>>] \notin Live \cup Running
    BY <1>4 DEF IInv, FirstStored
  <2>3. FirstStored'
    BY <2>1, Ends DEF IInv, FirstStored
  <2>4. LastGivesUp'
    BY <2>1 DEF IInv, LastGivesUp
  <2>5. NotStalled'
    BY <1>1 DEF IInv, NotStalled
  <2>6. LastLives'
    BY <1>1, <1>2, <2>1, Ends DEF IInv, LastLives
  <2>7. OnlyChecks'
    BY <1>1, <2>1 DEF IInv, OnlyChecks
  <2>8. Alone'
    <3> SUFFICES ASSUME crashes = 0, NEW f \in Event, NEW l \in Attempt, NEW m \in Attempt,
                        job'[<<f, l>>] \in Live, job'[<<f, m>>] \in Live
                 PROVE  l = m
      BY <1>1 DEF Alone, Live, Working
    <3>1. CASE f = e
      BY <2>1, <2>2, <3>1
    <3>2. CASE f # e
      BY <2>1, <3>2 DEF IInv, Alone
    <3> QED
      BY <3>1, <3>2
  <2> QED
    BY <2>3, <2>4, <2>5, <2>6, <2>7, <2>8 DEF IInv
<1>5. job' = job \/ (job[<<e, 1>>] = "none" /\ job' = [job EXCEPT ![<<e, 1>>] = "waiting"])
  BY DEF Enqueue, Add
<1> QED
  BY <1>3, <1>4, <1>5

\* The first job expires when the event has no live one.
LEMMA ExpireKeeps == ASSUME IInv, TypeOK', NEW e \in Event, Expire(e) PROVE IInv'
<1>1. UNCHANGED <<row, dlq, crashes, faults>> /\ stalls' = [stalls EXCEPT ![<<e, 1>>] = 0]
  BY DEF Expire
<1>2. \A m \in Attempt : job[<<e, m>>] \notin Live \cup Running
  BY DEF Expire
<1>3. /\ job'[<<e, 1>>] = "none" /\ "none" \notin Live \cup Running
      /\ \A f \in Event, m \in Attempt : f # e \/ m # 1 => job'[<<f, m>>] = job[<<f, m>>]
  BY JobIs, Ends DEF Expire, Goto, IInv, TypeOK, Live, Running, Working
<1>4. \A f \in Event, m \in Attempt : job'[<<f, m>>] \in Live \cup Running => f # e /\ job'[<<f, m>>] = job[<<f, m>>]
  BY <1>2, <1>3
<1>5. FirstStored'
  <2> SUFFICES ASSUME NEW f \in Event, job'[<<f, 1>>] = "none", NEW m \in Attempt
               PROVE  job'[<<f, m>>] \notin Live \cup Running
    BY DEF FirstStored, Live, Running, Working
  <2> QED
    BY <1>3, <1>4, Ends DEF IInv, FirstStored
<1>6. LastGivesUp'
  BY <1>3 DEF IInv, LastGivesUp
<1>7. NotStalled'
  BY <1>1 DEF IInv, NotStalled, TypeOK
<1>8. LastLives'
  <2> SUFFICES ASSUME NEW f \in Event, row[f] = "failed", f \notin dlq, faults = 0, crashes <= 1
               PROVE  job'[<<f, MaxAttempts>>] \in Live
    BY <1>1 DEF LastLives, Live, Working
  <2>1. job[<<f, MaxAttempts>>] \in Live
    BY DEF IInv, LastLives
  <2>2. f # e
    BY <1>2, <2>1, Ends
  <2> QED
    BY <1>3, <2>1, <2>2, Ends
<1>9. OnlyChecks'
  BY <1>1, <1>3 DEF IInv, OnlyChecks, Working
<1>10. Alone'
  <2> SUFFICES ASSUME crashes = 0, NEW f \in Event, NEW l \in Attempt, NEW m \in Attempt,
                      job'[<<f, l>>] \in Live, job'[<<f, m>>] \in Live
               PROVE  l = m
    BY <1>1 DEF Alone, Live, Working
  <2>1. f # e /\ job[<<f, l>>] \in Live /\ job[<<f, m>>] \in Live
    BY <1>4
  <2> QED
    BY <2>1 DEF IInv, Alone
<1> QED
  BY <1>5, <1>6, <1>7, <1>8, <1>9, <1>10 DEF IInv

\* The first crash finds no job recovered before, so all that run are queued again.
LEMMA CrashKeeps == ASSUME IInv, TypeOK', Crash PROVE IInv'
<1>1. UNCHANGED <<row, dlq, faults>> /\ crashes \in Nat /\ crashes' = crashes + 1
  BY WebhookAssumption DEF Crash, IInv, TypeOK
<1>2. \A j \in Job : job'[j] = IF job[j] \notin Running THEN job[j] ELSE IF stalls[j] = 0 THEN "waiting" ELSE "failed"
  BY DEF Crash
<1>3. FirstStored'
  <2> SUFFICES ASSUME NEW f \in Event, job'[<<f, 1>>] = "none", NEW m \in Attempt
               PROVE  job'[<<f, m>>] \notin Live \cup Running
    BY DEF FirstStored, Live, Running, Working
  <2>1. job[<<f, 1>>] = "none"
    BY <1>2, Ends, JobIs
  <2>2. job[<<f, m>>] \notin Live \cup Running
    BY <2>1 DEF IInv, FirstStored
  <2> QED
    BY <1>2, <2>2, JobIs
<1>4. LastGivesUp'
  BY <1>2, JobIs DEF IInv, LastGivesUp, Running, Working
<1>5. crashes' # 0
  BY <1>1
<1>6. NotStalled' /\ OnlyChecks' /\ Alone'
  BY <1>5 DEF NotStalled, OnlyChecks, Alone
<1>7. LastLives'
  <2> SUFFICES ASSUME NEW f \in Event, row[f] = "failed", f \notin dlq, faults = 0, crashes' <= 1
               PROVE  job'[<<f, MaxAttempts>>] \in Live
    BY <1>1 DEF LastLives, Live, Working
  <2>1. crashes = 0
    BY <1>1
  <2>2. stalls[<<f, MaxAttempts>>] = 0 /\ job[<<f, MaxAttempts>>] \in Live
    BY <2>1, Ends, JobIs DEF IInv, NotStalled, LastLives
  <2> QED
    BY <1>2, <2>2, Ends, JobIs DEF Live
<1> QED
  BY <1>3, <1>4, <1>6, <1>7 DEF IInv

\* A job's next step is a place a job can be at.
LEMMA JobTyped ==
    ASSUME TypeOK, NEW e \in Event, NEW n \in Attempt, JobStep(e, n)
    PROVE  job' \in [Job -> Live \cup Running \cup Over \cup {"none"}]
<1> DEFINE All == Live \cup Running \cup Over \cup {"none"}
<1>1. job \in [Job -> All] /\ <<e, n>> \in Job
  BY JobIs DEF TypeOK
<1>2. /\ "waiting" \in All /\ "check" \in All /\ "apply" \in All /\ "mark" \in All /\ "setPending" \in All
      /\ "addRetry" \in All /\ "setFailed" \in All /\ "deadLetter" \in All /\ "delayed" \in All
      /\ "return" \in All /\ "throw" \in All /\ "completed" \in All /\ "failed" \in All
  BY DEF Live, Running, Working, Over
<1> SUFFICES job' \in [Job -> All]
  OBVIOUS
<1> HIDE DEF All
<1>3. \A s \in All : Goto(<<e, n>>, s) => job' \in [Job -> All]
  BY <1>1 DEF Goto
<1>4. ASSUME HandlerThrows(<<e, n>>) PROVE job' \in [Job -> All]
  BY <1>2, <1>3, <1>4 DEF HandlerThrows
<1>5. OnError(n) \in All
  BY <1>2 DEF OnError
<1>6. CASE Due(e, n)
  BY <1>2, <1>3, <1>6 DEF Due
<1>7. CASE Check(e, n)
  BY <1>2, <1>3, <1>4, <1>7 DEF Check
<1>8. CASE Apply(e, n)
  BY <1>2, <1>3, <1>5, <1>8 DEF Apply
<1>9. CASE MarkProcessed(e, n)
  BY <1>2, <1>3, <1>5, <1>9 DEF MarkProcessed
<1>10. CASE SetPending(e, n)
  BY <1>2, <1>3, <1>4, <1>10 DEF SetPending
<1>11. CASE AddRetry(e, n)
  <2>1. Add(<<e, n + 1>>, "delayed") \in [Job -> All]
    BY <1>1, <1>2 DEF Add
  <2>2. CASE job' = [Add(<<e, n + 1>>, "delayed") EXCEPT ![<<e, n>>] = "return"]
    BY <1>2, <2>1, <2>2
  <2> QED
    BY <1>4, <1>11, <2>2 DEF AddRetry
<1>12. CASE SetFailed(e, n)
  BY <1>2, <1>3, <1>4, <1>12 DEF SetFailed
<1>13. CASE DeadLetter(e, n)
  BY <1>2, <1>3, <1>4, <1>13 DEF DeadLetter
<1>14. CASE Record(e, n)
  BY <1>2, <1>3, <1>14 DEF Record
<1> QED
  BY <1>6, <1>7, <1>8, <1>9, <1>10, <1>11, <1>12, <1>13, <1>14 DEF JobStep

\* What a job does to everything else keeps its type.
LEMMA JobStepTyped == ASSUME TypeOK, NEW e \in Event, NEW n \in Attempt, JobStep(e, n) PROVE TypeOK'
<1>1. job' \in [Job -> Live \cup Running \cup Over \cup {"none"}]
  BY JobTyped
<1>2. UNCHANGED <<stalls, routeVars, crashes>>
  BY DEF JobStep, Due, Check, Apply, MarkProcessed, SetPending, AddRetry, SetFailed, DeadLetter, Record, HandlerThrows
<1>3. faults' \in 0 .. MaxFaults
  <2>1. faults' = faults \/ Fault
    BY DEF JobStep, Due, Check, Apply, MarkProcessed, SetPending, AddRetry, SetFailed, DeadLetter, Record, HandlerThrows,
           NoFault
  <2> QED
    BY <2>1, WebhookAssumption DEF TypeOK, Fault
<1>4. row' \in [Event -> {"none", "pending", "processed", "failed"}]
  <2>1. row' = row \/ \E v \in {"pending", "processed", "failed"} : row' = [row EXCEPT ![e] = v]
    BY DEF JobStep, Due, Check, Apply, MarkProcessed, SetPending, AddRetry, SetFailed, DeadLetter, Record, HandlerThrows
  <2> QED
    BY <2>1 DEF TypeOK
<1>5. dlq' \subseteq Event
  <2>1. dlq' = dlq \/ dlq' = dlq \cup {e}
    BY DEF JobStep, Due, Check, Apply, MarkProcessed, SetPending, AddRetry, SetFailed, DeadLetter, Record, HandlerThrows
  <2> QED
    BY <2>1 DEF TypeOK
<1>6. status' \in [Tenant -> {"active", "past_due", "canceled"}]
  <2>1. \/ status' = status
        \/ status' = [status EXCEPT ![TenantOf[e]] = IF Effect[e] = "none" THEN @ ELSE Effect[e]]
    BY DEF JobStep, Due, Check, Apply, MarkProcessed, SetPending, AddRetry, SetFailed, DeadLetter, Record, HandlerThrows
  <2>2. Effect[e] \in {"active", "canceled", "none"} /\ TenantOf[e] \in Tenant
    BY WebhookAssumption
  <2> QED
    BY <2>1, <2>2 DEF TypeOK
<1> QED
  BY <1>1, <1>2, <1>3, <1>4, <1>5, <1>6 DEF TypeOK, routeVars

\* Every step keeps the types.
LEMMA TypeNext == TypeOK /\ [Next]_vars => TypeOK'
<1> SUFFICES ASSUME TypeOK, [Next]_vars PROVE TypeOK'
  OBVIOUS
<1>1. ASSUME NEW e \in Event, Deliver(e) PROVE TypeOK'
  <2>1. row' \in [Event -> {"none", "pending", "processed", "failed"}]
    BY <1>1 DEF Deliver, TypeOK
  <2>2. /\ arriving' \in [Event -> 0 .. MaxDeliveries] /\ deliveries' \in [Event -> 0 .. MaxDeliveries]
        /\ \A f \in Event : arriving'[f] <= deliveries'[f]
    <3>1. arriving[e] \in Nat /\ deliveries[e] \in Nat /\ deliveries[e] < MaxDeliveries /\ arriving[e] <= deliveries[e]
      BY <1>1, WebhookAssumption DEF Deliver, TypeOK
    <3>2. deliveries' = [deliveries EXCEPT ![e] = deliveries[e] + 1]
      BY <1>1 DEF Deliver
    <3>3. arriving' = [arriving EXCEPT ![e] = arriving[e] + 1] \/ arriving' = arriving
      BY <1>1 DEF Deliver
    <3>4. deliveries[e] + 1 \in 0 .. MaxDeliveries /\ arriving[e] + 1 \in 0 .. MaxDeliveries
      BY <3>1, WebhookAssumption
    <3>5. arriving' \in [Event -> 0 .. MaxDeliveries] /\ deliveries' \in [Event -> 0 .. MaxDeliveries]
      BY <3>2, <3>3, <3>4 DEF TypeOK
    <3>6. \A f \in Event : arriving'[f] <= deliveries'[f]
      <4> SUFFICES ASSUME NEW f \in Event PROVE arriving'[f] <= deliveries'[f]
        OBVIOUS
      <4>1. CASE f = e
        BY <3>1, <3>2, <3>3, <4>1 DEF TypeOK
      <4>2. CASE f # e
        BY <3>2, <3>3, <4>2 DEF TypeOK
      <4> QED
        BY <4>1, <4>2
    <3> QED
      BY <3>5, <3>6
  <2>3. acked' \subseteq Event /\ faults' \in 0 .. MaxFaults
    BY <1>1, WebhookAssumption DEF Deliver, Fault, NoFault, TypeOK
  <2> QED
    BY <1>1, <2>1, <2>2, <2>3 DEF Deliver, TypeOK
<1>2. ASSUME NEW e \in Event, Enqueue(e) PROVE TypeOK'
  <2>1. arriving' = [arriving EXCEPT ![e] = arriving[e] - 1] /\ arriving[e] > 0
    BY <1>2 DEF Enqueue
  <2>2. arriving[e] - 1 \in 0 .. MaxDeliveries
    BY <2>1, WebhookAssumption DEF TypeOK
  <2>3. arriving' \in [Event -> 0 .. MaxDeliveries] /\ \A f \in Event : arriving'[f] <= deliveries[f]
    BY <2>1, <2>2, WebhookAssumption DEF TypeOK
  <2>4. job' \in [Job -> Live \cup Running \cup Over \cup {"none"}]
    <3>1. "waiting" \in Live
      BY DEF Live
    <3> QED
      BY <1>2, <3>1 DEF Enqueue, Add, TypeOK
  <2>5. acked' \subseteq Event /\ faults' \in 0 .. MaxFaults
    BY <1>2, WebhookAssumption DEF Enqueue, Fault, NoFault, TypeOK
  <2> QED
    BY <1>2, <2>3, <2>4, <2>5 DEF Enqueue, TypeOK
<1>3. ASSUME NEW e \in Event, Expire(e) PROVE TypeOK'
  <2>1. job' \in [Job -> Live \cup Running \cup Over \cup {"none"}]
    BY <1>3 DEF Expire, Goto, TypeOK
  <2>2. stalls' \in [Job -> 0 .. 1]
    <3>1. stalls' = [stalls EXCEPT ![<<e, 1>>] = 0] /\ stalls \in [Job -> 0 .. 1] /\ 0 \in 0 .. 1
      BY <1>3 DEF Expire, TypeOK
    <3> QED
      BY <3>1
  <2> QED
    BY <1>3, <2>1, <2>2 DEF Expire, TypeOK, routeVars
<1>4. ASSUME NEW e \in Event, NEW n \in Attempt, JobStep(e, n) PROVE TypeOK'
  BY <1>4, JobStepTyped
<1>5. CASE Crash
  <2>1. job' \in [Job -> Live \cup Running \cup Over \cup {"none"}]
    <3>1. "waiting" \in Live /\ "failed" \in Over
      BY DEF Live, Over
    <3> QED
      BY <1>5, <3>1 DEF Crash, TypeOK
  <2>2. stalls' \in [Job -> 0 .. 1]
    BY <1>5 DEF Crash, TypeOK
  <2>3. /\ arriving' \in [Event -> 0 .. MaxDeliveries] /\ crashes' \in 0 .. MaxCrashes
        /\ \A f \in Event : arriving'[f] <= deliveries[f]
    BY <1>5, WebhookAssumption DEF Crash, TypeOK
  <2> QED
    BY <1>5, <2>1, <2>2, <2>3 DEF Crash, TypeOK
<1>6. CASE UNCHANGED vars
  BY <1>6 DEF vars, TypeOK
<1> QED
  BY <1>1, <1>2, <1>3, <1>4, <1>5, <1>6 DEF Next

\* Every step keeps the invariant.
LEMMA IInvNext == IInv /\ [Next]_vars => IInv'
<1> SUFFICES ASSUME IInv, [Next]_vars PROVE IInv'
  OBVIOUS
<1>1. TypeOK'
  BY TypeNext DEF IInv
<1>2. ASSUME NEW e \in Event, Deliver(e) \/ Enqueue(e) \/ Expire(e) PROVE IInv'
  BY <1>1, <1>2, DeliverKeeps, EnqueueKeeps, ExpireKeeps
<1>3. ASSUME NEW e \in Event, NEW n \in Attempt, JobStep(e, n) PROVE IInv'
  BY <1>1, <1>3, DueKeeps, CheckKeeps, ApplyKeeps, MarkKeeps, PendingKeeps, RetryKeeps, FailedKeeps, DeadLetterKeeps,
     RecordKeeps DEF JobStep
<1>4. CASE Crash
  BY <1>1, <1>4, CrashKeeps
<1>5. CASE UNCHANGED vars
  BY <1>1, <1>5 DEF vars, IInv, FirstStored, LastGivesUp, NotStalled, LastLives, OnlyChecks, Alone
<1> QED
  BY <1>2, <1>3, <1>4, <1>5 DEF Next

\* The invariant holds in every behaviour.
LEMMA Inductive == Spec => []IInv
BY IInvInit, IInvNext, PTL DEF Spec

-----------------------------------------------------------------------------
\* Rows, jobs and counters stay in their types, for any events and bounds.
THEOREM TypeCorrect == Spec => []TypeOK
<1>1. IInv => TypeOK
  BY DEF IInv
<1> QED
  BY <1>1, Inductive, PTL

\* However many deliveries and attempts there are, an event never has two jobs
\* queued, delayed or at work while no process has died
\* (webhookRetryService.ts:36, 146-152).
THEOREM OneJobPerEvent == Spec => []OneLiveJob
<1>1. IInv => OneLiveJob
  BY DEF IInv, Alone, OneLiveJob, LiveJobs
<1> QED
  BY <1>1, Inductive, PTL

\* An event that failed is in the dead-letter queue, or its last attempt is still
\* to put it there, but for faults and a second crash (webhookRetryService.ts:165).
THEOREM NoFailureIsLost == Spec => []FailedIsDeadLettered
<1>1. IInv => FailedIsDeadLettered
  <2> SUFFICES ASSUME IInv, NEW e \in Event, row[e] = "failed", e \notin dlq, ~(faults > 0), ~(crashes > 1)
               PROVE  LiveJobs(e) # {}
    BY DEF FailedIsDeadLettered
  <2>1. faults = 0 /\ crashes <= 1
    BY WebhookAssumption DEF IInv, TypeOK
  <2>2. job[<<e, MaxAttempts>>] \in Live
    BY <2>1 DEF IInv, LastLives
  <2> QED
    BY <2>2, Ends DEF LiveJobs
<1> QED
  BY <1>1, Inductive, PTL

\* A processed event stays processed, and nobody gets past the idempotency check
\* with it, while no process has died (webhookRetryService.ts:113).
THEOREM ProcessedOnce == Spec => ProcessedIsFinal
<1>1. IInv /\ IInv' /\ [Next]_vars =>
         [\A e \in Event : row[e] = "processed" /\ crashes' = 0 =>
              /\ row'[e] = "processed"
              /\ \A n \in Attempt : job'[<<e, n>>] \in Working => job'[<<e, n>>] = "check"]_vars
  <2> SUFFICES ASSUME IInv, IInv', Next, NEW e \in Event, row[e] = "processed", crashes' = 0
               PROVE  /\ row'[e] = "processed"
                      /\ \A n \in Attempt : job'[<<e, n>>] \in Working => job'[<<e, n>>] = "check"
    OBVIOUS
  <2>1. crashes = 0 /\ ~Crash
    <3>1. crashes \in Nat
      BY WebhookAssumption DEF IInv, TypeOK
    <3>2. ~Crash
      BY <3>1 DEF Crash
    <3> QED
      BY <3>2 DEF Next, Deliver, Enqueue, Expire, JobStep, Due, Check, Apply, MarkProcessed, SetPending, AddRetry,
                  SetFailed, DeadLetter, Record, HandlerThrows
  <2>2. \A n \in Attempt : job[<<e, n>>] \notin {"setPending", "setFailed"}
    BY <2>1 DEF IInv, OnlyChecks, Working
  <2>3. row'[e] = "processed"
    <3>1. ASSUME NEW f \in Event, Deliver(f) \/ Enqueue(f) \/ Expire(f) PROVE row'[e] = row[e]
      BY <3>1 DEF Deliver, Enqueue, Expire, IInv, TypeOK
    <3>2. ASSUME NEW f \in Event, NEW n \in Attempt, JobStep(f, n) PROVE row'[e] = "processed"
      <4>1. CASE SetPending(f, n) \/ SetFailed(f, n)
        <5>1. f # e
          BY <2>2, <4>1 DEF SetPending, SetFailed
        <5> QED
          BY <4>1, <5>1 DEF SetPending, SetFailed, HandlerThrows, IInv, TypeOK
      <4>2. CASE MarkProcessed(f, n)
        BY <4>2 DEF MarkProcessed, IInv, TypeOK
      <4>3. CASE Due(f, n) \/ Check(f, n) \/ Apply(f, n) \/ AddRetry(f, n) \/ DeadLetter(f, n) \/ Record(f, n)
        BY <4>3 DEF Due, Check, Apply, AddRetry, DeadLetter, Record, HandlerThrows
      <4> QED
        BY <3>2, <4>1, <4>2, <4>3 DEF JobStep
    <3> QED
      BY <2>1, <3>1, <3>2 DEF Next
  <2>4. OnlyChecks'
    BY DEF IInv
  <2> QED
    BY <2>3, <2>4 DEF OnlyChecks, Working
<1> QED
  BY <1>1, Inductive, PTL DEF Spec, ProcessedIsFinal
================================================================================
