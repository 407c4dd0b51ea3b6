----------------------------- MODULE Conversations -----------------------------
(***************************************************************************)
(* Conversations and what the workers make of them (tenant-api:            *)
(* routes/chat.routes.ts, the memory and summarizer workers of             *)
(* workers/scheduler.ts, services/memory/extractor.ts and the history part *)
(* of services/context/context-builder.ts), for one active tenant.         *)
(*                                                                         *)
(* A chat request saves the user's message, has it answered and saves the  *)
(* answer.  Every few seconds a poller queues the oldest messages that are *)
(* not in the Redis set of processed ones; a worker has facts extracted,   *)
(* saves them, and puts the message into the set.  Another poller queues   *)
(* long conversations that have no summary.  Left out: texts, retrieval,   *)
(* and what the answer says.                                               *)
(*                                                                         *)
(* A stored job is kept for a day, which is longer than any poll takes,    *)
(* and is only removed when a later job of its queue ends.                 *)
(***************************************************************************)
EXTENDS Integers, Sequences, FiniteSets, SequencesExt

CONSTANTS
    Req,            \* chat requests; each writes one message and one answer
    Conv, NoConv,   \* conversations
    Wordy,          \* those whose history is over the trigger limit
    Server,         \* servers, each with its workers
    Limit,          \* messages a poll looks at (100)
    SumOver,        \* a conversation is long with more messages (50)
    Keep,           \* messages a summary leaves alone (20)
    MaxFaults       \* bound: failed calls, crashes and expiries

NoReq == "no message"
ASSUME ConversationsAssumption ==
    /\ NoConv \notin Conv /\ Wordy \subseteq Conv /\ NoReq \notin Req /\ Req \cap Conv = {}
    /\ Limit \in Nat \ {0} /\ SumOver \in Nat /\ Keep \in 0 .. SumOver /\ MaxFaults \in Nat

VARIABLES
    convs, spent,   \* conversations there are, and that there have ever been
    dropping,       \* conversations being deleted
    msgs,           \* the messages in their order, [of, user]
    req,            \* the requests
    summary,        \* conversations with a summary
    polling,        \* the repeatable jobs are registered
    worker,         \* the memory worker of each server
    job,            \* extract jobs by message, summarize jobs by conversation
    stalls,         \* how often a stored job lost its worker
    processed,      \* the Redis set
    saved,          \* how many facts each message has given
    handled,        \* history: messages whose facts were asked for with success
    lost,           \* history: messages and conversations a fault may keep from it
    again,          \* history: how many faults let a message be saved once more
    faults

chat == <<convs, spent, dropping, msgs, req>>
memory == <<worker, stalls, processed, saved, handled>>
history == <<lost, again>>
vars == <<chat, memory, history, summary, polling, job, faults>>

Message == [of : Req, user : BOOLEAN]
ConvOf(m) == req[m.of].conv
In(c) == Cardinality({i \in DOMAIN msgs : ConvOf(msgs[i]) = c})
Asked == {m.of : m \in {k \in ToSet(msgs) : k.user}}
Own == SelectSeq(msgs, LAMBDA m : m.user)
\* Mutant: ORDER BY without LIMIT.
BugOldest == [i \in DOMAIN Own |-> Own[i].of]
\* ORDER BY created_at LIMIT
Oldest == LET own == Own
    IN [i \in 1 .. (IF Len(own) < Limit THEN Len(own) ELSE Limit) |-> own[i].of]

Idle == [at |-> "idle", msg |-> NoReq, rows |-> <<>>]
Up == {s \in Server : worker[s].at # "down"}
Served == {q \in Req : req[q].at \in {"ask", "reply"}}
Running(m) == \E s \in Server : worker[s].msg = m
Polled(m) == \E s \in Server : m \in ToSet(worker[s].rows)

\* Types: messages and summaries are of conversations that exist, and a poll
\* carries no more than its limit.
TypeOK ==
    /\ convs \subseteq spent /\ spent \subseteq Conv
    /\ dropping \subseteq convs /\ msgs \in Seq(Message)
    /\ \A i \in DOMAIN msgs : ConvOf(msgs[i]) \in convs
    /\ req \in [Req -> [at : {"new", "ask", "reply", "end"}, conv : Conv \cup {NoConv}]]
    /\ summary \subseteq convs /\ polling \in BOOLEAN
    /\ \A s \in Server : /\ worker[s].at \in {"down", "idle", "rows", "check", "generate", "save", "mark"}
                         /\ worker[s].msg \in Req \cup {NoReq}
                         /\ worker[s].rows \in Seq(Req) /\ Len(worker[s].rows) <= Limit
    /\ job \in [Req \cup Conv -> {"none", "waiting", "active", "insert", "completed", "failed"}]
    /\ stalls \in [Req \cup Conv -> 0 .. 1]
    /\ processed \subseteq Req /\ saved \in [Req -> Nat] /\ handled \subseteq Req
    /\ lost \subseteq Req \cup Conv /\ again \in [Req -> Nat]
    /\ faults \in 0 .. MaxFaults

Init ==
    /\ convs = {} /\ spent = {} /\ dropping = {} /\ msgs = <<>>
    /\ req = [q \in Req |-> [at |-> "new", conv |-> NoConv]]
    /\ summary = {} /\ polling = FALSE
    /\ worker = [s \in Server |-> [Idle EXCEPT !.at = "down"]]
    /\ job = [j \in Req \cup Conv |-> "none"]
    /\ stalls = [j \in Req \cup Conv |-> 0]
    /\ processed = {} /\ saved = [q \in Req |-> 0] /\ handled = {}
    /\ lost = {} /\ again = [q \in Req |-> 0] /\ faults = 0

Fault == faults < MaxFaults /\ faults' = faults + 1
\* Each message of ms may be saved once more than before.
Again(ms) == again' = [m \in Req |-> IF m \in ms THEN again[m] + 1 ELSE again[m]]

-----------------------------------------------------------------------------
(* Requests: handleChat and DELETE /conversations/:id *)

Inserting == {c \in Conv : job[c] = "insert"}

\* The process dies with its requests, `qs' among them, and its jobs.
Dies(s, qs) ==
    /\ worker' = [worker EXCEPT ![s] = [Idle EXCEPT !.at = "down"]]
    /\ req' = [q \in Req |-> IF q \in qs THEN [req[q] EXCEPT !.at = "end"] ELSE req[q]]
    /\ \E cs \in SUBSET Inserting :
          /\ Up = {s} => cs = Inserting
          /\ job' = [j \in DOMAIN job |-> IF j \in cs THEN "active" ELSE job[j]]
    /\ Again({m \in Req : m = worker[s].msg /\ worker[s].at = "mark"})
    /\ UNCHANGED lost

\* A request goes on in a conversation or opens one; a failed INSERT is a 500.
Chat(q) ==
    /\ req[q].at = "new" /\ Up # {}
    /\ \/ \E c \in spent : req' = [req EXCEPT ![q].at = "ask", ![q].conv = c] /\ UNCHANGED <<convs, spent, faults>>
       \/ \E c \in Conv \ spent :
            /\ req' = [req EXCEPT ![q].at = "ask", ![q].conv = c]
            /\ convs' = convs \cup {c} /\ spent' = spent \cup {c} /\ UNCHANGED faults
       \/ Fault /\ req' = [req EXCEPT ![q].at = "end"] /\ UNCHANGED <<convs, spent>>
    /\ UNCHANGED <<dropping, msgs, memory, history, summary, polling, job>>

\* A message needs its conversation (a foreign key); else, a 500.
SaveUser(q) ==
    /\ req[q].at = "ask"
    /\ \/ /\ req[q].conv \in convs
          /\ msgs' = Append(msgs, [of |-> q, user |-> TRUE])
          /\ req' = [req EXCEPT ![q].at = "reply"] /\ UNCHANGED faults
       \/ /\ (IF req[q].conv \in convs THEN Fault ELSE UNCHANGED faults)
          /\ req' = [req EXCEPT ![q].at = "end"] /\ UNCHANGED msgs
    /\ UNCHANGED <<convs, spent, dropping, memory, history, summary, polling, job>>

\* Whatever the model did, there is an answer to save.
SaveReply(q) ==
    /\ req[q].at = "reply" /\ req[q].conv \in convs
    /\ msgs' = Append(msgs, [of |-> q, user |-> FALSE])
    /\ req' = [req EXCEPT ![q].at = "end"]
    /\ UNCHANGED <<convs, spent, dropping, memory, history, summary, polling, job, faults>>

\* When it cannot be saved, a plain request is answered 500; nobody handles
\* the rejection once a stream has begun, so the server dies.
ReplyFails(q) ==
    /\ req[q].at = "reply"
    /\ IF req[q].conv \in convs THEN Fault ELSE UNCHANGED faults
    /\ \/ \E s \in Up, qs \in SUBSET Served : Dies(s, qs \cup {q})
       \/ req' = [req EXCEPT ![q].at = "end"] /\ UNCHANGED <<worker, history, job>>
    /\ UNCHANGED <<convs, spent, dropping, msgs, stalls, processed, saved, handled, summary, polling>>

Without(c) == SelectSeq(msgs, LAMBDA m : ConvOf(m) # c)
\* Two statements, the second of which may fail; it takes with it (a cascade)
\* what has been written in between.
DropMessages(c) ==
    /\ c \in convs \ dropping /\ msgs' = Without(c) /\ dropping' = dropping \cup {c}
    /\ UNCHANGED <<convs, spent, req, memory, history, summary, polling, job, faults>>
DropConversation(c) ==
    /\ c \in dropping /\ dropping' = dropping \ {c}
    /\ \/ /\ msgs' = Without(c) /\ convs' = convs \ {c} /\ summary' = summary \ {c}
          /\ UNCHANGED faults
       \/ Fault /\ UNCHANGED <<msgs, convs, summary>>
    /\ UNCHANGED <<spent, req, memory, history, polling, job>>

-----------------------------------------------------------------------------
(* The schedulers: startAll, stopAll *)

\* The repeatable jobs are removed and added; when that fails it is logged,
\* and the workers start without pollers.
Start(s) ==
    /\ worker[s].at = "down"
    /\ worker' = [worker EXCEPT ![s] = Idle]
    /\ \/ polling' = TRUE /\ UNCHANGED faults
       \/ Fault /\ polling' = FALSE
    /\ UNCHANGED <<chat, stalls, processed, saved, handled, history, summary, job>>

\* The server stops in the middle, or stopAll gives up after 10 s.
Crash(s) ==
    /\ worker[s].at # "down" /\ Fault
    /\ \E qs \in SUBSET Served : Dies(s, qs)
    /\ UNCHANGED <<convs, spent, dropping, msgs, stalls, processed, saved, handled, summary, polling>>

-----------------------------------------------------------------------------
(* Extracting facts *)

Goto(s, r) == worker' = [worker EXCEPT ![s] = r]

Poll(s) ==
    /\ polling /\ worker[s].at = "idle" /\ Oldest # <<>>
    /\ Goto(s, [Idle EXCEPT !.at = "rows", !.rows = Oldest])
    /\ UNCHANGED <<chat, stalls, processed, saved, handled, history, summary, polling, job, faults>>

\* A job with a jobId that is stored is not added.
Add(j) ==
    IF job[j] = "none" THEN job' = [job EXCEPT ![j] = "waiting"] /\ stalls' = [stalls EXCEPT ![j] = 0]
    ELSE UNCHANGED <<job, stalls>>

Later(w) == IF Len(w.rows) = 1 THEN Idle ELSE [w EXCEPT !.rows = Tail(@)]
\* Mutant: a message counts as processed when it is queued.
BugPollRow(s) ==
    /\ worker[s].at = "rows"
    /\ LET m == Head(worker[s].rows) IN
       /\ IF m \notin processed THEN Add(m) ELSE UNCHANGED <<job, stalls>>
       /\ processed' = processed \cup {m}
    /\ Goto(s, Later(worker[s]))
    /\ UNCHANGED <<chat, saved, handled, history, summary, polling, faults>>

\* A message that is not processed, as far as Redis says, is queued, unless a
\* job with its jobId is stored; a failed call ends the poll.
PollRow(s) ==
    /\ worker[s].at = "rows"
    /\ LET m == Head(worker[s].rows) IN
       \/ /\ \/ UNCHANGED faults /\ m \notin processed
             \/ Fault
          /\ Add(m)
          /\ Goto(s, Later(worker[s]))
       \/ /\ m \in processed /\ Goto(s, Later(worker[s])) /\ UNCHANGED <<job, stalls, faults>>
       \/ /\ Fault /\ Goto(s, Idle) /\ UNCHANGED <<job, stalls>>
    /\ UNCHANGED <<chat, processed, saved, handled, history, summary, polling>>

Take(s, m) ==
    /\ worker[s].at = "idle" /\ job[m] = "waiting"
    /\ job' = [job EXCEPT ![m] = "active"]
    /\ Goto(s, [Idle EXCEPT !.at = "check", !.msg = m])
    /\ UNCHANGED <<chat, stalls, processed, saved, handled, history, summary, polling, faults>>

\* A job that ends takes along those of its queue that ended a day ago.
Ended(js) == {j \in js : job[j] \in {"completed", "failed"} /\ ~Polled(j)}
Forget(j, js) ==
    \E old \in SUBSET (Ended(js) \ {j}) :
        job' = [k \in DOMAIN job |-> IF k = j THEN "completed" ELSE IF k \in old THEN "none" ELSE job[k]]
Complete(s) == Forget(worker[s].msg, Req) /\ Goto(s, Idle)

\* Mutant: the poller's look at the set is enough.
BugCheck(s) ==
    /\ worker[s].at = "check" /\ Goto(s, [worker[s] EXCEPT !.at = "generate"])
    /\ UNCHANGED <<chat, stalls, processed, saved, handled, history, summary, polling, job, faults>>

\* isProcessed, once more; without an answer from Redis it is not.
Check(s) ==
    /\ worker[s].at = "check"
    /\ LET m == worker[s].msg IN
       \/ m \in processed /\ Complete(s) /\ UNCHANGED <<faults, again>>
       \/ /\ Goto(s, [worker[s] EXCEPT !.at = "generate"])
          /\ IF m \in processed THEN Fault /\ Again({m}) ELSE UNCHANGED <<faults, again>>
          /\ UNCHANGED job
    /\ UNCHANGED <<chat, stalls, processed, saved, handled, lost, summary, polling>>

\* The model finds a fact or none; an answer that is no JSON, like any error
\* below, is logged, and the job has completed.
Generate(s) ==
    /\ worker[s].at = "generate"
    /\ \/ /\ \E at \in {"save", "mark"} : Goto(s, [worker[s] EXCEPT !.at = at])
          /\ handled' = handled \cup {worker[s].msg}
          /\ UNCHANGED <<job, faults, lost>>
       \/ Fault /\ Complete(s) /\ lost' = lost \cup {worker[s].msg} /\ UNCHANGED handled
    /\ UNCHANGED <<chat, stalls, processed, saved, again, summary, polling>>

\* MemoryStore.save: the INSERT INTO memories.
Insert(m) == saved' = [saved EXCEPT ![m] = @ + 1]

\* The INSERT, and after it the session's context is cleared.  Either
\* may fail, and the job has completed without a mark; after the INSERT the fact is
\* there all the same.
Save(s) ==
    /\ worker[s].at = "save"
    /\ LET m == worker[s].msg IN
       \/ /\ Insert(m)
          /\ Goto(s, [worker[s] EXCEPT !.at = "mark"])
          /\ UNCHANGED <<job, again, faults>>
       \/ Fault /\ Complete(s) /\ UNCHANGED <<saved, again>>
       \/ Fault /\ Complete(s) /\ Insert(m) /\ Again({m})
    /\ UNCHANGED <<chat, stalls, processed, handled, lost, summary, polling>>

\* An error of Redis is logged.
Mark(s) ==
    /\ worker[s].at = "mark"
    /\ \/ processed' = processed \cup {worker[s].msg} /\ UNCHANGED <<again, faults>>
       \/ Fault /\ Again({worker[s].msg}) /\ UNCHANGED processed
    /\ Complete(s)
    /\ UNCHANGED <<chat, stalls, saved, handled, lost, summary, polling>>

\* The queue notices a job without a worker: once it is run again.
Recover(j) ==
    /\ job[j] = "active" /\ ~Running(j)
    /\ IF stalls[j] = 0
       THEN /\ job' = [job EXCEPT ![j] = "waiting"] /\ stalls' = [stalls EXCEPT ![j] = 1] /\ UNCHANGED lost
       ELSE /\ job' = [job EXCEPT ![j] = "failed"] /\ lost' = lost \cup {j} /\ UNCHANGED stalls
    /\ UNCHANGED <<chat, worker, processed, saved, handled, again, summary, polling, faults>>

\* Seven days without a message: the set expires.
ProcessedExpires ==
    /\ processed # {} /\ Fault
    /\ Again(processed) /\ processed' = {}
    /\ UNCHANGED <<chat, worker, stalls, saved, handled, lost, summary, polling, job>>

-----------------------------------------------------------------------------
(* Summaries *)

Long(c) == In(c) > SumOver
PollConversation(c) ==
    /\ polling /\ Up # {}
    /\ Long(c) /\ c \notin summary /\ job[c] = "none"
    /\ Add(c)
    /\ UNCHANGED <<chat, worker, processed, saved, handled, history, summary, polling, faults>>

Summarizes(c) == c \in Wordy /\ In(c) > Keep
\* The messages are read, and told the model if they are too much.
Read(c) ==
    /\ job[c] = "waiting" /\ Up # {}
    /\ IF Summarizes(c) THEN job' = [job EXCEPT ![c] = "insert"] ELSE Forget(c, Conv)
    /\ UNCHANGED <<chat, memory, history, summary, polling, faults>>

\* build logs an error and goes on: the job has completed either way.
InsertSummary(c) ==
    /\ job[c] = "insert"
    /\ \/ c \in convs /\ summary' = summary \cup {c} /\ UNCHANGED <<faults, lost>>
       \/ c \notin convs /\ UNCHANGED <<summary, faults, lost>>
       \/ Fault /\ lost' = lost \cup {c} /\ UNCHANGED summary
    /\ Forget(c, Conv)
    /\ UNCHANGED <<chat, memory, again, polling>>

\* A client has the context built, and with it a summary.
BuildContext(c) ==
    /\ Summarizes(c) /\ summary' = summary \cup {c}
    /\ UNCHANGED <<chat, memory, history, polling, job, faults>>

-----------------------------------------------------------------------------
Work(s) == PollRow(s) \/ Check(s) \/ Generate(s) \/ Save(s) \/ Mark(s)

Next ==
    \/ \E q \in Req : Chat(q) \/ SaveUser(q) \/ SaveReply(q) \/ ReplyFails(q)
    \/ \E c \in Conv : DropMessages(c) \/ DropConversation(c)
    \/ \E s \in Server : Start(s) \/ Crash(s) \/ Poll(s) \/ Work(s) \/ \E m \in Req : Take(s, m)
    \/ \E j \in Req \cup Conv : Recover(j)
    \/ ProcessedExpires
    \/ \E c \in Conv : PollConversation(c) \/ Read(c) \/ InsertSummary(c) \/ BuildContext(c)

Spec == Init /\ [][Next]_vars

\* Servers come back, workers go on, and a queue is first in, first out: a
\* poll and each job get their turn although the others keep coming.
FairSpec ==
    /\ Spec
    /\ \A s \in Server : WF_vars(Start(s)) /\ WF_vars(Work(s))
    /\ SF_vars(\E s \in Server : Poll(s))
    /\ \A m \in Req : SF_vars(\E s \in Server : Take(s, m))
    /\ \A j \in Req \cup Conv : WF_vars(Recover(j))
    /\ \A c \in Conv : WF_vars(PollConversation(c)) /\ WF_vars(Read(c)) /\ WF_vars(InsertSummary(c))

-----------------------------------------------------------------------------
\* A message gives its fact once, although its job may be run again, and jobs are
\* forgotten while the message stays, and once more at most for each fault that
\* parts the fact from its mark: a crash or an error of Redis between the two
\* writes, a context that could not be cleared after the first, a check Redis did
\* not answer, and a set that expired (scheduler.ts:296-322, extractor.ts:87-135,
\* store.ts:16-40).
SavedOnce == \A m \in Req : saved[m] <= 1 + again[m]

\* A message that is among the oldest is some time asked for facts, although
\* servers and requests come and go; excepted are messages whose extraction
\* ended with an error, or twice with its server, which waits for other
\* messages, and pollers that were not registered (scheduler.ts:127-180, 296-330).
MessagesExtracted == \A m \in Req :
    m \in ToSet(Oldest) ~> m \in handled \cup lost \/ m \notin Asked \/ ~polling

\* Likewise a long conversation with much in it has a summary in the end
\* (scheduler.ts:346-402, context-builder.ts:218-256).
LongOnesSummarized == \A c \in Wordy :
    Long(c) ~> c \in summary \cup lost \/ ~Long(c) \/ ~polling

\* What the workers are there for.
WorkersCatchUp == MessagesExtracted /\ LongOnesSummarized
================================================================================
