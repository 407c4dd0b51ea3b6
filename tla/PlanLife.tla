-------------------------------- MODULE PlanLife --------------------------------
(***************************************************************************)
(* What POST /api/orchestrator/execute promises of the row it keeps in     *)
(* task_plans: a request is answered or its connection lost; the row is    *)
(* concluded once, before the answer; an answer of success is of a row     *)
(* that says completed; and after the answer the row stays as it is.       *)
(***************************************************************************)
CONSTANT Task

VARIABLES
    status,     \* task_plans.status
    answer      \* what the client has got

vars == <<status, answer>>

Init ==
    /\ status = [t \in Task |-> "none"]
    /\ answer = [t \in Task |-> "unasked"]

Ask(t) ==
    /\ answer[t] = "unasked"
    /\ answer' = [answer EXCEPT ![t] = "waiting"]
    /\ UNCHANGED status

Record(t) ==
    /\ answer[t] = "waiting" /\ status[t] = "none"
    /\ status' = [status EXCEPT ![t] = "running"]
    /\ UNCHANGED answer

Conclude(t, verdict) ==
    /\ answer[t] = "waiting" /\ status[t] = "running"
    /\ status' = [status EXCEPT ![t] = verdict]
    /\ UNCHANGED answer

Reply(t, a) ==
    /\ answer[t] = "waiting"
    /\ a = "ok" => status[t] = "completed"
    /\ answer' = [answer EXCEPT ![t] = a]
    /\ UNCHANGED status

\* The server dies with the requests of these tasks.
Lose(ts) ==
    /\ \A t \in ts : answer[t] = "waiting"
    /\ answer' = [t \in Task |-> IF t \in ts THEN "lost" ELSE answer[t]]
    /\ UNCHANGED status

Next == \/ \E ts \in SUBSET Task : Lose(ts)
        \/ \E t \in Task :
            \/ Ask(t) \/ Record(t)
            \/ \E verdict \in {"completed", "failed"} : Conclude(t, verdict)
            \/ \E a \in {"ok", "error"} : Reply(t, a)

Safe == Init /\ [][Next]_vars

\* Nobody waits for ever.
Answered == \A t \in Task : answer[t] = "waiting" ~> answer[t] # "waiting"

Spec == Safe /\ Answered
================================================================================
