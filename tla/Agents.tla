--------------------------------- MODULE Agents ---------------------------------
(***************************************************************************)
(* Multi-agent tasks (tenant-api: services/agents/orchestrator.ts,         *)
(* services/tools/executor.ts and registry.ts, services/ollama.service.ts, *)
(* api/routes/orchestrator-routes.ts and tools.ts).                        *)
(*                                                                         *)
(* A task has a plan made by the model, or the default one, and runs its   *)
(* steps in order; a Reviewer that rejects sends it back to the Coder      *)
(* before it; after MaxAttempts runs of steps it ends whatever is left.    *)
(* The plan is in memory, and task_plans keeps a copy.  Tools work on a    *)
(* workspace that overlapping tasks share.  What the agents say and read   *)
(* is left out, but for which change a review is given and tests run on.   *)
(***************************************************************************)
EXTENDS Integers, Sequences, FiniteSets

CONSTANTS
    Task,
    PlannerPlans,   \* the plans the model may answer
    MaxAttempts,    \* 15 runs of steps
    MaxCalls,       \* bound: tool calls in one answer of the Coder
    MaxFaults       \* bound: failed statements and crashes

Agent == {"Research", "Coder", "Reviewer", "Tester", "other"}
Tool == {"read_file", "write_file", "search_files", "run_terminal", "git_status", "git_diff",
         "run_tests", "list_directory", "http_request", "install_package", "unregistered"}

ASSUME AgentsAssumption ==
    /\ PlannerPlans \subseteq Seq(Agent)
    /\ MaxAttempts \in Nat \ {0} /\ MaxCalls \in Nat /\ MaxFaults \in Nat

VARIABLES
    task,       \* what executeTask has in memory
    status,     \* task_plans.status
    saved,      \* task_plans.plan
    answer,     \* what the client has got
    log,        \* whether tool_executions has successes (TRUE) and errors (FALSE)
    faults,     \* counted for its bound
    fresh,      \* history: tasks whose tests have seen the workspace as it is
    beside      \* history: tasks that another one overlapped

vars == <<task, status, saved, answer, log, faults, fresh, beside>>
rest == <<log, fresh, beside>>
db == <<status, saved, answer>>

\* `run' is the attempt in which the step was last completed, 0 before.
Step == [agent : Agent, status : {"pending", "running", "completed", "failed"}, run : 0 .. MaxAttempts]
NewStep(agent) == [agent |-> agent, status |-> "pending", run |-> 0]
\* `shown' is the attempt whose outcomes coderChanges holds, 0 for none.
Places == {"idle", "insert", "save", "agent", "tool", "rewind", "fail", "complete", "reply", "throw"}
Idle == [at |-> "idle", steps |-> <<>>, idx |-> 0, attempts |-> 0, calls |-> 0, shown |-> 0]
Live(t) == task[t].at # "idle"

\* Types: memory, rows and counters have their shape.
TypeOK ==
    /\ task \in [Task -> [at : Places, steps : Seq(Step), idx : Nat, attempts : 0 .. MaxAttempts,
                          calls : 0 .. MaxCalls + 1, shown : 0 .. MaxAttempts]]
    /\ \A t \in Task : task[t].at \in {"agent", "tool", "rewind", "fail"} =>
                            task[t].idx \in DOMAIN task[t].steps
    /\ status \in [Task -> {"none", "running", "completed", "failed"}]
    /\ saved \in [Task -> Seq(Step)]
    /\ answer \in [Task -> {"unasked", "waiting", "ok", "error", "lost"}]
    /\ log \subseteq BOOLEAN
    /\ faults \in 0 .. MaxFaults
    /\ fresh \subseteq Task /\ beside \subseteq Task

Init ==
    /\ task = [t \in Task |-> Idle]
    /\ status = [t \in Task |-> "none"]
    /\ saved = [t \in Task |-> <<>>]
    /\ answer = [t \in Task |-> "unasked"]
    /\ log = {}
    /\ faults = 0 /\ fresh = {} /\ beside = {}

-----------------------------------------------------------------------------
(* generatePlan and the statements on task_plans *)

DefaultPlan == <<"Research", "Coder", "Reviewer", "Tester">>

Set(t, r) == task' = [task EXCEPT ![t] = r]
Goto(t, at) == Set(t, [task[t] EXCEPT !.at = at])
Fault == faults < MaxFaults /\ faults' = faults + 1

\* executeQuery throws before the statement had an effect, or after it, when
\* the tenant context cannot be cleared; `effect' is the statement.
Statement(t, effect, next, thrown) ==
    \/ effect /\ Goto(t, next) /\ UNCHANGED faults
    \/ /\ Fault
       /\ effect \/ UNCHANGED <<status, saved>>
       /\ Goto(t, thrown)

UpdatePlan(t, s) ==
    /\ status' = [status EXCEPT ![t] = s]
    /\ saved' = [saved EXCEPT ![t] = task[t].steps]

\* The model's answer is a plan, or does not parse, or Ollama is not there.
GeneratePlan == PlannerPlans \cup {DefaultPlan}

Execute(t) ==
    /\ answer[t] = "unasked"
    /\ answer' = [answer EXCEPT ![t] = "waiting"]
    /\ \E plan \in GeneratePlan :
            Set(t, [Idle EXCEPT !.at = "insert", !.idx = 1,
                                !.steps = [i \in DOMAIN plan |-> NewStep(plan[i])]])
    /\ LET others == {u \in Task : Live(u)}
       IN beside' = IF others = {} THEN beside ELSE beside \cup others \cup {t}
    /\ UNCHANGED <<status, saved, log, faults, fresh>>

\* Mutant: the runs of steps are not counted.
BugLoopUncounted(r) ==
    IF r.idx <= Len(r.steps) /\ r.attempts < MaxAttempts
    THEN [r EXCEPT !.at = "save", !.attempts = 1, !.steps[r.idx].status = "running"]
    ELSE [r EXCEPT !.at = "complete"]

\* The head of the loop, with what it does to the step that is to run.
Loop(r) ==
    IF r.idx <= Len(r.steps) /\ r.attempts < MaxAttempts
    THEN [r EXCEPT !.at = "save", !.attempts = @ + 1, !.steps[r.idx].status = "running"]
    ELSE [r EXCEPT !.at = "complete"]

InsertPlan(t) ==
    /\ task[t].at = "insert"
    /\ \/ UpdatePlan(t, "running") /\ Set(t, Loop(task[t])) /\ UNCHANGED faults
       \/ Fault /\ Goto(t, "throw") /\ (UpdatePlan(t, "running") \/ UNCHANGED <<status, saved>>)
    /\ UNCHANGED <<answer, rest>>

SavePlan(t) ==
    /\ task[t].at = "save"
    /\ Statement(t, UpdatePlan(t, "running"), "agent", "throw")
    /\ UNCHANGED <<answer, rest>>

-----------------------------------------------------------------------------
(* The agents *)

Current(t) == task[t].steps[task[t].idx]
Running(t, agent) == task[t].at = "agent" /\ Current(t).agent = agent

\* Mutant: what is completed is not run again.
BugDoneSkipsCompleted(r) ==
    LET steps == [r.steps EXCEPT ![r.idx] = [@ EXCEPT !.status = "completed", !.run = r.attempts]]
        open == {i \in DOMAIN steps : steps[i].status # "completed"}
    IN Loop([r EXCEPT !.steps = steps,
                      !.idx = IF open = {} THEN Len(steps) + 1 ELSE CHOOSE i \in open : \A j \in open : i <= j])

Done(r) ==
    Loop([r EXCEPT !.steps[r.idx].status = "completed", !.steps[r.idx].run = r.attempts, !.idx = @ + 1])

\* The search of the Research agent may fail; nothing else an agent does throws.
Research(t) ==
    /\ Running(t, "Research")
    /\ \/ Set(t, Done(task[t])) /\ UNCHANGED faults
       \/ Fault /\ Set(t, [task[t] EXCEPT !.at = "fail", !.steps[task[t].idx].status = "failed"])
    /\ UNCHANGED <<db, rest>>

\* An agent without a handler succeeds.
OtherAgent(t) ==
    /\ Running(t, "other")
    /\ Set(t, Done(task[t]))
    /\ UNCHANGED <<db, faults, rest>>

\* The Coder's answer has tool calls or, with none, one file is written that
\* coderChanges does not tell of.
Coder(t) ==
    /\ Running(t, "Coder")
    /\ \/ \E n \in 1 .. MaxCalls : Set(t, [task[t] EXCEPT !.at = "tool", !.calls = n, !.shown = task[t].attempts])
       \/ Set(t, [task[t] EXCEPT !.at = "tool", !.calls = MaxCalls + 1])
    /\ UNCHANGED <<db, faults, rest>>

Tester(t) ==
    /\ Running(t, "Tester")
    /\ Set(t, [task[t] EXCEPT !.at = "tool", !.calls = 1])
    /\ fresh' = fresh \cup {t}
    /\ UNCHANGED <<db, log, faults, beside>>

Approve(t) ==
    /\ Running(t, "Reviewer")
    /\ Set(t, Done(task[t]))
    /\ UNCHANGED <<db, faults, rest>>

\* The last Coder step before step i, 0 for none.
CoderBefore(t, i) ==
    LET coders == {j \in 1 .. i - 1 : task[t].steps[j].agent = "Coder"}
    IN IF coders = {} THEN 0 ELSE CHOOSE j \in coders : \A k \in coders : k <= j

\* Without a Coder to go back to, a rejection counts as done.
Reject(t) ==
    /\ Running(t, "Reviewer")
    /\ LET r == task[t]
           coder == CoderBefore(t, r.idx)
       IN IF coder = 0 THEN Set(t, Done(r))
          ELSE Set(t, [r EXCEPT !.at = "rewind", !.steps[coder].status = "pending",
                                !.steps[r.idx].status = "completed", !.steps[r.idx].run = r.attempts])
    /\ UNCHANGED <<db, faults, rest>>

\* The loop goes on at the Coder once the plan is saved; if that fails the
\* Reviewer's step is the one that failed.
Rewind(t) ==
    /\ task[t].at = "rewind"
    /\ LET r == task[t] IN
       \/ /\ UpdatePlan(t, "running") /\ UNCHANGED faults
          /\ Set(t, Loop([r EXCEPT !.idx = CoderBefore(t, r.idx)]))
       \/ /\ Fault /\ (UpdatePlan(t, "running") \/ UNCHANGED <<status, saved>>)
          /\ Set(t, [r EXCEPT !.at = "fail", !.steps[r.idx].status = "failed"])
    /\ UNCHANGED <<answer, rest>>

FailPlan(t) ==
    /\ task[t].at = "fail"
    /\ Statement(t, UpdatePlan(t, "failed"), "throw", "throw")
    /\ UNCHANGED <<answer, rest>>

\* However the loop ended.
CompletePlan(t) ==
    /\ task[t].at = "complete"
    /\ Statement(t, UpdatePlan(t, "completed"), "reply", "throw")
    /\ UNCHANGED <<answer, rest>>

Respond(t) ==
    /\ task[t].at \in {"reply", "throw"}
    /\ answer' = [answer EXCEPT ![t] = IF task[t].at = "reply" THEN "ok" ELSE "error"]
    /\ Set(t, Idle)
    /\ UNCHANGED <<status, saved, faults, rest>>

\* The server dies: the requests of all tasks are lost, the rows stay.
Crash ==
    /\ Fault /\ \E t \in Task : Live(t)
    /\ answer' = [t \in Task |-> IF Live(t) THEN "lost" ELSE answer[t]]
    /\ task' = [t \in Task |-> IF Live(t) THEN Idle ELSE task[t]]
    /\ UNCHANGED <<status, saved, rest>>

-----------------------------------------------------------------------------
(* ToolExecutor.executeSingle, and the handlers of the registry: whether the *)
(* call is logged as a success, and whether the workspace has changed.       *)

Good == [good |-> TRUE, writes |-> FALSE]
GoodWrite == [good |-> TRUE, writes |-> TRUE]
Bad == [good |-> FALSE, writes |-> FALSE]
BadWrite == [good |-> FALSE, writes |-> TRUE]

\* Bad: no such tool, a parameter is missing, a path is outside the workspace,
\* a file or directory is not there.
Unregistered == {Bad}
ReadFile == {Good, Bad}
WriteFile == {GoodWrite, Bad}
SearchFiles == {Good, Bad}
ListDirectory == {Good, Bad}
\* A command may be refused, or killed after 30 s; an exit code is no error.
RunTerminal == {Good, GoodWrite, Bad, BadWrite}
\* An error of git is a result, and so are tests that fail or take too long.
GitStatus == {Good}
GitDiff == {Good, Bad}
RunTests == {Good}
HttpRequest == {Good, Bad}
InstallPackage == {GoodWrite, Bad, BadWrite}

Handler == [read_file |-> ReadFile, write_file |-> WriteFile, search_files |-> SearchFiles,
            run_terminal |-> RunTerminal, git_status |-> GitStatus, git_diff |-> GitDiff,
            run_tests |-> RunTests, list_directory |-> ListDirectory, http_request |-> HttpRequest,
            install_package |-> InstallPackage, unregistered |-> Unregistered]

\* Which tools the call at hand may be of.
Called(t) ==
    IF Current(t).agent = "Tester" THEN {"run_tests"}
    ELSE IF task[t].calls = MaxCalls + 1 THEN {"write_file"} ELSE Tool

\* One call runs and is logged, unless the INSERT fails, which nobody hears of.
Ran(o) ==
    /\ fresh' = IF o.writes THEN {} ELSE fresh
    /\ \/ log' = log \cup {o.good} /\ UNCHANGED faults
       \/ Fault /\ UNCHANGED log

\* The step is done after the last call.
RunTool(t) ==
    /\ task[t].at = "tool"
    /\ \E o \in UNION {Handler[tool] : tool \in Called(t)} : Ran(o)
    /\ LET r == [task[t] EXCEPT !.calls = IF @ = MaxCalls + 1 THEN 0 ELSE @ - 1]
       IN Set(t, IF r.calls = 0 THEN Done(r) ELSE r)
    /\ UNCHANGED <<db, beside>>

\* POST /tools/execute, one of its calls: beside the tasks, in their workspace.
ExecuteTools ==
    /\ \E o \in UNION {Handler[tool] : tool \in Tool} : Ran(o)
    /\ beside' = beside \cup {t \in Task : Live(t)}
    /\ UNCHANGED <<task, db>>

-----------------------------------------------------------------------------
Progress(t) ==
    \/ InsertPlan(t) \/ SavePlan(t)
    \/ Research(t) \/ OtherAgent(t) \/ Coder(t) \/ Tester(t) \/ Approve(t) \/ Reject(t) \/ RunTool(t)
    \/ Rewind(t) \/ FailPlan(t) \/ CompletePlan(t) \/ Respond(t)

Next == Crash \/ ExecuteTools \/ \E t \in Task : Execute(t) \/ Progress(t)

Spec == Init /\ [][Next]_vars

\* Statements, the tools' processes and fetch all have time limits, so every
\* step of a task that is under way is taken.
FairSpec == Spec /\ \A t \in Task : WF_vars(Progress(t))

-----------------------------------------------------------------------------
\* A task answers for its row: it is concluded once and before the answer,
\* success is only answered when the row says completed, nothing is written
\* after the answer, and every request is answered or its server died
\* (orchestrator.ts:64-72, 165-184, orchestrator-routes.ts:32-48).
Life == INSTANCE PlanLife WITH Task <- Task, status <- status, answer <- answer
KeepsItsPlan == Life!Spec

\* A task that ran to the end of its plan has run every step, each after the
\* one before it, rejections included: what was reviewed and tested before a
\* rework is reviewed and tested again (orchestrator.ts:118-159).
Complete(t) == task[t].at = "reply" /\ task[t].idx > Len(task[t].steps)
StepsInOrder == \A t \in Task : Complete(t) =>
    /\ \A i \in DOMAIN task[t].steps : task[t].steps[i].status = "completed" /\ task[t].steps[i].run > 0
    /\ \A i, j \in DOMAIN task[t].steps : i < j => task[t].steps[i].run < task[t].steps[j].run

\* A task that nobody overlapped and whose tests come after its last Coder
\* step has tested the workspace as it leaves it (orchestrator.ts:138, 323).
TestsSeeResult == \A t \in Task :
    LET place(agent) == {i \in DOMAIN task[t].steps : task[t].steps[i].agent = agent}
    IN (Complete(t) /\ t \notin beside /\ \E i \in place("Tester") : \A j \in place("Coder") : j < i)
            => t \in fresh

\* Both: what a complete task claims is true of its steps and its workspace
\* (orchestrator.ts:118-159, 323).
PlanIsRun == StepsInOrder /\ TestsSeeResult

\* A review that approves was given the outcomes of the Coder's last run ("We
\* pass Coder changes to reviewer context", orchestrator.ts:304).
ReviewSeesLastChange == [][\A t \in Task : Approve(t) =>
    LET coder == CoderBefore(t, task[t].idx)
    IN coder = 0 \/ task[t].shown \in {0, task[t].steps[coder].run}]_vars
================================================================================
