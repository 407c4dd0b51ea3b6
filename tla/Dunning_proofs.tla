---------------------------- MODULE Dunning_proofs ----------------------------
(* Proofs about Dunning: no earlier schedule is left to cancel a tenant, the    *)
(* subscription follows the tenant, and the chat lock holds, for any tenants,   *)
(* overlapping operations, milestones and bounds, but for the overlaps and      *)
(* faults that the properties name.                                             *)
EXTENDS Dunning, TLAPS

Due == {"dueSub", "dueTenant", "dueList", "dueRemove", "dueAdd"}
Milestone == {"check", "stage", "mail", "cancelSub", "cancelTenant"}
Back == {"backTenant", "backSub", "backList", "backRemove"}
Trial == {"trialSub", "trialTenant"}

\* What an activity is about: its tenant, its job and its worklist, by its step.
ShapeOf(p) ==
    /\ pc[p] = "free" => who[p] = NoTenant
    /\ pc[p] \in Due \cup Milestone \cup Back \cup {"trialTenant"} => who[p] \in Tenant
    /\ pc[p] \in Due => \E n \in 1 .. MaxTriggers : task[p] = Schedule(n)
    /\ pc[p] \in {"free"} \cup Back \cup Trial => task[p] = NoJob
    /\ pc[p] \in Milestone => /\ task[p] \in Jobs /\ task[p].active /\ task[p].tenant = who[p]
                              /\ pc[p] \in {"cancelSub", "cancelTenant"} => task[p].day = 30
    /\ pc[p] \in {"dueRemove", "backRemove"} =>
            \A j \in todo[p] : j \in Jobs /\ ~j.active /\ j.tenant = who[p]
    /\ pc[p] = "dueAdd" => todo[p] \subseteq NewJobs(who[p], task[p].gen)
    /\ pc[p] \in Trial => todo[p] \subseteq Tenant
    /\ pc[p] = "trialTenant" => who[p] \in todo[p]
    /\ pc[p] \notin {"dueRemove", "backRemove", "dueAdd"} \cup Trial => todo[p] = {}
Shapes == TypeOK /\ \A p \in Proc : ShapeOf(p)

\* Operations that overlap are marked.
OverlapsMarked == \A t \in Tenant : Overlap(t) => t \in raced

\* An active job is some worker's.
ActiveOwned == \A j \in queue : j.active => \E p \in Proc : pc[p] \in Milestone /\ task[p] = j

\* No failed payment is ahead of its time.
SinceNow == \A t \in Tenant : since[t] <= now

\* A job of an earlier schedule is about to be listed or removed, or at work.
DoomedBy(p, j) ==
    \/ pc[p] = "dueList" /\ who[p] = j.tenant /\ ~j.active
    \/ pc[p] = "dueRemove" /\ j \in todo[p]
    \/ pc[p] \in Milestone /\ task[p] = j
Doomed(j) == \E p \in Proc : DoomedBy(p, j)
Excused(t) == t \in broken \/ (t \in raced /\ faults # 0)
OldJobsGo == \A j \in queue :
    j.day = 30 /\ ~Excused(j.tenant) => j.due >= since[j.tenant] + 30 \/ Doomed(j)

Of(t) == {j \in queue : j.tenant = t}
Clean(t) == t \notin raced \cup broken

\* The jobs of a tenant are those of one schedule.
OneSchedule(t) == \A j, k \in Of(t) : j.due + k.day = k.due + j.day

\* Once the chat is locked, only later milestones are left.
LockedRest(t) == tenant[t].stage >= 4 => \A j \in Of(t) : j.day >= 4

SubFollows(t) == tenant[t].status = "past_due" =>
    sub[t] = "past_due" \/ (sub[t] = "canceled" /\ \E j \in Of(t) : j.day = 30)

\* How far the one operation on a tenant has come.
WayOf(p, t) ==
    /\ pc[p] \in {"dueTenant", "dueList", "dueRemove", "dueAdd", "trialTenant"} => sub[t] = "past_due"
    /\ pc[p] \in {"dueList", "dueRemove", "dueAdd"} => tenant[t].stage < 4
    /\ pc[p] = "dueRemove" => Of(t) \subseteq todo[p]
    /\ pc[p] = "dueAdd" => \A j \in Of(t) : j.due = now + j.day
    /\ pc[p] \in {"backSub", "backList", "backRemove"} => tenant[t].status # "past_due"
    /\ pc[p] \in Milestone => /\ task[p] \in Of(t)
                              /\ \A k \in Of(t) : task[p].day <= k.day
                              /\ task[p].day = 30 => task[p].due >= since[t] + 30

InOrder(t) == Clean(t) =>
    /\ OneSchedule(t) /\ LockedRest(t) /\ SubFollows(t)
    /\ \A p \in Proc : who[p] = t => WayOf(p, t)

\* The inductive invariant.
IInv == /\ Shapes /\ OverlapsMarked /\ ActiveOwned /\ SinceNow /\ OldJobsGo
        /\ \A t \in Tenant : InOrder(t)

-----------------------------------------------------------------------------
(* Activities *)

Same(q) == /\ pc'[q] = pc[q] /\ who'[q] = who[q]
           /\ task'[q] = task[q] /\ todo'[q] = todo[q]
\* Only p moves, and to where.
Moves(p, s, t, j, w) ==
    /\ \A q \in Proc \ {p} : Same(q)
    /\ pc'[p] = s /\ who'[p] = t /\ task'[p] = j /\ todo'[p] = w
Tasks == Jobs \cup {Schedule(n) : n \in 0 .. MaxTriggers}
Lists == (SUBSET Jobs) \cup (SUBSET Tenant)
Pcs == /\ pc \in [Proc -> Steps] /\ who \in [Proc -> Tenant \cup {NoTenant}]
       /\ task \in [Proc -> Tasks] /\ todo \in [Proc -> Lists]

\* What is in a schedule, and in nobody's.
LEMMA Plain ==
    /\ NoJob \in Tasks /\ {} \in Lists
    /\ NoJob.tenant = NoTenant /\ NoTenant \notin Tenant
    /\ \A n : Schedule(n).tenant = NoTenant /\ Schedule(n).gen = n
    /\ \A j \in Jobs : j.tenant \in Tenant /\ j.day \in Days /\ j.day \in Nat /\ j.due \in Nat /\ j.active \in BOOLEAN
    /\ \A n \in 1 .. MaxTriggers : Schedule(n) \in Tasks
    /\ MaxTriggers \in Nat /\ MaxFaults \in Nat
<1>1. MaxTriggers \in Nat /\ MaxFaults \in Nat /\ NoTenant \notin Tenant /\ Days \subseteq Nat
  BY DunningAssumption
<1>2. \A n \in 0 .. MaxTriggers : Schedule(n) \in Tasks
  BY DEF Tasks
<1>3. 0 \in 0 .. MaxTriggers /\ \A n \in 1 .. MaxTriggers : n \in 0 .. MaxTriggers
  BY <1>1
<1>4. \A n : Schedule(n).tenant = NoTenant /\ Schedule(n).gen = n
  BY DEF Schedule, NewJob
<1>5. \A j \in Jobs : j.tenant \in Tenant /\ j.day \in Days /\ j.due \in Nat /\ j.active \in BOOLEAN
  BY DEF Jobs
<1> QED
  BY <1>1, <1>2, <1>3, <1>4, <1>5 DEF NoJob, Lists

LEMMA ContinueMoves ==
    ASSUME Pcs, NEW p \in Proc, NEW s \in Steps, NEW w \in Lists, Continue(p, s, w)
    PROVE  Pcs' /\ Moves(p, s, who[p], task[p], w)
BY DEF Pcs, Continue, Moves, Same

LEMMA FreeMoves ==
    ASSUME Pcs, NEW p \in Proc, Free(p)
    PROVE  Pcs' /\ Moves(p, "free", NoTenant, NoJob, {})
<1>1. "free" \in Steps /\ NoJob \in Tasks /\ {} \in Lists
  BY Plain DEF Steps
<1> QED
  BY <1>1 DEF Pcs, Free, Moves, Same

LEMMA StartMoves ==
    ASSUME Pcs, NEW p \in Proc, NEW s \in Steps, NEW t \in Tenant \cup {NoTenant},
           NEW j \in Tasks, NEW w \in Lists, Start(p, s, t, j, w)
    PROVE  Pcs' /\ Moves(p, s, t, j, w) /\ pc[p] = "free"
BY DEF Pcs, Start, Moves, Same

\* The types of everything else.
Tables ==
    /\ tenant \in [Tenant -> [status : Status, stage : Stages]] /\ sub \in [Tenant -> Status]
    /\ queue \subseteq Jobs /\ now \in Nat /\ since \in [Tenant -> Nat]
    /\ triggers \in 0 .. MaxTriggers /\ faults \in 0 .. MaxFaults /\ broken \subseteq Tenant

LEMMA TypesAre == TypeOK <=> Tables /\ Pcs /\ raced \subseteq Tenant
BY DEF TypeOK, Tables, Pcs, Tasks, Lists

LEMMA ShapesKept ==
    ASSUME Shapes, Mark, Tables', Pcs', NEW p \in Proc, NEW s, NEW t, NEW j, NEW w, Moves(p, s, t, j, w),
           ShapeOf(p)'
    PROVE  Shapes'
<1>1. TypeOK'
  BY TypesAre DEF Shapes, Mark, TypeOK, Tables, Pcs, Tasks, Lists
<1>2. ASSUME NEW q \in Proc \ {p} PROVE ShapeOf(q)'
  <2>1. ShapeOf(q) /\ Same(q)
    BY DEF Shapes, Moves
  <2> QED
    BY <2>1 DEF ShapeOf, Same
<1> QED
  BY <1>1, <1>2 DEF Shapes

-----------------------------------------------------------------------------
(* Each operation keeps the shapes; where its activity goes, and what it does   *)
(* to the queue                                                                  *)

LEMMA TriggerSubIs ==
    ASSUME Shapes, Mark, NEW p \in Proc, TriggerSub(p)
    PROVE  /\ Shapes' /\ Moves(p, "dueTenant", who[p], task[p], {})
           /\ pc[p] = "dueSub" /\ who[p] \in Tenant
<1>1. ShapeOf(p) /\ Tables /\ Pcs /\ pc[p] = "dueSub" /\ who[p] \in Tenant
  BY TypesAre DEF Shapes, ShapeOf, TriggerSub, Due, Back, Milestone
<1>2. Tables'
  BY <1>1, Plain DEF TriggerSub, Tables, Status, Stages, rest, SetSub, SetStatus, ShapeOf, Milestone
<1>3. {} \in Lists /\ "dueTenant" \in Steps
  BY <1>1, Plain DEF Lists, Removable, Tables, Steps
<1>4. Continue(p, "dueTenant", {})
  BY DEF TriggerSub
<1>5. Pcs' /\ Moves(p, "dueTenant", who[p], task[p], {})
  BY <1>1, <1>3, <1>4, ContinueMoves
<1>6. ShapeOf(p)'
  BY <1>1, <1>5 DEF ShapeOf, Moves, Due, Milestone, Back, Trial, Removable, Tables
<1> QED
  BY <1>1, <1>2, <1>5, <1>6, ShapesKept

LEMMA TriggerTenantIs ==
    ASSUME Shapes, Mark, NEW p \in Proc, TriggerTenant(p)
    PROVE  /\ Shapes' /\ Moves(p, "dueList", who[p], task[p], {})
           /\ pc[p] = "dueTenant" /\ who[p] \in Tenant
<1>1. ShapeOf(p) /\ Tables /\ Pcs /\ pc[p] = "dueTenant" /\ who[p] \in Tenant
  BY TypesAre DEF Shapes, ShapeOf, TriggerTenant, Due, Back, Milestone
<1>2. Tables'
  BY <1>1, Plain DEF TriggerTenant, Tables, Status, Stages, rest, SetSub, SetStatus, ShapeOf, Milestone
<1>3. {} \in Lists /\ "dueList" \in Steps
  BY <1>1, Plain DEF Lists, Removable, Tables, Steps
<1>4. Continue(p, "dueList", {})
  BY DEF TriggerTenant
<1>5. Pcs' /\ Moves(p, "dueList", who[p], task[p], {})
  BY <1>1, <1>3, <1>4, ContinueMoves
<1>6. ShapeOf(p)'
  BY <1>1, <1>5 DEF ShapeOf, Moves, Due, Milestone, Back, Trial, Removable, Tables
<1> QED
  BY <1>1, <1>2, <1>5, <1>6, ShapesKept

LEMMA TriggerListIs ==
    ASSUME Shapes, Mark, NEW p \in Proc, TriggerList(p)
    PROVE  /\ Shapes' /\ Moves(p, "dueRemove", who[p], task[p], Removable(who[p]))
           /\ pc[p] = "dueList" /\ who[p] \in Tenant
<1>1. ShapeOf(p) /\ Tables /\ Pcs /\ pc[p] = "dueList" /\ who[p] \in Tenant
  BY TypesAre DEF Shapes, ShapeOf, TriggerList, Due, Back, Milestone
<1>2. Tables'
  BY <1>1, Plain DEF TriggerList, Tables, Status, Stages, rest, SetSub, SetStatus, ShapeOf, Milestone
<1>3. Removable(who[p]) \in Lists /\ "dueRemove" \in Steps
  BY <1>1, Plain DEF Lists, Removable, Tables, Steps
<1>4. Continue(p, "dueRemove", Removable(who[p]))
  BY DEF TriggerList
<1>5. Pcs' /\ Moves(p, "dueRemove", who[p], task[p], Removable(who[p]))
  BY <1>1, <1>3, <1>4, ContinueMoves
<1>6. ShapeOf(p)'
  BY <1>1, <1>5 DEF ShapeOf, Moves, Due, Milestone, Back, Trial, Removable, Tables
<1> QED
  BY <1>1, <1>2, <1>5, <1>6, ShapesKept

LEMMA MilestoneStageIs ==
    ASSUME Shapes, Mark, NEW p \in Proc, MilestoneStage(p)
    PROVE  /\ Shapes' /\ Moves(p, "mail", who[p], task[p], {})
           /\ pc[p] = "stage" /\ who[p] \in Tenant
<1>1. ShapeOf(p) /\ Tables /\ Pcs /\ pc[p] = "stage" /\ who[p] \in Tenant
  BY TypesAre DEF Shapes, ShapeOf, MilestoneStage, Due, Back, Milestone
<1>2. Tables'
  BY <1>1, Plain DEF MilestoneStage, Tables, Status, Stages, rest, SetSub, SetStatus, ShapeOf, Milestone
<1>3. {} \in Lists /\ "mail" \in Steps
  BY <1>1, Plain DEF Lists, Removable, Tables, Steps
<1>4. Continue(p, "mail", {})
  BY DEF MilestoneStage
<1>5. Pcs' /\ Moves(p, "mail", who[p], task[p], {})
  BY <1>1, <1>3, <1>4, ContinueMoves
<1>6. ShapeOf(p)'
  BY <1>1, <1>5 DEF ShapeOf, Moves, Due, Milestone, Back, Trial, Removable, Tables
<1> QED
  BY <1>1, <1>2, <1>5, <1>6, ShapesKept

LEMMA CancelSubIs ==
    ASSUME Shapes, Mark, NEW p \in Proc, CancelSub(p)
    PROVE  /\ Shapes' /\ Moves(p, "cancelTenant", who[p], task[p], {})
           /\ pc[p] = "cancelSub" /\ who[p] \in Tenant
<1>1. ShapeOf(p) /\ Tables /\ Pcs /\ pc[p] = "cancelSub" /\ who[p] \in Tenant
  BY TypesAre DEF Shapes, ShapeOf, CancelSub, Due, Back, Milestone
<1>2. Tables'
  BY <1>1, Plain DEF CancelSub, Tables, Status, Stages, rest, SetSub, SetStatus, ShapeOf, Milestone
<1>3. {} \in Lists /\ "cancelTenant" \in Steps
  BY <1>1, Plain DEF Lists, Removable, Tables, Steps
<1>4. Continue(p, "cancelTenant", {})
  BY DEF CancelSub
<1>5. Pcs' /\ Moves(p, "cancelTenant", who[p], task[p], {})
  BY <1>1, <1>3, <1>4, ContinueMoves
<1>6. ShapeOf(p)'
  BY <1>1, <1>5 DEF ShapeOf, Moves, Due, Milestone, Back, Trial, Removable, Tables
<1> QED
  BY <1>1, <1>2, <1>5, <1>6, ShapesKept

LEMMA ReactivateTenantIs ==
    ASSUME Shapes, Mark, NEW p \in Proc, ReactivateTenant(p)
    PROVE  /\ Shapes' /\ Moves(p, "backSub", who[p], task[p], {})
           /\ pc[p] = "backTenant" /\ who[p] \in Tenant
<1>1. ShapeOf(p) /\ Tables /\ Pcs /\ pc[p] = "backTenant" /\ who[p] \in Tenant
  BY TypesAre DEF Shapes, ShapeOf, ReactivateTenant, Due, Back, Milestone
<1>2. Tables'
  BY <1>1, Plain DEF ReactivateTenant, Tables, Status, Stages, rest, SetSub, SetStatus, ShapeOf, Milestone
<1>3. {} \in Lists /\ "backSub" \in Steps
  BY <1>1, Plain DEF Lists, Removable, Tables, Steps
<1>4. Continue(p, "backSub", {})
  BY DEF ReactivateTenant
<1>5. Pcs' /\ Moves(p, "backSub", who[p], task[p], {})
  BY <1>1, <1>3, <1>4, ContinueMoves
<1>6. ShapeOf(p)'
  BY <1>1, <1>5 DEF ShapeOf, Moves, Due, Milestone, Back, Trial, Removable, Tables
<1> QED
  BY <1>1, <1>2, <1>5, <1>6, ShapesKept

LEMMA ReactivateSubIs ==
    ASSUME Shapes, Mark, NEW p \in Proc, ReactivateSub(p)
    PROVE  /\ Shapes' /\ Moves(p, "backList", who[p], task[p], {})
           /\ pc[p] = "backSub" /\ who[p] \in Tenant
<1>1. ShapeOf(p) /\ Tables /\ Pcs /\ pc[p] = "backSub" /\ who[p] \in Tenant
  BY TypesAre DEF Shapes, ShapeOf, ReactivateSub, Due, Back, Milestone
<1>2. Tables'
  BY <1>1, Plain DEF ReactivateSub, Tables, Status, Stages, rest, SetSub, SetStatus, ShapeOf, Milestone
<1>3. {} \in Lists /\ "backList" \in Steps
  BY <1>1, Plain DEF Lists, Removable, Tables, Steps
<1>4. Continue(p, "backList", {})
  BY DEF ReactivateSub
<1>5. Pcs' /\ Moves(p, "backList", who[p], task[p], {})
  BY <1>1, <1>3, <1>4, ContinueMoves
<1>6. ShapeOf(p)'
  BY <1>1, <1>5 DEF ShapeOf, Moves, Due, Milestone, Back, Trial, Removable, Tables
<1> QED
  BY <1>1, <1>2, <1>5, <1>6, ShapesKept

LEMMA ReactivateListIs ==
    ASSUME Shapes, Mark, NEW p \in Proc, ReactivateList(p)
    PROVE  /\ Shapes' /\ Moves(p, "backRemove", who[p], task[p], Removable(who[p]))
           /\ pc[p] = "backList" /\ who[p] \in Tenant
<1>1. ShapeOf(p) /\ Tables /\ Pcs /\ pc[p] = "backList" /\ who[p] \in Tenant
  BY TypesAre DEF Shapes, ShapeOf, ReactivateList, Due, Back, Milestone
<1>2. Tables'
  BY <1>1, Plain DEF ReactivateList, Tables, Status, Stages, rest, SetSub, SetStatus, ShapeOf, Milestone
<1>3. Removable(who[p]) \in Lists /\ "backRemove" \in Steps
  BY <1>1, Plain DEF Lists, Removable, Tables, Steps
<1>4. Continue(p, "backRemove", Removable(who[p]))
  BY DEF ReactivateList
<1>5. Pcs' /\ Moves(p, "backRemove", who[p], task[p], Removable(who[p]))
  BY <1>1, <1>3, <1>4, ContinueMoves
<1>6. ShapeOf(p)'
  BY <1>1, <1>5 DEF ShapeOf, Moves, Due, Milestone, Back, Trial, Removable, Tables
<1> QED
  BY <1>1, <1>2, <1>5, <1>6, ShapesKept

LEMMA TriggerIs ==
    ASSUME Shapes, Mark, NEW p \in Proc, NEW t \in Tenant, Trigger(p, t)
    PROVE  Shapes' /\ Moves(p, "dueSub", t, Schedule(triggers + 1), {}) /\ pc[p] = "free"
<1>1. ShapeOf(p) /\ Tables /\ Pcs
  BY TypesAre DEF Shapes
<1>2. Tables' /\ triggers + 1 \in 1 .. MaxTriggers
  BY <1>1, Plain DEF Trigger, Tables
<1>3. {} \in Lists /\ "dueSub" \in Steps /\ Schedule(triggers + 1) \in Tasks
  BY <1>2, Plain DEF Steps
<1>4. Start(p, "dueSub", t, Schedule(triggers + 1), {})
  BY DEF Trigger
<1>5. Pcs' /\ Moves(p, "dueSub", t, Schedule(triggers + 1), {}) /\ pc[p] = "free"
  BY <1>1, <1>3, <1>4, StartMoves
<1>6. ShapeOf(p)'
  BY <1>2, <1>5 DEF ShapeOf, Moves, Due, Milestone, Back, Trial
<1> QED
  BY <1>2, <1>5, <1>6, ShapesKept

\* A new schedule's jobs, a job that is added and one that is picked.
LEMMA NewJobsAre ==
    ASSUME NEW t \in Tenant, NEW n \in 1 .. MaxTriggers
    PROVE  /\ NewJobs(t, n) \subseteq Jobs
           /\ \A j \in NewJobs(t, n) : j.tenant = t /\ ~j.active
<1>1. ASSUME NEW d \in Days PROVE NewJob(t, d, n) \in Jobs /\ NewJob(t, d, n).tenant = t /\ ~NewJob(t, d, n).active
  BY <1>1, DunningAssumption DEF NewJob, Jobs
<1> QED
  BY <1>1 DEF NewJobs

LEMMA TriggerRemoveIs ==
    ASSUME Shapes, Mark, NEW p \in Proc, TriggerRemove(p)
    PROVE  /\ Shapes' /\ who[p] \in Tenant /\ pc[p] = "dueRemove"
           /\ \/ /\ todo[p] = {} /\ queue' = queue
                 /\ Moves(p, "dueAdd", who[p], task[p], NewJobs(who[p], task[p].gen))
              \/ \E j \in NextOf(todo[p]) :
                    /\ queue' = queue \ {j} /\ ~j.active /\ j.tenant = who[p]
                    /\ Moves(p, "dueRemove", who[p], task[p], todo[p] \ {j})
<1>1. ShapeOf(p) /\ Tables /\ Pcs /\ pc[p] = "dueRemove" /\ who[p] \in Tenant
  BY TypesAre DEF Shapes, ShapeOf, TriggerRemove, Due
<1>2. PICK n \in 1 .. MaxTriggers : task[p] = Schedule(n)
  BY <1>1 DEF ShapeOf, Due
<1>3. task[p].gen = n /\ {"dueAdd", "dueRemove"} \subseteq Steps
  BY <1>2, Plain DEF Steps
<1>4. CASE todo[p] = {} /\ Continue(p, "dueAdd", NewJobs(who[p], task[p].gen)) /\ UNCHANGED queue
  <2>1. NewJobs(who[p], task[p].gen) \in Lists
    BY <1>1, <1>3, NewJobsAre DEF Lists
  <2>2. Pcs' /\ Moves(p, "dueAdd", who[p], task[p], NewJobs(who[p], task[p].gen))
    BY <1>1, <1>3, <1>4, <2>1, ContinueMoves
  <2>3. ShapeOf(p)'
    BY <1>1, <1>2, <2>2 DEF ShapeOf, Moves, Due, Milestone, Back, Trial
  <2>4. Tables'
    BY <1>1, <1>4 DEF TriggerRemove, Tables, rest
  <2> QED
    BY <1>1, <1>4, <2>2, <2>3, <2>4, ShapesKept
<1>5. ASSUME NEW j \in NextOf(todo[p]), queue' = queue \ {j}, Continue(p, "dueRemove", todo[p] \ {j})
      PROVE  /\ Shapes' /\ ~j.active /\ j.tenant = who[p]
             /\ Moves(p, "dueRemove", who[p], task[p], todo[p] \ {j})
  <2>1. todo[p] \ {j} \in Lists /\ j \in todo[p]
    BY <1>1 DEF Pcs, Lists, NextOf
  <2>2. Pcs' /\ Moves(p, "dueRemove", who[p], task[p], todo[p] \ {j})
    BY <1>1, <1>3, <1>5, <2>1, ContinueMoves
  <2>3. ShapeOf(p)'
    BY <1>1, <1>2, <2>2 DEF ShapeOf, Moves, Due, Milestone, Back, Trial
  <2>4. Tables'
    BY <1>1, <1>5 DEF TriggerRemove, Tables, rest
  <2>5. ~j.active /\ j.tenant = who[p]
    BY <1>1, <2>1 DEF ShapeOf
  <2> QED
    BY <1>1, <2>2, <2>3, <2>4, <2>5, ShapesKept
<1> QED
  BY <1>1, <1>4, <1>5 DEF TriggerRemove

LEMMA AddedJob ==
    ASSUME NEW j \in Jobs, NEW n \in Nat
    PROVE  LET a == [j EXCEPT !.due = n] IN
           a \in Jobs /\ a.tenant = j.tenant /\ a.day = j.day /\ a.due = n /\ a.active = j.active
BY DEF Jobs

LEMMA PickedJob ==
    ASSUME NEW j \in Jobs, NEW b \in BOOLEAN
    PROVE  LET a == [j EXCEPT !.active = b] IN
           a \in Jobs /\ a.tenant = j.tenant /\ a.day = j.day /\ a.due = j.due /\ a.active = b
BY DEF Jobs

LEMMA TriggerAddIs ==
    ASSUME Shapes, Mark, NEW p \in Proc, TriggerAdd(p)
    PROVE  /\ Shapes' /\ who[p] \in Tenant /\ pc[p] = "dueAdd"
           /\ \E j \in todo[p], a \in Jobs :
                 /\ queue' = queue \cup {a} /\ ~a.active /\ a.tenant = who[p] /\ a.day = j.day
                 /\ a.due = now + j.day
                 /\ \/ Moves(p, "free", NoTenant, NoJob, {})
                    \/ Moves(p, "dueAdd", who[p], task[p], todo[p] \ {j})
<1>1. ShapeOf(p) /\ Tables /\ Pcs /\ pc[p] = "dueAdd" /\ who[p] \in Tenant
  BY TypesAre DEF Shapes, ShapeOf, TriggerAdd, Due
<1>2. PICK n \in 1 .. MaxTriggers : task[p] = Schedule(n)
  BY <1>1 DEF ShapeOf, Due
<1>3. task[p].gen = n /\ {"dueAdd", "free"} \subseteq Steps
  BY <1>2, Plain DEF Steps
<1>4. PICK j \in todo[p] : /\ queue' = queue \cup {[j EXCEPT !.due = now + j.day]}
                           /\ IF todo[p] = {j} THEN Free(p) ELSE Continue(p, "dueAdd", todo[p] \ {j})
  BY DEF TriggerAdd
<1>5. j \in Jobs /\ j.tenant = who[p] /\ ~j.active
  BY <1>1, <1>3, NewJobsAre DEF ShapeOf
<1>6. now + j.day \in Nat
  BY <1>1, <1>5, Plain DEF Tables
<1> DEFINE a == [j EXCEPT !.due = now + j.day]
<1>7. a \in Jobs /\ a.tenant = who[p] /\ a.day = j.day /\ a.due = now + j.day /\ ~a.active
  BY <1>5, <1>6, AddedJob
<1>8. Tables'
  BY <1>1, <1>4, <1>7 DEF TriggerAdd, Tables, rest
<1>9. CASE Free(p)
  <2>1. Pcs' /\ Moves(p, "free", NoTenant, NoJob, {})
    BY <1>1, <1>9, FreeMoves
  <2>2. ShapeOf(p)'
    BY <1>1, <2>1 DEF ShapeOf, Moves, Due, Milestone, Back, Trial
  <2> QED
    BY <1>1, <1>4, <1>7, <1>8, <2>1, <2>2, ShapesKept
<1>10. CASE Continue(p, "dueAdd", todo[p] \ {j})
  <2>1. todo[p] \ {j} \in Lists
    BY <1>1 DEF Pcs, Lists
  <2>2. Pcs' /\ Moves(p, "dueAdd", who[p], task[p], todo[p] \ {j})
    BY <1>1, <1>3, <1>10, <2>1, ContinueMoves
  <2>3. ShapeOf(p)'
    BY <1>1, <1>2, <2>2 DEF ShapeOf, Moves, Due, Milestone, Back, Trial
  <2> QED
    BY <1>1, <1>4, <1>7, <1>8, <2>2, <2>3, ShapesKept
<1> QED
  BY <1>4, <1>9, <1>10

LEMMA PickIs ==
    ASSUME Shapes, Mark, NEW p \in Proc, NEW j \in queue, Pick(p, j)
    PROVE  /\ Shapes' /\ pc[p] = "free" /\ j \in Jobs
           /\ \E a \in Jobs : /\ queue' = (queue \ {j}) \cup {a}
                              /\ a.active /\ a.tenant = j.tenant /\ a.day = j.day /\ a.due = j.due
                              /\ Moves(p, "check", j.tenant, a, {})
<1>1. ShapeOf(p) /\ Tables /\ Pcs /\ j \in Jobs
  BY TypesAre DEF Shapes, Tables
<1> DEFINE a == [j EXCEPT !.active = TRUE]
<1>2. a \in Jobs /\ a.active /\ a.tenant = j.tenant /\ a.day = j.day /\ a.due = j.due /\ j.tenant \in Tenant
  BY <1>1, PickedJob, Plain
<1>3. queue' = (queue \ {j}) \cup {a} /\ Start(p, "check", j.tenant, a, {})
  BY DEF Pick
<1>4. Tables'
  BY <1>1, <1>2, <1>3 DEF Pick, Tables, rest
<1>5. {} \in Lists /\ "check" \in Steps /\ a \in Tasks
  BY <1>2, Plain DEF Steps, Tasks
<1> HIDE DEF a
<1>6. Pcs' /\ Moves(p, "check", j.tenant, a, {}) /\ pc[p] = "free"
  BY <1>1, <1>2, <1>3, <1>5, StartMoves
<1>7. ShapeOf(p)'
  BY <1>2, <1>6 DEF ShapeOf, Moves, Due, Milestone, Back, Trial
<1> QED
  BY <1>1, <1>2, <1>3, <1>4, <1>6, <1>7, ShapesKept

\* Operations that end.
LEMMA FreeKept ==
    ASSUME Shapes, Mark, NEW p \in Proc, Free(p), Tables'
    PROVE  Shapes' /\ Moves(p, "free", NoTenant, NoJob, {})
<1>1. Pcs' /\ Moves(p, "free", NoTenant, NoJob, {})
  BY TypesAre, FreeMoves DEF Shapes
<1>2. ShapeOf(p)'
  BY <1>1 DEF ShapeOf, Moves, Due, Milestone, Back, Trial
<1> QED
  BY <1>1, <1>2, ShapesKept

LEMMA MilestoneCheckIs ==
    ASSUME Shapes, Mark, NEW p \in Proc, MilestoneCheck(p)
    PROVE  /\ Shapes' /\ pc[p] = "check"
           /\ \/ queue' = queue /\ Moves(p, "stage", who[p], task[p], {})
              \/ queue' = queue \ {task[p]} /\ Moves(p, "free", NoTenant, NoJob, {})
<1>1. ShapeOf(p) /\ Tables /\ Pcs /\ pc[p] = "check"
  BY TypesAre DEF Shapes, MilestoneCheck
<1>2. Tables'
  BY <1>1 DEF MilestoneCheck, Tables, rest
<1>3. CASE Free(p) /\ queue' = queue \ {task[p]}
  BY <1>1, <1>2, <1>3, FreeKept
<1>4. CASE Continue(p, "stage", {}) /\ UNCHANGED queue
  <2>1. {} \in Lists /\ "stage" \in Steps
    BY Plain DEF Steps
  <2>2. Pcs' /\ Moves(p, "stage", who[p], task[p], {})
    BY <1>1, <1>4, <2>1, ContinueMoves
  <2>3. ShapeOf(p)'
    BY <1>1, <2>2 DEF ShapeOf, Moves, Due, Milestone, Back, Trial
  <2> QED
    BY <1>1, <1>2, <1>4, <2>2, <2>3, ShapesKept
<1> QED
  BY <1>3, <1>4 DEF MilestoneCheck

LEMMA MilestoneMailIs ==
    ASSUME Shapes, Mark, NEW p \in Proc, MilestoneMail(p)
    PROVE  /\ Shapes' /\ pc[p] = "mail"
           /\ \/ queue' = queue /\ task[p].day = 30 /\ Moves(p, "cancelSub", who[p], task[p], {})
              \/ queue' = queue \ {task[p]} /\ Moves(p, "free", NoTenant, NoJob, {}) /\ task[p].day # 30
<1>1. ShapeOf(p) /\ Tables /\ Pcs /\ pc[p] = "mail"
  BY TypesAre DEF Shapes, MilestoneMail
<1>2. Tables'
  BY <1>1 DEF MilestoneMail, Tables, rest
<1>3. CASE Free(p) /\ queue' = queue \ {task[p]} /\ task[p].day # 30
  BY <1>1, <1>2, <1>3, FreeKept
<1>4. CASE Continue(p, "cancelSub", {}) /\ queue' = queue /\ task[p].day = 30
  <2>1. {} \in Lists /\ "cancelSub" \in Steps
    BY Plain DEF Steps
  <2>2. Pcs' /\ Moves(p, "cancelSub", who[p], task[p], {})
    BY <1>1, <1>4, <2>1, ContinueMoves
  <2>3. ShapeOf(p)'
    BY <1>1, <1>4, <2>2 DEF ShapeOf, Moves, Due, Milestone, Back, Trial
  <2> QED
    BY <1>1, <1>2, <1>4, <2>2, <2>3, ShapesKept
<1> QED
  BY <1>3, <1>4 DEF MilestoneMail

LEMMA CancelTenantIs ==
    ASSUME Shapes, Mark, NEW p \in Proc, CancelTenant(p)
    PROVE  Shapes' /\ pc[p] = "cancelTenant" /\ Moves(p, "free", NoTenant, NoJob, {})
<1>1. ShapeOf(p) /\ Tables /\ Pcs /\ pc[p] = "cancelTenant" /\ who[p] \in Tenant
  BY TypesAre DEF Shapes, ShapeOf, CancelTenant, Milestone
<1>2. Tables'
  BY <1>1 DEF CancelTenant, Tables, rest, SetStatus, Status
<1> QED
  BY <1>1, <1>2, FreeKept DEF CancelTenant

LEMMA ReactivateIs ==
    ASSUME Shapes, Mark, NEW p \in Proc, NEW t \in Tenant, Reactivate(p, t)
    PROVE  Shapes' /\ Moves(p, "backTenant", t, NoJob, {}) /\ pc[p] = "free"
<1>1. ShapeOf(p) /\ Tables /\ Pcs
  BY TypesAre DEF Shapes
<1>2. Tables'
  BY <1>1 DEF Reactivate, Tables, rest
<1>3. {} \in Lists /\ "backTenant" \in Steps /\ NoJob \in Tasks
  BY Plain DEF Steps
<1>4. Start(p, "backTenant", t, NoJob, {})
  BY DEF Reactivate
<1>5. Pcs' /\ Moves(p, "backTenant", t, NoJob, {}) /\ pc[p] = "free"
  BY <1>1, <1>3, <1>4, StartMoves
<1>6. ShapeOf(p)'
  BY <1>2, <1>5 DEF ShapeOf, Moves, Due, Milestone, Back, Trial
<1> QED
  BY <1>2, <1>5, <1>6, ShapesKept

LEMMA ReactivateRemoveIs ==
    ASSUME Shapes, Mark, NEW p \in Proc, ReactivateRemove(p)
    PROVE  /\ Shapes' /\ who[p] \in Tenant /\ pc[p] = "backRemove"
           /\ \/ queue' = queue /\ Moves(p, "free", NoTenant, NoJob, {})
              \/ \E j \in NextOf(todo[p]) :
                    /\ queue' = queue \ {j} /\ ~j.active /\ j.tenant = who[p]
                    /\ Moves(p, "backRemove", who[p], task[p], todo[p] \ {j})
<1>1. ShapeOf(p) /\ Tables /\ Pcs /\ pc[p] = "backRemove" /\ who[p] \in Tenant
  BY TypesAre DEF Shapes, ShapeOf, ReactivateRemove, Back
<1>2. Tables'
  BY <1>1 DEF ReactivateRemove, Tables, rest
<1>4. CASE Free(p) /\ UNCHANGED queue
  BY <1>1, <1>2, <1>4, FreeKept
<1>5. ASSUME NEW j \in NextOf(todo[p]), Continue(p, "backRemove", todo[p] \ {j})
      PROVE  /\ Shapes' /\ ~j.active /\ j.tenant = who[p]
             /\ Moves(p, "backRemove", who[p], task[p], todo[p] \ {j})
  <2>1. todo[p] \ {j} \in Lists /\ j \in todo[p] /\ "backRemove" \in Steps
    BY <1>1 DEF Pcs, Lists, NextOf, Steps
  <2>2. Pcs' /\ Moves(p, "backRemove", who[p], task[p], todo[p] \ {j})
    BY <1>1, <1>5, <2>1, ContinueMoves
  <2>3. ShapeOf(p)'
    BY <1>1, <2>2 DEF ShapeOf, Moves, Due, Milestone, Back, Trial
  <2>5. ~j.active /\ j.tenant = who[p]
    BY <1>1, <2>1 DEF ShapeOf
  <2> QED
    BY <1>1, <1>2, <2>2, <2>3, <2>5, ShapesKept
<1> QED
  BY <1>1, <1>4, <1>5 DEF ReactivateRemove

LEMMA TrialCheckIs ==
    ASSUME Shapes, Mark, NEW p \in Proc, TrialCheck(p)
    PROVE  /\ Shapes' /\ pc[p] = "free"
           /\ \E w \in SUBSET Tenant : Moves(p, "trialSub", NoTenant, NoJob, w)
<1>1. ShapeOf(p) /\ Tables /\ Pcs
  BY TypesAre DEF Shapes
<1>2. Tables'
  BY <1>1 DEF TrialCheck, Tables, rest
<1>3. PICK w \in SUBSET Tenant : Start(p, "trialSub", NoTenant, NoJob, w)
  BY DEF TrialCheck
<1>4. w \in Lists /\ "trialSub" \in Steps /\ NoJob \in Tasks
  BY Plain DEF Steps, Lists
<1>5. Pcs' /\ Moves(p, "trialSub", NoTenant, NoJob, w) /\ pc[p] = "free"
  BY <1>1, <1>3, <1>4, StartMoves
<1>6. ShapeOf(p)'
  BY <1>3, <1>5 DEF ShapeOf, Moves, Due, Milestone, Back, Trial
<1> QED
  BY <1>2, <1>5, <1>6, ShapesKept

LEMMA TrialSubIs ==
    ASSUME Shapes, Mark, NEW p \in Proc, TrialSub(p)
    PROVE  /\ Shapes' /\ pc[p] = "trialSub"
           /\ \E t \in Tenant : /\ t \in todo[p] /\ SetSub(t, "past_due")
                                /\ Moves(p, "trialTenant", t, task[p], todo[p])
<1>1. ShapeOf(p) /\ Tables /\ Pcs /\ pc[p] = "trialSub" /\ todo[p] \subseteq Tenant
  BY TypesAre DEF Shapes, ShapeOf, TrialSub, Trial
<1>2. PICK t \in todo[p] : /\ SetSub(t, "past_due")
                           /\ pc' = [pc EXCEPT ![p] = "trialTenant"]
                           /\ who' = [who EXCEPT ![p] = t]
                           /\ UNCHANGED <<task, todo>>
  BY DEF TrialSub
<1>3. t \in Tenant
  BY <1>1
<1>4. Tables'
  BY <1>1, <1>2, <1>3 DEF TrialSub, Tables, rest, SetSub, Status
<1>5. Pcs' /\ Moves(p, "trialTenant", t, task[p], todo[p])
  BY <1>1, <1>2, <1>3 DEF Pcs, Moves, Same, Steps
<1>6. ShapeOf(p)'
  BY <1>1, <1>3, <1>2, <1>5 DEF ShapeOf, Moves, Due, Milestone, Back, Trial
<1> QED
  BY <1>1, <1>2, <1>3, <1>4, <1>5, <1>6, ShapesKept

LEMMA TrialTenantIs ==
    ASSUME Shapes, Mark, NEW p \in Proc, TrialTenant(p)
    PROVE  /\ Shapes' /\ pc[p] = "trialTenant" /\ who[p] \in Tenant
           /\ \/ Moves(p, "free", NoTenant, NoJob, {})
              \/ Moves(p, "trialSub", who[p], task[p], todo[p] \ {who[p]})
<1>1. ShapeOf(p) /\ Tables /\ Pcs /\ pc[p] = "trialTenant" /\ who[p] \in Tenant
  BY TypesAre DEF Shapes, ShapeOf, TrialTenant
<1>2. Tables'
  BY <1>1 DEF TrialTenant, Tables, rest, SetStatus, Status
<1>3. CASE Free(p)
  BY <1>1, <1>2, <1>3, FreeKept
<1>4. CASE Continue(p, "trialSub", todo[p] \ {who[p]})
  <2>1. todo[p] \ {who[p]} \in Lists /\ "trialSub" \in Steps /\ todo[p] \subseteq Tenant
    BY <1>1 DEF Pcs, Lists, Steps, ShapeOf, Trial
  <2>2. Pcs' /\ Moves(p, "trialSub", who[p], task[p], todo[p] \ {who[p]})
    BY <1>1, <1>4, <2>1, ContinueMoves
  <2>3. ShapeOf(p)'
    BY <1>1, <2>1, <2>2 DEF ShapeOf, Moves, Due, Milestone, Back, Trial
  <2> QED
    BY <1>1, <1>2, <2>2, <2>3, ShapesKept
<1> QED
  BY <1>1, <1>3, <1>4 DEF TrialTenant

LEMMA StepFailsIs ==
    ASSUME Shapes, Mark, NEW p \in Proc, StepFails(p)
    PROVE  /\ Shapes' /\ pc[p] \notin {"free", "dueRemove", "backRemove"}
           /\ Moves(p, "free", NoTenant, NoJob, {})
<1>1. Tables /\ Pcs
  BY TypesAre DEF Shapes
<1>2. Tables'
  BY <1>1, Plain DEF StepFails, Tables
<1> QED
  BY <1>1, <1>2, FreeKept DEF StepFails

LEMMA RemoveFailsIs ==
    ASSUME Shapes, Mark, NEW p \in Proc, RemoveFails(p)
    PROVE  /\ Shapes' /\ pc[p] \in {"dueRemove", "backRemove"} /\ who[p] \in Tenant
           /\ \E j \in todo[p] : Moves(p, pc[p], who[p], task[p], todo[p] \ {j})
<1>1. ShapeOf(p) /\ Tables /\ Pcs /\ pc[p] \in {"dueRemove", "backRemove"} /\ who[p] \in Tenant
  BY TypesAre DEF Shapes, ShapeOf, RemoveFails, Due, Back
<1>2. Tables'
  BY <1>1, Plain DEF RemoveFails, Tables
<1>3. PICK j \in todo[p] : Continue(p, pc[p], todo[p] \ {j})
  BY DEF RemoveFails, NextOf
<1>4. todo[p] \ {j} \in Lists /\ pc[p] \in Steps
  BY <1>1 DEF Pcs, Lists
<1>5. Pcs' /\ Moves(p, pc[p], who[p], task[p], todo[p] \ {j})
  BY <1>1, <1>3, <1>4, ContinueMoves
<1>6. ShapeOf(p)'
  BY <1>1, <1>5 DEF ShapeOf, Moves, Due, Milestone, Back, Trial
<1> QED
  BY <1>1, <1>2, <1>3, <1>5, <1>6, ShapesKept
LEMMA WebhookIs ==
    ASSUME Shapes, Mark, NEW x \in Tenant, Webhook(x)
    PROVE  Shapes' /\ \A q \in Proc : Same(q)
<1>1. Tables /\ Pcs /\ \A q \in Proc : Same(q) /\ ShapeOf(q)
  BY TypesAre DEF Shapes, Webhook, Same
<1>2. Tables' /\ Pcs'
  BY <1>1 DEF Webhook, Tables, Pcs, rest, SetStatus, Status
<1>3. TypeOK'
  BY <1>2, TypesAre DEF Shapes, Mark, TypeOK, Tables, Pcs, Tasks, Lists
<1>4. \A q \in Proc : ShapeOf(q)'
  BY <1>1 DEF Same, ShapeOf
<1> QED
  BY <1>1, <1>3, <1>4 DEF Shapes

LEMMA TickIs ==
    ASSUME Shapes, Mark, Tick
    PROVE  /\ Shapes' /\ \A q \in Proc : Same(q) /\ pc[q] = "free" /\ who[q] = NoTenant
           /\ now' \in Nat /\ now' >= now
<1>1. Tables /\ Pcs /\ \A q \in Proc : Same(q) /\ ShapeOf(q) /\ pc[q] = "free"
  BY TypesAre DEF Shapes, Tick, Same
<1>2. PICK j \in queue : j.due > now /\ now' = j.due
  BY DEF Tick
<1>3. j.due \in Nat /\ now \in Nat
  BY <1>1, <1>2, Plain DEF Tables
<1>4. Tables' /\ Pcs'
  BY <1>1, <1>2, <1>3 DEF Tick, Tables, Pcs
<1>5. TypeOK'
  BY <1>4, TypesAre DEF Shapes, Mark, TypeOK, Tables, Pcs, Tasks, Lists
<1>6. \A q \in Proc : ShapeOf(q)'
  BY <1>1 DEF Same, ShapeOf
<1> QED
  BY <1>1, <1>2, <1>3, <1>5, <1>6 DEF Shapes, ShapeOf

LEMMA StalledJob ==
    ASSUME NEW j \in Jobs
    PROVE  LET k == Stalled(j) IN
           k \in Jobs /\ ~k.active /\ k.tenant = j.tenant /\ k.day = j.day /\ k.due = j.due
BY DEF Jobs, Stalled

LEMMA CrashIs ==
    ASSUME Shapes, Mark, Crash
    PROVE  /\ Shapes' /\ \A q \in Proc : pc'[q] = "free" /\ who'[q] = NoTenant
           /\ \A k \in queue' : \E j \in queue :
                 ~k.active /\ k.tenant = j.tenant /\ k.day = j.day /\ k.due = j.due
           /\ \A j \in queue : Lost(j) \/ \E k \in queue' :
                 ~k.active /\ k.tenant = j.tenant /\ k.day = j.day /\ k.due = j.due
<1>1. Tables /\ Pcs
  BY TypesAre DEF Shapes
<1>2. ASSUME NEW j \in queue
      PROVE  LET k == Stalled(j) IN
             k \in Jobs /\ ~k.active /\ k.tenant = j.tenant /\ k.day = j.day /\ k.due = j.due
  BY <1>1, StalledJob DEF Tables
<1>3. queue' = {Stalled(j) : j \in {k \in queue : ~Lost(k)}}
  BY DEF Crash
<1>4. Tables'
  BY <1>1, <1>2, <1>3, Plain DEF Crash, Tables
<1>5. "free" \in Steps /\ NoJob \in Tasks /\ {} \in Lists
  BY Plain DEF Steps
<1>6. Pcs' /\ \A q \in Proc : pc'[q] = "free" /\ who'[q] = NoTenant /\ task'[q] = NoJob /\ todo'[q] = {}
  BY <1>5 DEF Crash, Pcs
<1>7. TypeOK'
  BY <1>4, <1>6, TypesAre DEF Shapes, Mark, TypeOK, Tables, Pcs, Tasks, Lists
<1>8. \A q \in Proc : ShapeOf(q)'
  BY <1>6 DEF ShapeOf, Due, Milestone, Back, Trial
<1>9. ASSUME NEW k \in queue'
      PROVE  \E j \in queue : ~k.active /\ k.tenant = j.tenant /\ k.day = j.day /\ k.due = j.due
  <2>1. PICK j \in queue : k = Stalled(j)
    BY <1>3
  <2> QED
    BY <1>2, <2>1
<1>10. ASSUME NEW j \in queue, ~Lost(j)
       PROVE  \E k \in queue' : ~k.active /\ k.tenant = j.tenant /\ k.day = j.day /\ k.due = j.due
  <2>1. Stalled(j) \in queue'
    BY <1>3, <1>10
  <2> QED
    BY <1>2, <2>1
<1> QED
  BY <1>6, <1>7, <1>8, <1>9, <1>10 DEF Shapes

-----------------------------------------------------------------------------
(* What a step leaves as it was *)

\* Overlaps stay marked.
LEMMA MarksGrow ==
    ASSUME Mark
    PROVE  raced \subseteq raced' /\ (raced \subseteq Tenant => raced' \subseteq Tenant) /\ OverlapsMarked'
BY DEF Mark, OverlapsMarked

LEMMA ActiveKept ==
    ASSUME ActiveOwned, NEW p \in Proc, NEW s, NEW u, NEW j, NEW w, Moves(p, s, u, j, w),
           \A k \in queue' : k.active =>
              \/ s \in Milestone /\ j = k
              \/ k \in queue /\ ~(pc[p] \in Milestone /\ task[p] = k)
    PROVE  ActiveOwned'
<1> SUFFICES ASSUME NEW k \in queue', k.active
             PROVE  \E q \in Proc : pc'[q] \in Milestone /\ task'[q] = k
  BY DEF ActiveOwned, Milestone
<1>1. CASE s \in Milestone /\ j = k
  BY <1>1 DEF Moves
<1>2. CASE k \in queue /\ ~(pc[p] \in Milestone /\ task[p] = k)
  <2>1. PICK q \in Proc : pc[q] \in Milestone /\ task[q] = k
    BY <1>2 DEF ActiveOwned
  <2> QED
    BY <1>2, <2>1 DEF Moves, Same
<1> QED
  BY <1>1, <1>2

LEMMA DoomKept ==
    ASSUME NEW q \in Proc, Same(q), NEW k, DoomedBy(q, k)
    PROVE  DoomedBy(q, k)'
BY DEF Same, DoomedBy, Milestone

LEMMA OldKept ==
    ASSUME OldJobsGo, Mark, NEW p \in Proc, NEW s, NEW u, NEW j, NEW w, Moves(p, s, u, j, w),
           broken \subseteq broken', faults # 0 => faults' # 0,
           \A k \in queue' : k.day = 30 /\ ~Excused(k.tenant)' =>
              \/ k.due >= since'[k.tenant] + 30
              \/ DoomedBy(p, k)'
              \/ \E q \in Proc \ {p} : DoomedBy(q, k)
              \/ k \in queue /\ since'[k.tenant] = since[k.tenant] /\ ~DoomedBy(p, k)
    PROVE  OldJobsGo'
<1> SUFFICES ASSUME NEW k \in queue', k.day = 30, ~Excused(k.tenant)'
             PROVE  k.due >= since'[k.tenant] + 30 \/ Doomed(k)'
  BY DEF OldJobsGo, Excused, Doomed, DoomedBy
<1>1. ASSUME NEW q \in Proc \ {p}, DoomedBy(q, k) PROVE Doomed(k)'
  <2>1. Same(q)
    BY DEF Moves
  <2> QED
    BY <1>1, <2>1, DoomKept DEF Doomed
<1>2. CASE k \in queue /\ since'[k.tenant] = since[k.tenant] /\ ~DoomedBy(p, k)
  <2>1. ~Excused(k.tenant)
    BY MarksGrow DEF Excused
  <2>2. k.due >= since[k.tenant] + 30 \/ Doomed(k)
    BY <1>2, <2>1 DEF OldJobsGo
  <2> QED
    BY <1>1, <1>2, <2>2 DEF Doomed
<1> QED
  BY <1>1, <1>2 DEF Doomed

Others(x) == \A t \in Tenant \ {x} :
    tenant'[t] = tenant[t] /\ sub'[t] = sub[t] /\ since'[t] = since[t] /\ Of(t)' = Of(t)
Alone(p, t) == \A q \in Proc \ {p} : ~Concerns(q, t)
Ordered(t) == OneSchedule(t) /\ LockedRest(t) /\ SubFollows(t)

\* A step of p for tenant x: the other tenants keep their order, and x does when,
\* given it had it before and that p alone concerns it, it has it after.
LEMMA InOrderKept ==
    ASSUME Shapes, OverlapsMarked, Mark, \A t \in Tenant : InOrder(t),
           NEW p \in Proc, NEW s, NEW u, NEW j, NEW w, Moves(p, s, u, j, w),
           NEW x \in Tenant, who[p] = x \/ u = x, u \in {x, NoTenant},
           Others(x), now' = now, broken \subseteq broken',
           x \notin broken' /\ Clean(x) /\ Ordered(x) /\ (who[p] = x => WayOf(p, x)) /\ Alone(p, x)
              => Ordered(x)' /\ (u = x => WayOf(p, x)')
    PROVE  \A t \in Tenant : InOrder(t)'
<1>1. ASSUME NEW t \in Tenant \ {x} PROVE InOrder(t)'
  <2> SUFFICES ASSUME Clean(t)' PROVE InOrder(t)'
    BY DEF InOrder
  <2>1. Clean(t)
    BY MarksGrow DEF Clean
  <2>2. OneSchedule(t)' /\ LockedRest(t)' /\ SubFollows(t)'
    BY <2>1 DEF InOrder, Others, OneSchedule, LockedRest, SubFollows
  <2>3. ASSUME NEW q \in Proc, who'[q] = t PROVE WayOf(q, t)'
    <3>1. u # t
      BY Plain
    <3>2. q # p
      BY <2>3, <3>1 DEF Moves
    <3>3. Same(q)
      BY <3>2 DEF Moves
    <3>4. WayOf(q, t)
      BY <2>1, <2>3, <3>3 DEF InOrder, Same
    <3> QED
      BY <3>3, <3>4 DEF WayOf, Same, Others, Milestone
  <2> QED
    BY <2>2, <2>3 DEF InOrder
<1>2. InOrder(x)'
  <2> SUFFICES ASSUME Clean(x)' PROVE InOrder(x)'
    BY DEF InOrder
  <2>1. Clean(x) /\ x \notin broken' /\ x \notin raced'
    BY MarksGrow DEF Clean
  <2>2. Ordered(x) /\ (who[p] = x => WayOf(p, x))
    BY <2>1 DEF InOrder, Ordered
  <2>3. ASSUME NEW q \in Proc \ {p} PROVE ~Concerns(q, x) /\ who'[q] # x
    <3>1. Same(q)
      BY DEF Moves
    <3>2. CASE who[p] = x
      BY <2>1, <3>1, <3>2 DEF OverlapsMarked, Overlap, Concerns, Clean, Same
    <3>3. CASE u = x
      <4>1. x \notin raced' => ~Overlap(x)'
        BY DEF Mark
      <4>2. Concerns(p, x)'
        BY <3>3 DEF Moves, Concerns
      <4>3. ~Concerns(q, x)'
        BY <2>1, <4>1, <4>2 DEF Overlap
      <4> QED
        BY <3>1, <4>3 DEF Concerns, Same
    <3> QED
      BY <3>2, <3>3
  <2>4. Alone(p, x)
    BY <2>3 DEF Alone
  <2>5. Ordered(x)' /\ (u = x => WayOf(p, x)')
    BY <2>1, <2>2, <2>4
  <2> QED
    BY <2>3, <2>5 DEF InOrder, Ordered, Moves
<1> QED
  BY <1>1, <1>2

-----------------------------------------------------------------------------
(* Each operation keeps the invariant *)

LEMMA TriggerSubKeeps ==
    ASSUME IInv, Mark, NEW p \in Proc, TriggerSub(p)
    PROVE  IInv'
<1>1. PICK x \in Tenant : /\ x = who[p] /\ pc[p] = "dueSub" /\ Shapes'
                          /\ Moves(p, "dueTenant", x, task[p], {})
  BY TriggerSubIs DEF IInv
<1>2. Shapes /\ OverlapsMarked /\ ActiveOwned /\ OldJobsGo /\ \A t \in Tenant : InOrder(t)
  BY DEF IInv
<1>3. ActiveOwned'
  BY <1>1, <1>2, ActiveKept DEF TriggerSub, Milestone
<1>4. SinceNow'
  BY DEF TriggerSub, SinceNow, rest, IInv
<1>5. OldJobsGo'
  <2>1. \A k \in queue' : k \in queue /\ since' = since /\ (DoomedBy(p, k)' \/ ~DoomedBy(p, k))
    BY <1>1 DEF TriggerSub, rest, Moves, DoomedBy, Milestone
  <2> QED
    BY <1>1, <1>2, <2>1, OldKept DEF TriggerSub, rest
<1>6. \A t \in Tenant : InOrder(t)'
  <2>1. Others(x)
    BY <1>1, <1>2 DEF TriggerSub, Others, Of, rest, SetSub, SetStatus, Shapes, TypeOK
  <2>2. ASSUME Clean(x), Ordered(x), WayOf(p, x), Alone(p, x)
        PROVE  Ordered(x)' /\ WayOf(p, x)'
    BY <1>1, <1>2, <2>2 DEF TriggerSub, rest, Ordered, OneSchedule, LockedRest, SubFollows, Of, WayOf,
                             SetSub, SetStatus, Moves, Milestone, Shapes, TypeOK, ShapeOf
  <2> QED
    BY <1>1, <1>2, <2>1, <2>2, InOrderKept DEF TriggerSub, rest
<1> QED
  BY <1>1, <1>3, <1>4, <1>5, <1>6, MarksGrow DEF IInv

LEMMA TriggerTenantKeeps ==
    ASSUME IInv, Mark, NEW p \in Proc, TriggerTenant(p)
    PROVE  IInv'
<1>1. PICK x \in Tenant : /\ x = who[p] /\ pc[p] = "dueTenant" /\ Shapes'
                          /\ Moves(p, "dueList", x, task[p], {})
  BY TriggerTenantIs DEF IInv
<1>2. Shapes /\ OverlapsMarked /\ ActiveOwned /\ OldJobsGo /\ \A t \in Tenant : InOrder(t)
  BY DEF IInv
<1>3. ActiveOwned'
  BY <1>1, <1>2, ActiveKept DEF TriggerTenant, Milestone
<1>4. SinceNow'
  BY <1>1 DEF TriggerTenant, SinceNow, Shapes, TypeOK, IInv
<1>5. OldJobsGo'
  <2> SUFFICES ASSUME NEW k \in queue'
               PROVE  \/ DoomedBy(p, k)'
                      \/ \E q \in Proc \ {p} : DoomedBy(q, k)
                      \/ k \in queue /\ since'[k.tenant] = since[k.tenant] /\ ~DoomedBy(p, k)
    BY <1>1, <1>2, OldKept DEF TriggerTenant
  <2>1. k \in queue /\ k \in Jobs /\ k.tenant \in Tenant
    BY <1>2, Plain DEF TriggerTenant, Shapes, TypeOK
  <2>2. CASE k.tenant # who[p]
    BY <1>1, <2>1, <2>2 DEF TriggerTenant, DoomedBy, Milestone, Shapes, TypeOK, IInv
  <2>3. CASE k.tenant = who[p] /\ ~k.active
    BY <1>1, <2>3 DEF Moves, DoomedBy
  <2>4. CASE k.active
    BY <1>1, <1>2, <2>1, <2>4 DEF ActiveOwned, DoomedBy, Milestone
  <2> QED
    BY <2>2, <2>3, <2>4
<1>6. \A t \in Tenant : InOrder(t)'
  <2>1. Others(x)
    BY <1>1, <1>2 DEF TriggerTenant, Others, Of, rest, SetSub, SetStatus, Shapes, TypeOK
  <2>2. ASSUME Clean(x), Ordered(x), WayOf(p, x), Alone(p, x)
        PROVE  Ordered(x)' /\ WayOf(p, x)'
    BY <1>1, <1>2, <2>2 DEF TriggerTenant, rest, Ordered, OneSchedule, LockedRest, SubFollows, Of, WayOf,
                             SetSub, SetStatus, Moves, Milestone, Shapes, TypeOK, ShapeOf
  <2> QED
    BY <1>1, <1>2, <2>1, <2>2, InOrderKept DEF TriggerTenant, rest
<1> QED
  BY <1>1, <1>3, <1>4, <1>5, <1>6, MarksGrow DEF IInv

LEMMA TriggerListKeeps ==
    ASSUME IInv, Mark, NEW p \in Proc, TriggerList(p)
    PROVE  IInv'
<1>1. PICK x \in Tenant : /\ x = who[p] /\ pc[p] = "dueList" /\ Shapes'
                          /\ Moves(p, "dueRemove", x, task[p], Removable(x))
  BY TriggerListIs DEF IInv
<1>2. Shapes /\ OverlapsMarked /\ ActiveOwned /\ OldJobsGo /\ \A t \in Tenant : InOrder(t)
  BY DEF IInv
<1>3. ActiveOwned'
  BY <1>1, <1>2, ActiveKept DEF TriggerList, Milestone
<1>4. SinceNow'
  BY DEF TriggerList, SinceNow, rest, IInv
<1>5. OldJobsGo'
  <2>1. \A k \in queue' : k \in queue /\ since' = since /\ (DoomedBy(p, k)' \/ ~DoomedBy(p, k))
    BY <1>1 DEF TriggerList, rest, Moves, DoomedBy, Milestone, Removable
  <2> QED
    BY <1>1, <1>2, <2>1, OldKept DEF TriggerList, rest
<1>6. \A t \in Tenant : InOrder(t)'
  <2>1. Others(x)
    BY <1>1, <1>2 DEF TriggerList, Others, Of, rest, SetSub, SetStatus, Shapes, TypeOK
  <2>2. ASSUME Clean(x), Ordered(x), WayOf(p, x), Alone(p, x)
        PROVE  Ordered(x)' /\ WayOf(p, x)'
    <3>1. Ordered(x)'
      BY <1>2, <2>2 DEF TriggerList, rest, Ordered, OneSchedule, LockedRest, SubFollows, Of
    <3>2. ASSUME NEW k \in Of(x), k.active PROVE FALSE
      <4>1. PICK q \in Proc : pc[q] \in Milestone /\ task[q] = k
        BY <1>2, <3>2 DEF ActiveOwned, Of
      <4>2. who[q] = x
        BY <1>2, <3>2, <4>1 DEF Of, Shapes, ShapeOf
      <4> QED
        BY <1>1, <2>2, <4>1, <4>2 DEF Alone, Concerns, Milestone
    <3>3. Of(x)' \subseteq Removable(x)
      BY <3>2 DEF TriggerList, Of, Removable
    <3> QED
      BY <1>1, <1>2, <2>2, <3>1, <3>3 DEF TriggerList, rest, WayOf, Moves, Milestone
  <2> QED
    BY <1>1, <1>2, <2>1, <2>2, InOrderKept DEF TriggerList, rest
<1> QED
  BY <1>1, <1>3, <1>4, <1>5, <1>6, MarksGrow DEF IInv

LEMMA MilestoneStageKeeps ==
    ASSUME IInv, Mark, NEW p \in Proc, MilestoneStage(p)
    PROVE  IInv'
<1>1. PICK x \in Tenant : /\ x = who[p] /\ pc[p] = "stage" /\ Shapes'
                          /\ Moves(p, "mail", x, task[p], {})
  BY MilestoneStageIs DEF IInv
<1>2. Shapes /\ OverlapsMarked /\ ActiveOwned /\ OldJobsGo /\ \A t \in Tenant : InOrder(t)
  BY DEF IInv
<1>3. ActiveOwned'
  BY <1>1, <1>2, ActiveKept DEF MilestoneStage, Milestone
<1>4. SinceNow'
  BY DEF MilestoneStage, SinceNow, rest, IInv
<1>5. OldJobsGo'
  <2>1. \A k \in queue' : k \in queue /\ since' = since /\ (DoomedBy(p, k)' \/ ~DoomedBy(p, k))
    BY <1>1 DEF MilestoneStage, rest, Moves, DoomedBy, Milestone
  <2> QED
    BY <1>1, <1>2, <2>1, OldKept DEF MilestoneStage, rest
<1>6. \A t \in Tenant : InOrder(t)'
  <2>1. Others(x)
    BY <1>1, <1>2 DEF MilestoneStage, Others, Of, rest, SetSub, SetStatus, Shapes, TypeOK
  <2>2. ASSUME Clean(x), Ordered(x), WayOf(p, x), Alone(p, x)
        PROVE  Ordered(x)' /\ WayOf(p, x)'
    <3>1. /\ tenant'[x].stage = task[p].day /\ tenant'[x].status = tenant[x].status
          /\ Of(x)' = Of(x) /\ sub' = sub /\ since' = since
      BY <1>1, <1>2 DEF MilestoneStage, rest, Of, Shapes, TypeOK
    <3>2. task[p] \in Of(x) /\ \A k \in Of(x) : task[p].day <= k.day
      BY <1>1, <2>2 DEF WayOf, Milestone
    <3>3. \A k \in Of(x) : k.day \in Nat
      BY <1>2, Plain DEF Of, Shapes, TypeOK
    <3>4. LockedRest(x)'
      BY <3>1, <3>2, <3>3 DEF LockedRest
    <3>5. OneSchedule(x)' /\ SubFollows(x)'
      BY <2>2, <3>1 DEF Ordered, OneSchedule, SubFollows
    <3> QED
      BY <1>1, <2>2, <3>1, <3>4, <3>5 DEF Ordered, WayOf, Moves, Milestone
  <2> QED
    BY <1>1, <1>2, <2>1, <2>2, InOrderKept DEF MilestoneStage, rest
<1> QED
  BY <1>1, <1>3, <1>4, <1>5, <1>6, MarksGrow DEF IInv

LEMMA CancelSubKeeps ==
    ASSUME IInv, Mark, NEW p \in Proc, CancelSub(p)
    PROVE  IInv'
<1>1. PICK x \in Tenant : /\ x = who[p] /\ pc[p] = "cancelSub" /\ Shapes'
                          /\ Moves(p, "cancelTenant", x, task[p], {})
  BY CancelSubIs DEF IInv
<1>2. Shapes /\ OverlapsMarked /\ ActiveOwned /\ OldJobsGo /\ \A t \in Tenant : InOrder(t)
  BY DEF IInv
<1>3. ActiveOwned'
  BY <1>1, <1>2, ActiveKept DEF CancelSub, Milestone
<1>4. SinceNow'
  BY DEF CancelSub, SinceNow, rest, IInv
<1>5. OldJobsGo'
  <2>1. \A k \in queue' : k \in queue /\ since' = since /\ (DoomedBy(p, k)' \/ ~DoomedBy(p, k))
    BY <1>1 DEF CancelSub, rest, Moves, DoomedBy, Milestone
  <2> QED
    BY <1>1, <1>2, <2>1, OldKept DEF CancelSub, rest
<1>6. \A t \in Tenant : InOrder(t)'
  <2>1. Others(x)
    BY <1>1, <1>2 DEF CancelSub, Others, Of, rest, SetSub, SetStatus, Shapes, TypeOK
  <2>2. ASSUME Clean(x), Ordered(x), WayOf(p, x), Alone(p, x)
        PROVE  Ordered(x)' /\ WayOf(p, x)'
    BY <1>1, <1>2, <2>2 DEF CancelSub, rest, Ordered, OneSchedule, LockedRest, SubFollows, Of, WayOf,
                             SetSub, SetStatus, Moves, Milestone, Shapes, TypeOK, ShapeOf
  <2> QED
    BY <1>1, <1>2, <2>1, <2>2, InOrderKept DEF CancelSub, rest
<1> QED
  BY <1>1, <1>3, <1>4, <1>5, <1>6, MarksGrow DEF IInv

LEMMA ReactivateTenantKeeps ==
    ASSUME IInv, Mark, NEW p \in Proc, ReactivateTenant(p)
    PROVE  IInv'
<1>1. PICK x \in Tenant : /\ x = who[p] /\ pc[p] = "backTenant" /\ Shapes'
                          /\ Moves(p, "backSub", x, task[p], {})
  BY ReactivateTenantIs DEF IInv
<1>2. Shapes /\ OverlapsMarked /\ ActiveOwned /\ OldJobsGo /\ \A t \in Tenant : InOrder(t)
  BY DEF IInv
<1>3. ActiveOwned'
  BY <1>1, <1>2, ActiveKept DEF ReactivateTenant, Milestone
<1>4. SinceNow'
  BY DEF ReactivateTenant, SinceNow, rest, IInv
<1>5. OldJobsGo'
  <2>1. \A k \in queue' : k \in queue /\ since' = since /\ (DoomedBy(p, k)' \/ ~DoomedBy(p, k))
    BY <1>1 DEF ReactivateTenant, rest, Moves, DoomedBy, Milestone
  <2> QED
    BY <1>1, <1>2, <2>1, OldKept DEF ReactivateTenant, rest
<1>6. \A t \in Tenant : InOrder(t)'
  <2>1. Others(x)
    BY <1>1, <1>2 DEF ReactivateTenant, Others, Of, rest, SetSub, SetStatus, Shapes, TypeOK
  <2>2. ASSUME Clean(x), Ordered(x), WayOf(p, x), Alone(p, x)
        PROVE  Ordered(x)' /\ WayOf(p, x)'
    BY <1>1, <1>2, <2>2 DEF ReactivateTenant, rest, Ordered, OneSchedule, LockedRest, SubFollows, Of, WayOf,
                             SetSub, SetStatus, Moves, Milestone, Shapes, TypeOK, ShapeOf
  <2> QED
    BY <1>1, <1>2, <2>1, <2>2, InOrderKept DEF ReactivateTenant, rest
<1> QED
  BY <1>1, <1>3, <1>4, <1>5, <1>6, MarksGrow DEF IInv

LEMMA ReactivateSubKeeps ==
    ASSUME IInv, Mark, NEW p \in Proc, ReactivateSub(p)
    PROVE  IInv'
<1>1. PICK x \in Tenant : /\ x = who[p] /\ pc[p] = "backSub" /\ Shapes'
                          /\ Moves(p, "backList", x, task[p], {})
  BY ReactivateSubIs DEF IInv
<1>2. Shapes /\ OverlapsMarked /\ ActiveOwned /\ OldJobsGo /\ \A t \in Tenant : InOrder(t)
  BY DEF IInv
<1>3. ActiveOwned'
  BY <1>1, <1>2, ActiveKept DEF ReactivateSub, Milestone
<1>4. SinceNow'
  BY DEF ReactivateSub, SinceNow, rest, IInv
<1>5. OldJobsGo'
  <2>1. \A k \in queue' : k \in queue /\ since' = since /\ (DoomedBy(p, k)' \/ ~DoomedBy(p, k))
    BY <1>1 DEF ReactivateSub, rest, Moves, DoomedBy, Milestone
  <2> QED
    BY <1>1, <1>2, <2>1, OldKept DEF ReactivateSub, rest
<1>6. \A t \in Tenant : InOrder(t)'
  <2>1. Others(x)
    BY <1>1, <1>2 DEF ReactivateSub, Others, Of, rest, SetSub, SetStatus, Shapes, TypeOK
  <2>2. ASSUME Clean(x), Ordered(x), WayOf(p, x), Alone(p, x)
        PROVE  Ordered(x)' /\ WayOf(p, x)'
    BY <1>1, <1>2, <2>2 DEF ReactivateSub, rest, Ordered, OneSchedule, LockedRest, SubFollows, Of, WayOf,
                             SetSub, SetStatus, Moves, Milestone, Shapes, TypeOK, ShapeOf
  <2> QED
    BY <1>1, <1>2, <2>1, <2>2, InOrderKept DEF ReactivateSub, rest
<1> QED
  BY <1>1, <1>3, <1>4, <1>5, <1>6, MarksGrow DEF IInv

LEMMA ReactivateListKeeps ==
    ASSUME IInv, Mark, NEW p \in Proc, ReactivateList(p)
    PROVE  IInv'
<1>1. PICK x \in Tenant : /\ x = who[p] /\ pc[p] = "backList" /\ Shapes'
                          /\ Moves(p, "backRemove", x, task[p], Removable(x))
  BY ReactivateListIs DEF IInv
<1>2. Shapes /\ OverlapsMarked /\ ActiveOwned /\ OldJobsGo /\ \A t \in Tenant : InOrder(t)
  BY DEF IInv
<1>3. ActiveOwned'
  BY <1>1, <1>2, ActiveKept DEF ReactivateList, Milestone
<1>4. SinceNow'
  BY DEF ReactivateList, SinceNow, rest, IInv
<1>5. OldJobsGo'
  <2>1. \A k \in queue' : k \in queue /\ since' = since /\ (DoomedBy(p, k)' \/ ~DoomedBy(p, k))
    BY <1>1 DEF ReactivateList, rest, Moves, DoomedBy, Milestone, Removable
  <2> QED
    BY <1>1, <1>2, <2>1, OldKept DEF ReactivateList, rest
<1>6. \A t \in Tenant : InOrder(t)'
  <2>1. Others(x)
    BY <1>1, <1>2 DEF ReactivateList, Others, Of, rest, SetSub, SetStatus, Shapes, TypeOK
  <2>2. ASSUME Clean(x), Ordered(x), WayOf(p, x), Alone(p, x)
        PROVE  Ordered(x)' /\ WayOf(p, x)'
    BY <1>1, <1>2, <2>2 DEF ReactivateList, rest, Ordered, OneSchedule, LockedRest, SubFollows, Of, WayOf,
                             SetSub, SetStatus, Moves, Milestone, Shapes, TypeOK, ShapeOf
  <2> QED
    BY <1>1, <1>2, <2>1, <2>2, InOrderKept DEF ReactivateList, rest
<1> QED
  BY <1>1, <1>3, <1>4, <1>5, <1>6, MarksGrow DEF IInv

\* An activity starts, for a tenant.
LEMMA BeginKeeps ==
    ASSUME IInv, Mark, NEW p \in Proc, NEW x \in Tenant, Trigger(p, x) \/ Reactivate(p, x)
    PROVE  IInv'
<1>1. PICK j \in {Schedule(triggers + 1), NoJob}, s \in {"dueSub", "backTenant"} :
        Shapes' /\ Moves(p, s, x, j, {}) /\ pc[p] = "free"
  BY TriggerIs, ReactivateIs DEF IInv
<1>2. Shapes /\ OverlapsMarked /\ ActiveOwned /\ OldJobsGo /\ \A t \in Tenant : InOrder(t)
  BY DEF IInv
<1>3. UNCHANGED <<tenant, sub, queue, now, since, faults, broken>>
  BY DEF Trigger, Reactivate, rest
<1>4. ActiveOwned'
  BY <1>1, <1>2, <1>3, ActiveKept DEF Milestone
<1>5. SinceNow'
  BY <1>3 DEF SinceNow, IInv
<1>6. OldJobsGo'
  <2>1. \A k \in queue' : k \in queue /\ since' = since /\ ~DoomedBy(p, k)
    BY <1>1, <1>3 DEF DoomedBy, Milestone
  <2> QED
    BY <1>1, <1>2, <1>3, <2>1, OldKept
<1>7. \A t \in Tenant : InOrder(t)'
  <2>1. Others(x)
    BY <1>3 DEF Others, Of
  <2>2. ASSUME Ordered(x) PROVE Ordered(x)' /\ WayOf(p, x)'
    BY <1>1, <1>3, <2>2 DEF Ordered, OneSchedule, LockedRest, SubFollows, Of, WayOf, Moves, Milestone
  <2> QED
    BY <1>1, <1>2, <1>3, <2>1, <2>2, InOrderKept
<1> QED
  BY <1>1, <1>4, <1>5, <1>6, <1>7, MarksGrow DEF IInv

LEMMA TriggerRemoveKeeps ==
    ASSUME IInv, Mark, NEW p \in Proc, TriggerRemove(p)
    PROVE  IInv'
<1>1. PICK x \in Tenant :
        /\ x = who[p] /\ pc[p] = "dueRemove" /\ Shapes'
        /\ \/ /\ todo[p] = {} /\ queue' = queue
              /\ Moves(p, "dueAdd", x, task[p], NewJobs(who[p], task[p].gen))
           \/ \E j \in todo[p] :
                 /\ queue' = queue \ {j} /\ ~j.active /\ j.tenant = x
                 /\ Moves(p, "dueRemove", x, task[p], todo[p] \ {j})
  BY TriggerRemoveIs DEF IInv, NextOf
<1>2. Shapes /\ OverlapsMarked /\ ActiveOwned /\ OldJobsGo /\ \A t \in Tenant : InOrder(t)
  BY DEF IInv
<1>3. UNCHANGED <<tenant, sub, now, since, faults, broken>>
  BY DEF TriggerRemove, rest
<1>4. SinceNow'
  BY <1>3 DEF SinceNow, IInv
<1>5. CASE todo[p] = {} /\ queue' = queue /\ Moves(p, "dueAdd", x, task[p], NewJobs(who[p], task[p].gen))
  <2>1. ActiveOwned'
    BY <1>1, <1>2, <1>5, ActiveKept DEF Milestone
  <2>2. OldJobsGo'
    <3>1. \A k \in queue' : k \in queue /\ since' = since /\ ~DoomedBy(p, k)
      BY <1>1, <1>3, <1>5 DEF DoomedBy, Milestone
    <3> QED
      BY <1>2, <1>3, <1>5, <3>1, OldKept
  <2>3. Others(x)
    BY <1>3, <1>5 DEF Others, Of
  <2>4. ASSUME Ordered(x), WayOf(p, x) PROVE Ordered(x)' /\ WayOf(p, x)'
    <3>1. Of(x)' = {} /\ sub'[x] = "past_due" /\ tenant'[x].stage < 4
      BY <1>1, <1>3, <1>5, <2>4 DEF WayOf, Of
    <3> QED
      BY <1>5, <3>1 DEF Ordered, OneSchedule, LockedRest, SubFollows, WayOf, Moves, Milestone
  <2>5. \A t \in Tenant : InOrder(t)'
    BY <1>1, <1>2, <1>3, <1>5, <2>3, <2>4, InOrderKept
  <2> QED
    BY <1>1, <1>4, <2>1, <2>2, <2>5, MarksGrow DEF IInv
<1>6. ASSUME NEW j \in todo[p], queue' = queue \ {j}, j.tenant = x,
             Moves(p, "dueRemove", x, task[p], todo[p] \ {j})
      PROVE  IInv'
  <2>1. ActiveOwned'
    BY <1>1, <1>2, <1>6, ActiveKept DEF Milestone
  <2>2. OldJobsGo'
    <3>1. \A k \in queue' : k \in queue /\ since' = since /\ (DoomedBy(p, k)' \/ ~DoomedBy(p, k))
      BY <1>1, <1>3, <1>6 DEF DoomedBy, Milestone, Moves
    <3> QED
      BY <1>2, <1>3, <1>6, <3>1, OldKept
  <2>3. Others(x)
    BY <1>3, <1>6 DEF Others, Of
  <2>4. ASSUME Ordered(x), WayOf(p, x) PROVE Ordered(x)' /\ WayOf(p, x)'
    <3>1. /\ Of(x)' \subseteq Of(x) \ {j} /\ Of(x) \subseteq todo[p]
          /\ sub'[x] = "past_due" /\ tenant'[x].stage < 4
      BY <1>1, <1>3, <1>6, <2>4 DEF WayOf, Of
    <3> QED
      BY <1>3, <1>6, <2>4, <3>1 DEF Ordered, OneSchedule, LockedRest, SubFollows, WayOf, Moves, Milestone
  <2>5. \A t \in Tenant : InOrder(t)'
    BY <1>1, <1>2, <1>3, <1>6, <2>3, <2>4, InOrderKept
  <2> QED
    BY <1>1, <1>4, <2>1, <2>2, <2>5, MarksGrow DEF IInv
<1> QED
  BY <1>1, <1>5, <1>6

LEMMA TriggerAddKeeps ==
    ASSUME IInv, Mark, NEW p \in Proc, TriggerAdd(p)
    PROVE  IInv'
<1>1. PICK x \in Tenant, a \in Jobs, u \in {who[p], NoTenant}, s \in {"free", "dueAdd"} :
        /\ x = who[p] /\ pc[p] = "dueAdd" /\ Shapes' /\ \E i, w : Moves(p, s, u, i, w)
        /\ queue' = queue \cup {a} /\ ~a.active /\ a.tenant = x /\ a.due = now + a.day
  BY TriggerAddIs DEF IInv
<1>0. PICK i, w : Moves(p, s, u, i, w)
  BY <1>1
<1>2. Shapes /\ OverlapsMarked /\ ActiveOwned /\ OldJobsGo /\ \A t \in Tenant : InOrder(t)
  BY DEF IInv
<1>3. UNCHANGED <<tenant, sub, now, since, faults, broken>>
  BY DEF TriggerAdd, rest
<1>4. now \in Nat /\ since[x] \in Nat /\ since[x] <= now /\ a.day \in Nat /\ queue \subseteq Jobs
      /\ tenant[x].stage \in Stages
  BY <1>2, Plain DEF Shapes, TypeOK, SinceNow, IInv
<1>5. SinceNow'
  BY <1>3 DEF SinceNow, IInv
<1>6. ActiveOwned'
  BY <1>1, <1>0, <1>2, ActiveKept DEF Milestone
<1>7. OldJobsGo'
  <2>1. ASSUME NEW k \in queue', k.day = 30
        PROVE  \/ k.due >= since'[k.tenant] + 30
               \/ k \in queue /\ since' = since /\ ~DoomedBy(p, k)
    <3>1. CASE k = a
      BY <1>1, <1>3, <1>4, <2>1, <3>1
    <3>2. CASE k \in queue
      BY <1>1, <1>3, <3>2 DEF DoomedBy, Milestone
    <3> QED
      BY <1>1, <3>1, <3>2
  <2> QED
    BY <1>1, <1>0, <1>2, <1>3, <2>1, OldKept
<1>8. \A t \in Tenant : InOrder(t)'
  <2>1. Others(x)
    BY <1>1, <1>3 DEF Others, Of
  <2>2. ASSUME Ordered(x), WayOf(p, x) PROVE Ordered(x)' /\ WayOf(p, x)'
    <3>1. /\ Of(x)' = Of(x) \cup {a} /\ sub'[x] = "past_due" /\ tenant'[x].stage < 4
          /\ \A k \in Of(x) : k.due = now + k.day
      BY <1>1, <1>3, <2>2 DEF WayOf, Of
    <3>2. \A k \in Of(x)' : k.due = now + k.day /\ k.day \in Nat
      BY <1>1, <1>4, <3>1, Plain DEF Of
    <3>3. OneSchedule(x)'
      BY <1>4, <3>2 DEF OneSchedule
    <3>4. LockedRest(x)' /\ SubFollows(x)'
      <4>1. tenant'[x].stage \in Nat
        <5>1. Stages \subseteq Nat
          BY DunningAssumption DEF Stages
        <5> QED
          BY <1>3, <1>4, <5>1
      <4> QED
        BY <3>1, <4>1 DEF LockedRest, SubFollows
    <3> QED
      BY <1>1, <1>0, <1>3, <3>1, <3>2, <3>3, <3>4 DEF Ordered, WayOf, Moves, Milestone
  <2> QED
    BY <1>1, <1>0, <1>2, <1>3, <2>1, <2>2, InOrderKept
<1> QED
  BY <1>1, <1>5, <1>6, <1>7, <1>8, MarksGrow DEF IInv

LEMMA PickKeeps ==
    ASSUME IInv, Mark, NEW p \in Proc, NEW j \in queue, Pick(p, j)
    PROVE  IInv'
<1>1. /\ Shapes' /\ pc[p] = "free" /\ j \in Jobs
      /\ \E a \in Jobs : /\ queue' = (queue \ {j}) \cup {a}
                         /\ a.active /\ a.tenant = j.tenant /\ a.day = j.day /\ a.due = j.due
                         /\ Moves(p, "check", j.tenant, a, {})
  BY PickIs DEF IInv
<1>2. PICK a \in Jobs, x \in Tenant :
        /\ queue' = (queue \ {j}) \cup {a} /\ x = j.tenant
        /\ a.active /\ a.tenant = x /\ a.day = j.day /\ a.due = j.due
        /\ Moves(p, "check", x, a, {})
  BY <1>1, Plain
<1>3. Shapes /\ OverlapsMarked /\ ActiveOwned /\ OldJobsGo /\ \A t \in Tenant : InOrder(t)
  BY DEF IInv
<1>4. UNCHANGED <<tenant, sub, now, since, faults, broken>>
  BY DEF Pick, rest
<1>5. SinceNow'
  BY <1>4 DEF SinceNow, IInv
<1>6. ActiveOwned'
  BY <1>1, <1>2, <1>3, ActiveKept DEF Milestone
<1>7. OldJobsGo'
  <2>1. \A k \in queue' : DoomedBy(p, k)' \/ (k \in queue /\ since' = since /\ ~DoomedBy(p, k))
    BY <1>1, <1>2, <1>4 DEF DoomedBy, Milestone, Moves
  <2> QED
    BY <1>2, <1>3, <1>4, <2>1, OldKept
<1>8. \A t \in Tenant : InOrder(t)'
  <2>1. Others(x)
    BY <1>2, <1>4 DEF Others, Of
  <2>2. ASSUME Clean(x), Ordered(x), Alone(p, x) PROVE Ordered(x)' /\ WayOf(p, x)'
    <3>1. Of(x)' = (Of(x) \ {j}) \cup {a} /\ j \in Of(x) /\ Of(x) \subseteq Jobs
      BY <1>2, <1>3 DEF Of, Shapes, TypeOK
    <3>2. \A k \in Of(x)' : \E i \in Of(x) : i.day = k.day /\ i.due = k.due
      BY <1>2, <3>1
    <3>3. OneSchedule(x)' /\ LockedRest(x)'
      BY <1>4, <2>2, <3>2 DEF Ordered, OneSchedule, LockedRest
    <3>4. SubFollows(x)'
      BY <1>2, <1>4, <2>2, <3>1 DEF Ordered, SubFollows
    <3>5. ASSUME NEW k \in Of(x) PROVE ~k.active
      <4> SUFFICES ASSUME k.active PROVE FALSE
        OBVIOUS
      <4>1. PICK q \in Proc : pc[q] \in Milestone /\ task[q] = k
        BY <1>3, <3>5 DEF ActiveOwned, Of
      <4>2. who[q] = x
        BY <1>3, <3>5, <4>1 DEF Of, Shapes, ShapeOf
      <4> QED
        BY <1>1, <2>2, <4>1, <4>2 DEF Alone, Concerns, Milestone
    <3>6. \A k \in Of(x) : j.day <= k.day
      <4>1. ASSUME NEW k \in Of(x) PROVE j.day <= k.day
        <5>1. j.due <= k.due
          BY <3>5 DEF Pick, Of
        <5>2. j.due + k.day = k.due + j.day
          BY <2>2, <3>1 DEF Ordered, OneSchedule
        <5> QED
          BY <3>1, <5>1, <5>2, Plain
      <4> QED
        BY <4>1
    <3>7. \A k \in Of(x)' : a.day <= k.day
      BY <1>2, <3>2, <3>6
    <3>8. a.day = 30 => a.due >= since'[x] + 30
      <4>1. ~Doomed(j)
        <5> SUFFICES ASSUME NEW q \in Proc, DoomedBy(q, j) PROVE FALSE
          BY DEF Doomed
        <5>1. q # p
          BY <1>1 DEF DoomedBy, Milestone
        <5>2. Concerns(q, x)
          BY <1>2, <1>3 DEF DoomedBy, Concerns, Shapes, ShapeOf
        <5> QED
          BY <2>2, <5>1, <5>2 DEF Alone
      <4>2. ~Excused(x)
        BY <2>2 DEF Clean, Excused
      <4> QED
        BY <1>2, <1>3, <1>4, <4>1, <4>2 DEF OldJobsGo
    <3>9. WayOf(p, x)'
      BY <1>2, <3>1, <3>7, <3>8 DEF WayOf, Moves, Milestone
    <3> QED
      BY <3>3, <3>4, <3>9 DEF Ordered
  <2> QED
    BY <1>1, <1>2, <1>3, <1>4, <2>1, <2>2, InOrderKept
<1> QED
  BY <1>1, <1>5, <1>6, <1>7, <1>8, MarksGrow DEF IInv

\* A worker goes on with its job, or ends and drops it.
LEMMA WorkKeeps ==
    ASSUME IInv, Mark, NEW p \in Proc, Shapes', pc[p] \in Milestone,
           UNCHANGED <<now, since, faults, broken, sub>>,
           \A t \in Tenant \ {who[p]} : tenant'[t] = tenant[t],
           \/ /\ queue' = queue /\ tenant' = tenant
              /\ \E s \in Milestone : Moves(p, s, who[p], task[p], {})
           \/ /\ queue' = queue \ {task[p]} /\ Moves(p, "free", NoTenant, NoJob, {})
              /\ tenant'[who[p]].stage = tenant[who[p]].stage
              /\ \/ tenant'[who[p]].status # "past_due"
                 \/ tenant'[who[p]].status = tenant[who[p]].status /\ task[p].day # 30
    PROVE  IInv'
<1>1. PICK x \in Tenant : x = who[p] /\ task[p] \in Jobs /\ task[p].tenant = x
  BY DEF IInv, Shapes, ShapeOf
<1>2. Shapes /\ OverlapsMarked /\ ActiveOwned /\ OldJobsGo /\ \A t \in Tenant : InOrder(t)
  BY DEF IInv
<1>3. SinceNow'
  BY DEF SinceNow, IInv
<1>4. CASE queue' = queue /\ tenant' = tenant /\ \E s \in Milestone : Moves(p, s, who[p], task[p], {})
  <2>1. PICK s \in Milestone : Moves(p, s, x, task[p], {})
    BY <1>1, <1>4
  <2>2. ActiveOwned'
    BY <1>2, <1>4, <2>1, ActiveKept
  <2>3. OldJobsGo'
    <3>1. \A k \in queue' : k \in queue /\ since' = since /\ (DoomedBy(p, k)' \/ ~DoomedBy(p, k))
      BY <1>4, <2>1 DEF DoomedBy, Milestone, Moves
    <3> QED
      BY <1>2, <2>1, <3>1, OldKept
  <2>4. Others(x)
    BY <1>4 DEF Others, Of
  <2>5. ASSUME Ordered(x), WayOf(p, x) PROVE Ordered(x)' /\ WayOf(p, x)'
    BY <1>4, <2>1, <2>5 DEF Ordered, OneSchedule, LockedRest, SubFollows, Of, WayOf, Moves, Milestone
  <2>6. \A t \in Tenant : InOrder(t)'
    BY <1>1, <1>2, <2>1, <2>4, <2>5, InOrderKept
  <2> QED
    BY <1>3, <2>2, <2>3, <2>6, MarksGrow DEF IInv
<1>5. CASE /\ queue' = queue \ {task[p]} /\ Moves(p, "free", NoTenant, NoJob, {})
           /\ tenant'[x].stage = tenant[x].stage
           /\ \/ tenant'[x].status # "past_due"
              \/ tenant'[x].status = tenant[x].status /\ task[p].day # 30
  <2>2. ActiveOwned'
    BY <1>2, <1>5, ActiveKept DEF Milestone
  <2>3. OldJobsGo'
    <3>1. \A k \in queue' : k \in queue /\ since' = since /\ ~DoomedBy(p, k)
      BY <1>5 DEF DoomedBy, Milestone
    <3> QED
      BY <1>2, <1>5, <3>1, OldKept
  <2>4. Others(x)
    BY <1>1, <1>5 DEF Others, Of
  <2>5. ASSUME Ordered(x), WayOf(p, x) PROVE Ordered(x)'
    BY <1>5, <2>5 DEF Ordered, OneSchedule, LockedRest, SubFollows, Of
  <2>6. \A t \in Tenant : InOrder(t)'
    BY <1>1, <1>2, <1>5, <2>4, <2>5, InOrderKept, Plain
  <2> QED
    BY <1>3, <2>2, <2>3, <2>6, MarksGrow DEF IInv
<1> QED
  BY <1>1, <1>4, <1>5

LEMMA MilestoneKeeps ==
    ASSUME IInv, Mark, NEW p \in Proc, MilestoneCheck(p) \/ MilestoneMail(p) \/ CancelTenant(p)
    PROVE  IInv'
<1>1. Shapes /\ tenant \in [Tenant -> [status : Status, stage : Stages]]
  BY DEF IInv, Shapes, TypeOK
<1>2. CASE MilestoneCheck(p)
  <2>1. UNCHANGED <<tenant, sub, now, since, faults, broken>> /\ pc[p] \in Milestone
    BY <1>2 DEF MilestoneCheck, rest, Milestone
  <2>2. \/ queue' = queue /\ Moves(p, "stage", who[p], task[p], {})
        \/ /\ queue' = queue \ {task[p]} /\ Moves(p, "free", NoTenant, NoJob, {})
           /\ tenant[who[p]].status # "past_due"
    <3>1. CASE tenant[who[p]].status = "past_due"
      <4>1. UNCHANGED queue /\ Continue(p, "stage", {}) /\ {} \in Lists /\ "stage" \in Steps /\ Pcs
        BY <1>1, <1>2, <3>1, Plain, TypesAre DEF MilestoneCheck, Steps, Shapes
      <4> QED
        BY <4>1, ContinueMoves
    <3>2. CASE tenant[who[p]].status # "past_due"
      <4>1. queue' = queue \ {task[p]} /\ Free(p) /\ Pcs
        BY <1>1, <1>2, <3>2, TypesAre DEF MilestoneCheck, Shapes
      <4> QED
        BY <3>2, <4>1, FreeMoves
    <3> QED
      BY <3>1, <3>2
  <2>3. Shapes'
    BY <1>1, <1>2, MilestoneCheckIs
  <2> QED
    BY <2>1, <2>2, <2>3, WorkKeeps DEF Milestone
<1>3. CASE MilestoneMail(p)
  <2>1. UNCHANGED <<tenant, sub, now, since, faults, broken>>
    BY <1>3 DEF MilestoneMail, rest
  <2> QED
    BY <1>1, <1>3, <2>1, MilestoneMailIs, WorkKeeps DEF Milestone
<1>4. CASE CancelTenant(p)
  <2>1. UNCHANGED <<sub, now, since, faults, broken>> /\ queue' = queue \ {task[p]}
    BY <1>4 DEF CancelTenant, rest
  <2>2. Shapes' /\ pc[p] = "cancelTenant" /\ Moves(p, "free", NoTenant, NoJob, {}) /\ who[p] \in Tenant
    BY <1>1, <1>4, CancelTenantIs DEF Shapes, ShapeOf, Milestone
  <2>3. /\ \A t \in Tenant \ {who[p]} : tenant'[t] = tenant[t]
        /\ tenant'[who[p]].stage = tenant[who[p]].stage /\ tenant'[who[p]].status # "past_due"
    BY <1>1, <1>4, <2>2 DEF CancelTenant, SetStatus
  <2> QED
    BY <2>1, <2>2, <2>3, WorkKeeps DEF Milestone
<1> QED
  BY <1>2, <1>3, <1>4

LEMMA ReactivateRemoveKeeps ==
    ASSUME IInv, Mark, NEW p \in Proc, ReactivateRemove(p)
    PROVE  IInv'
<1>1. PICK x \in Tenant : /\ x = who[p] /\ pc[p] = "backRemove" /\ Shapes'
        /\ \/ queue' = queue /\ Moves(p, "free", NoTenant, NoJob, {})
           \/ \E j \in todo[p] : /\ queue' = queue \ {j} /\ j.tenant = x
                                 /\ Moves(p, "backRemove", x, task[p], todo[p] \ {j})
  BY ReactivateRemoveIs DEF IInv, NextOf
<1>2. Shapes /\ OverlapsMarked /\ ActiveOwned /\ OldJobsGo /\ \A t \in Tenant : InOrder(t)
  BY DEF IInv
<1>3. UNCHANGED <<tenant, sub, now, since, faults, broken>>
  BY DEF ReactivateRemove, rest
<1>4. PICK s \in {"free", "backRemove"}, u \in {x, NoTenant} :
        \E i, w : Moves(p, s, u, i, w)
  BY <1>1
<1>5. PICK i, w : Moves(p, s, u, i, w)
  BY <1>4
<1>6. queue' \subseteq queue /\ \A j \in queue : j.tenant # x => j \in queue'
  BY <1>1
<1>7. SinceNow'
  BY <1>3 DEF SinceNow, IInv
<1>8. ActiveOwned'
  BY <1>1, <1>2, <1>5, <1>6, ActiveKept DEF Milestone
<1>9. OldJobsGo'
  <2>1. \A k \in queue' : k \in queue /\ since' = since /\ ~DoomedBy(p, k)
    BY <1>1, <1>3, <1>6 DEF DoomedBy, Milestone
  <2> QED
    BY <1>2, <1>3, <1>5, <2>1, OldKept
<1>10. \A t \in Tenant : InOrder(t)'
  <2>1. Others(x)
    BY <1>3, <1>6 DEF Others, Of
  <2>2. ASSUME Ordered(x), WayOf(p, x) PROVE Ordered(x)' /\ WayOf(p, x)'
    <3>1. Of(x)' \subseteq Of(x) /\ tenant'[x].status # "past_due"
      BY <1>1, <1>3, <1>6, <2>2 DEF WayOf, Of
    <3> QED
      BY <1>3, <1>5, <2>2, <3>1 DEF Ordered, OneSchedule, LockedRest, SubFollows, WayOf, Moves, Milestone
  <2> QED
    BY <1>1, <1>2, <1>3, <1>5, <2>1, <2>2, InOrderKept
<1> QED
  BY <1>1, <1>7, <1>8, <1>9, <1>10, MarksGrow DEF IInv

-----------------------------------------------------------------------------
(* Trials, webhooks, faults and time *)

\* Nothing happens to a tenant while a run reads the expired trials.
LEMMA TrialCheckKeeps ==
    ASSUME IInv, Mark, NEW p \in Proc, TrialCheck(p)
    PROVE  IInv'
<1>1. PICK w \in SUBSET Tenant : Moves(p, "trialSub", NoTenant, NoJob, w) /\ Shapes' /\ pc[p] = "free"
  BY TrialCheckIs DEF IInv
<1>2. Shapes /\ OverlapsMarked /\ ActiveOwned /\ OldJobsGo /\ \A t \in Tenant : InOrder(t)
  BY DEF IInv
<1>3. UNCHANGED <<tenant, sub, queue, now, since, faults, broken>>
  BY DEF TrialCheck, rest
<1>4. ActiveOwned' /\ SinceNow'
  BY <1>1, <1>2, <1>3, ActiveKept DEF Milestone, SinceNow, IInv
<1>5. OldJobsGo'
  <2>1. \A k \in queue' : k \in queue /\ since' = since /\ ~DoomedBy(p, k)
    BY <1>1, <1>3 DEF DoomedBy, Milestone
  <2> QED
    BY <1>1, <1>2, <1>3, <2>1, OldKept
<1>6. ASSUME NEW t \in Tenant PROVE InOrder(t)'
  <2> SUFFICES ASSUME Clean(t)' PROVE InOrder(t)'
    BY DEF InOrder
  <2>1. InOrder(t) /\ Clean(t)
    BY <1>2, <1>3, MarksGrow DEF Clean
  <2>2. ASSUME NEW q \in Proc, who'[q] = t PROVE WayOf(q, t)'
    <3>1. q # p
      BY <1>1, <2>2, Plain DEF Moves
    <3>2. Same(q)
      BY <1>1, <3>1 DEF Moves
    <3>3. WayOf(q, t)
      BY <2>1, <2>2, <3>2 DEF InOrder, Same
    <3> QED
      BY <1>3, <3>2, <3>3 DEF WayOf, Same, Of, Milestone
  <2> QED
    BY <1>3, <2>1, <2>2 DEF InOrder, OneSchedule, LockedRest, SubFollows, Of
<1> QED
  BY <1>1, <1>4, <1>5, <1>6, MarksGrow DEF IInv

LEMMA TrialSubKeeps ==
    ASSUME IInv, Mark, NEW p \in Proc, TrialSub(p)
    PROVE  IInv'
<1>1. PICK x \in Tenant : /\ SetSub(x, "past_due") /\ Moves(p, "trialTenant", x, task[p], todo[p])
                          /\ Shapes' /\ pc[p] = "trialSub"
  BY TrialSubIs DEF IInv
<1>2. Shapes /\ OverlapsMarked /\ ActiveOwned /\ OldJobsGo /\ \A t \in Tenant : InOrder(t)
  BY DEF IInv
<1>3. UNCHANGED <<tenant, queue, now, since, faults, broken>>
  BY DEF TrialSub, rest
<1>4. sub' = [sub EXCEPT ![x] = "past_due"] /\ sub \in [Tenant -> Status]
  BY <1>1, <1>2 DEF SetSub, Shapes, TypeOK
<1>5. ActiveOwned' /\ SinceNow'
  BY <1>1, <1>2, <1>3, ActiveKept DEF Milestone, SinceNow, IInv
<1>6. OldJobsGo'
  <2>1. \A k \in queue' : k \in queue /\ since' = since /\ ~DoomedBy(p, k)
    BY <1>1, <1>3 DEF DoomedBy, Milestone
  <2> QED
    BY <1>1, <1>2, <1>3, <2>1, OldKept
<1>7. \A t \in Tenant : InOrder(t)'
  <2>1. Others(x)
    BY <1>3, <1>4 DEF Others, Of
  <2>2. ASSUME Ordered(x) PROVE Ordered(x)' /\ WayOf(p, x)'
    BY <1>1, <1>3, <1>4, <2>2 DEF Ordered, OneSchedule, LockedRest, SubFollows, Of, WayOf, Moves, Milestone
  <2> QED
    BY <1>1, <1>2, <1>3, <2>1, <2>2, InOrderKept
<1> QED
  BY <1>1, <1>5, <1>6, <1>7, MarksGrow DEF IInv

LEMMA TrialTenantKeeps ==
    ASSUME IInv, Mark, NEW p \in Proc, TrialTenant(p)
    PROVE  IInv'
<1>1. PICK x \in Tenant : /\ x = who[p] /\ Shapes' /\ pc[p] = "trialTenant"
                          /\ \/ Moves(p, "free", NoTenant, NoJob, {})
                             \/ Moves(p, "trialSub", x, task[p], todo[p] \ {x})
  BY TrialTenantIs DEF IInv
<1>2. Shapes /\ OverlapsMarked /\ ActiveOwned /\ OldJobsGo /\ \A t \in Tenant : InOrder(t)
  BY DEF IInv
<1>3. UNCHANGED <<sub, queue, now, since, faults, broken>>
  BY DEF TrialTenant, rest
<1>4. /\ tenant'[x].stage = tenant[x].stage /\ \A t \in Tenant \ {x} : tenant'[t] = tenant[t]
  BY <1>1, <1>2 DEF TrialTenant, SetStatus, Shapes, TypeOK
<1>5. PICK s \in {"free", "trialSub"}, u \in {x, NoTenant} :
        \E i, w : Moves(p, s, u, i, w)
  BY <1>1
<1>6. PICK i, w : Moves(p, s, u, i, w)
  BY <1>5
<1>7. ActiveOwned' /\ SinceNow'
  BY <1>1, <1>2, <1>3, <1>6, ActiveKept DEF Milestone, SinceNow, IInv
<1>8. OldJobsGo'
  <2>1. \A k \in queue' : k \in queue /\ since' = since /\ ~DoomedBy(p, k)
    BY <1>1, <1>3 DEF DoomedBy, Milestone
  <2> QED
    BY <1>2, <1>3, <1>6, <2>1, OldKept
<1>9. \A t \in Tenant : InOrder(t)'
  <2>1. Others(x)
    BY <1>3, <1>4 DEF Others, Of
  <2>2. ASSUME Ordered(x), WayOf(p, x) PROVE Ordered(x)' /\ WayOf(p, x)'
    <3>1. sub'[x] = "past_due"
      BY <1>1, <1>3, <2>2 DEF WayOf
    <3> QED
      BY <1>3, <1>4, <1>6, <2>2, <3>1 DEF Ordered, OneSchedule, LockedRest, SubFollows, Of, WayOf, Moves, Milestone
  <2> QED
    BY <1>1, <1>2, <1>3, <1>6, <2>1, <2>2, InOrderKept
<1> QED
  BY <1>1, <1>7, <1>8, <1>9, MarksGrow DEF IInv

\* Tenants that a step leaves alone.
LEMMA ElsewhereKept ==
    ASSUME NEW t \in Tenant, InOrder(t), Mark, now' = now,
           broken \subseteq broken', tenant'[t].stage = tenant[t].stage,
           tenant'[t].status # "past_due" \/ tenant'[t].status = tenant[t].status,
           sub' = sub, since' = since, Of(t)' = Of(t),
           t \notin broken' => \A q \in Proc : who'[q] = t => Same(q)
    PROVE  InOrder(t)'
<1> SUFFICES ASSUME Clean(t)' PROVE InOrder(t)'
  BY DEF InOrder
<1>1. Clean(t)
  BY MarksGrow DEF Clean
<1>2. ASSUME NEW q \in Proc, who'[q] = t PROVE WayOf(q, t)'
  <2>1. Same(q)
    BY <1>2 DEF Clean
  <2>2. WayOf(q, t)
    BY <1>1, <1>2, <2>1 DEF InOrder, Same
  <2> QED
    BY <2>1, <2>2 DEF WayOf, Same, Milestone
<1>3. OneSchedule(t)' /\ LockedRest(t)' /\ SubFollows(t)'
  BY <1>1 DEF InOrder, OneSchedule, LockedRest, SubFollows
<1> QED
  BY <1>2, <1>3 DEF InOrder

LEMMA StepFailsKeeps ==
    ASSUME IInv, Mark, NEW p \in Proc, StepFails(p)
    PROVE  IInv'
<1>1. /\ Shapes' /\ pc[p] \notin {"free", "dueRemove", "backRemove"}
      /\ Moves(p, "free", NoTenant, NoJob, {})
  BY StepFailsIs DEF IInv
<1>2. Shapes /\ OverlapsMarked /\ ActiveOwned /\ OldJobsGo /\ \A t \in Tenant : InOrder(t)
  BY DEF IInv
<1>3. /\ UNCHANGED <<tenant, sub, now, since>> /\ queue' = queue \ {task[p]}
      /\ broken' = broken \cup {t \in Tenant : Concerns(p, t)} /\ faults' = faults + 2
  BY DEF StepFails
<1>4. queue \subseteq Jobs /\ faults \in Nat
  BY <1>2, Plain DEF Shapes, TypeOK
<1>5. task[p] \in Jobs => task[p].tenant = who[p]
  <2>1. ShapeOf(p) /\ pc[p] \in Steps
    BY <1>2 DEF Shapes, TypeOK
  <2>2. NoJob \notin Jobs /\ \A n : Schedule(n) \notin Jobs
    BY Plain
  <2>3. pc[p] \in {"free"} \cup Due \cup Milestone \cup Back \cup Trial
    BY <2>1 DEF Steps, Due, Milestone, Back, Trial
  <2>4. pc[p] \notin Milestone => task[p] \notin Jobs
    BY <2>1, <2>2, <2>3 DEF ShapeOf
  <2> QED
    BY <2>1, <2>4 DEF ShapeOf
<1>6. SinceNow'
  BY <1>3 DEF SinceNow, IInv
<1>7. ActiveOwned'
  BY <1>1, <1>2, <1>3, ActiveKept
<1>8. OldJobsGo'
  <2>1. ASSUME NEW k \in queue', ~Excused(k.tenant)' PROVE k \in queue /\ since' = since /\ ~DoomedBy(p, k)
    <3>1. k \in queue /\ k # task[p] /\ k.tenant \in Tenant
      BY <1>3, <1>4, Plain
    <3>2. ~Concerns(p, k.tenant)
      BY <1>3, <2>1, <3>1 DEF Excused
    <3> QED
      BY <1>1, <1>3, <3>1, <3>2 DEF DoomedBy, Concerns
  <2>2. broken \subseteq broken' /\ (faults # 0 => faults' # 0)
    BY <1>3, <1>4
  <2> QED
    BY <1>1, <1>2, <2>1, <2>2, OldKept
<1>9. ASSUME NEW t \in Tenant PROVE InOrder(t)'
  <2>1. CASE Concerns(p, t)
    BY <1>3, <2>1 DEF InOrder, Clean
  <2>2. CASE ~Concerns(p, t)
    <3>1. Of(t)' = Of(t)
      BY <1>3, <1>4, <1>5, <2>2 DEF Of, Concerns
    <3>2. \A q \in Proc : who'[q] = t => Same(q)
      BY <1>1, Plain DEF Moves
    <3> QED
      BY <1>2, <1>3, <3>1, <3>2, ElsewhereKept
  <2> QED
    BY <2>1, <2>2
<1> QED
  BY <1>1, <1>6, <1>7, <1>8, <1>9, MarksGrow DEF IInv

LEMMA RemoveFailsKeeps ==
    ASSUME IInv, Mark, NEW p \in Proc, RemoveFails(p)
    PROVE  IInv'
<1>1. PICK w : /\ Moves(p, pc[p], who[p], task[p], w) /\ Shapes' /\ who[p] \in Tenant
               /\ pc[p] \in {"dueRemove", "backRemove"}
  BY RemoveFailsIs DEF IInv
<1>2. Shapes /\ OverlapsMarked /\ ActiveOwned /\ OldJobsGo /\ \A t \in Tenant : InOrder(t)
  BY DEF IInv
<1>3. /\ UNCHANGED <<tenant, sub, queue, now, since>>
      /\ broken' = broken \cup {who[p]} /\ faults' = faults + 2 /\ faults \in Nat
  BY <1>2, Plain DEF RemoveFails, Shapes, TypeOK
<1>4. SinceNow'
  BY <1>3 DEF SinceNow, IInv
<1>5. ActiveOwned'
  BY <1>1, <1>2, <1>3, ActiveKept DEF Milestone
<1>6. OldJobsGo'
  <2>1. ASSUME NEW k \in queue', ~Excused(k.tenant)' PROVE k \in queue /\ since' = since /\ ~DoomedBy(p, k)
    <3>1. k \in queue /\ k.tenant # who[p]
      BY <1>3, <2>1 DEF Excused
    <3> QED
      BY <1>1, <1>2, <1>3, <3>1 DEF DoomedBy, Milestone, Shapes, ShapeOf
  <2>2. broken \subseteq broken' /\ (faults # 0 => faults' # 0)
    BY <1>3
  <2> QED
    BY <1>1, <1>2, <2>1, <2>2, OldKept
<1>7. ASSUME NEW t \in Tenant PROVE InOrder(t)'
  <2>1. Of(t)' = Of(t)
    BY <1>3 DEF Of
  <2>2. t \notin broken' => \A q \in Proc : who'[q] = t => Same(q)
    BY <1>1, <1>3 DEF Moves
  <2> QED
    BY <1>2, <1>3, <2>1, <2>2, ElsewhereKept
<1> QED
  BY <1>1, <1>4, <1>5, <1>6, <1>7, MarksGrow DEF IInv

LEMMA WebhookKeeps ==
    ASSUME IInv, Mark, NEW x \in Tenant, Webhook(x)
    PROVE  IInv'
<1>1. Shapes' /\ \A q \in Proc : Same(q)
  BY WebhookIs DEF IInv
<1>2. Shapes /\ OverlapsMarked /\ ActiveOwned /\ OldJobsGo /\ \A t \in Tenant : InOrder(t)
  BY DEF IInv
<1>3. UNCHANGED <<sub, queue, now, since, faults, broken>>
  BY DEF Webhook, rest
<1>4. \A t \in Tenant : /\ tenant'[t].stage = tenant[t].stage
                        /\ tenant'[t].status # "past_due" \/ tenant'[t].status = tenant[t].status
  BY <1>2 DEF Webhook, SetStatus, Shapes, TypeOK
<1>5. ActiveOwned' /\ SinceNow'
  BY <1>1, <1>2, <1>3 DEF ActiveOwned, SinceNow, IInv, Same, Milestone
<1>6. OldJobsGo'
  BY <1>1, <1>2, <1>3, MarksGrow DEF OldJobsGo, Excused, Doomed, DoomedBy, Same, Milestone
<1>7. ASSUME NEW t \in Tenant PROVE InOrder(t)'
  <2>1. Of(t)' = Of(t)
    BY <1>3 DEF Of
  <2> QED
    BY <1>1, <1>2, <1>3, <1>4, <2>1, ElsewhereKept
<1> QED
  BY <1>1, <1>5, <1>6, <1>7, MarksGrow DEF IInv

LEMMA TickKeeps ==
    ASSUME IInv, Mark, Tick
    PROVE  IInv'
<1>1. /\ Shapes' /\ \A q \in Proc : Same(q) /\ pc[q] = "free" /\ who[q] = NoTenant
      /\ now' \in Nat /\ now' >= now
  BY TickIs DEF IInv
<1>2. Shapes /\ OverlapsMarked /\ ActiveOwned /\ OldJobsGo /\ \A t \in Tenant : InOrder(t)
  BY DEF IInv
<1>3. UNCHANGED <<tenant, sub, queue, since, faults, broken>>
  BY DEF Tick
<1>4. SinceNow'
  BY <1>1, <1>3 DEF SinceNow, IInv, Shapes, TypeOK
<1>5. ActiveOwned'
  BY <1>1, <1>2, <1>3 DEF ActiveOwned, Same, Milestone
<1>6. OldJobsGo'
  BY <1>1, <1>2, <1>3, MarksGrow DEF OldJobsGo, Excused, Doomed, DoomedBy, Same, Milestone
<1>7. ASSUME NEW t \in Tenant PROVE InOrder(t)'
  BY <1>1, <1>2, <1>3, MarksGrow, Plain
     DEF InOrder, Clean, OneSchedule, LockedRest, SubFollows, Of, Same
<1> QED
  BY <1>1, <1>4, <1>5, <1>6, <1>7, MarksGrow DEF IInv

LEMMA CrashKeeps ==
    ASSUME IInv, Mark, Crash
    PROVE  IInv'
<1>1. /\ Shapes' /\ \A q \in Proc : pc'[q] = "free" /\ who'[q] = NoTenant
      /\ \A k \in queue' : \E j \in queue :
            ~k.active /\ k.tenant = j.tenant /\ k.day = j.day /\ k.due = j.due
      /\ \A j \in queue : Lost(j) \/ \E k \in queue' :
            ~k.active /\ k.tenant = j.tenant /\ k.day = j.day /\ k.due = j.due
  BY CrashIs DEF IInv
<1>2. Shapes /\ OverlapsMarked /\ ActiveOwned /\ OldJobsGo /\ \A t \in Tenant : InOrder(t)
  BY DEF IInv
<1>3. /\ UNCHANGED <<tenant, sub, now, since>>
      /\ broken' = broken \cup {t \in Tenant : \E p \in Proc : Concerns(p, t) /\ task[p] \notin {j \in queue : ~Lost(j)}}
      /\ faults' # 0
  BY <1>2, Plain DEF Crash, Shapes, TypeOK
<1>4. SinceNow'
  BY <1>3 DEF SinceNow, IInv
<1>5. ActiveOwned'
  BY <1>1 DEF ActiveOwned
<1>6. OldJobsGo'
  <2> SUFFICES ASSUME NEW k \in queue', k.day = 30, ~Excused(k.tenant)'
               PROVE  k.due >= since'[k.tenant] + 30
    BY DEF OldJobsGo, Excused
  <2>1. PICK j \in queue : k.tenant = j.tenant /\ j.day = 30 /\ k.due = j.due
    BY <1>1
  <2>2. Clean(j.tenant) /\ j.tenant \notin broken' /\ j.tenant \in Tenant
    BY <1>2, <1>3, <2>1, MarksGrow, Plain DEF Excused, Clean, Shapes, TypeOK
  <2>3. j.due >= since[j.tenant] + 30 \/ Doomed(j)
    BY <1>2, <2>1, <2>2 DEF OldJobsGo, Excused, Clean
  <2>4. ASSUME NEW q \in Proc, DoomedBy(q, j) PROVE j.due >= since[j.tenant] + 30
    <3>1. ShapeOf(q) /\ queue \subseteq Jobs
      BY <1>2 DEF Shapes, TypeOK
    <3>2. CASE pc[q] \in Due
      <4>1. task[q] \notin queue
        BY <3>1, <3>2, Plain DEF ShapeOf
      <4>2. Concerns(q, j.tenant)
        BY <2>4, <3>1, <3>2 DEF DoomedBy, Concerns, ShapeOf, Due, Milestone
      <4> QED
        BY <1>3, <2>2, <4>1, <4>2
    <3>3. CASE pc[q] \in Milestone /\ task[q] = j
      <4>1. who[q] = j.tenant
        BY <3>1, <3>3 DEF ShapeOf
      <4>2. WayOf(q, j.tenant)
        BY <1>2, <2>2, <4>1 DEF InOrder
      <4> QED
        BY <2>1, <3>3, <4>2 DEF WayOf
    <3> QED
      BY <2>4, <3>2, <3>3 DEF DoomedBy, Due
  <2> QED
    BY <1>3, <2>1, <2>3, <2>4 DEF Doomed
<1>7. ASSUME NEW t \in Tenant PROVE InOrder(t)'
  <2> SUFFICES ASSUME Clean(t)' PROVE InOrder(t)'
    BY DEF InOrder
  <2>1. InOrder(t) /\ Clean(t)
    BY <1>2, <1>3, MarksGrow DEF Clean
  <2>2. /\ \A k \in Of(t)' : \E j \in Of(t) : k.day = j.day /\ k.due = j.due
        /\ \A j \in Of(t) : \E k \in Of(t)' : k.day = j.day /\ k.due = j.due
    <3>1. ASSUME NEW j \in Of(t), Lost(j) PROVE FALSE
      <4>1. PICK p \in Proc : pc[p] \in Milestone /\ task[p] = j
        BY <1>2, <3>1 DEF ActiveOwned, Of, Lost
      <4>2. Concerns(p, t)
        BY <1>2, <3>1, <4>1 DEF Shapes, ShapeOf, Concerns, Of
      <4> QED
        BY <1>3, <3>1, <4>1, <4>2 DEF Clean
    <3> QED
      BY <1>1, <3>1 DEF Of
  <2>3. OneSchedule(t)'
    BY <2>1, <2>2 DEF InOrder, OneSchedule
  <2>4. LockedRest(t)' /\ SubFollows(t)'
    BY <1>3, <2>1, <2>2 DEF InOrder, LockedRest, SubFollows
  <2> QED
    BY <1>1, <2>3, <2>4, Plain DEF InOrder
<1> QED
  BY <1>1, <1>4, <1>5, <1>6, <1>7, MarksGrow DEF IInv

-----------------------------------------------------------------------------
(* The theorems *)

\* An activity's step, whichever it is.
LEMMA ProgressKeeps ==
    ASSUME IInv, Mark, NEW p \in Proc, Progress(p)
    PROVE  IInv'
<1>1. CASE TriggerSub(p) \/ TriggerTenant(p) \/ TriggerList(p) \/ TriggerRemove(p) \/ TriggerAdd(p)
  BY <1>1, TriggerSubKeeps, TriggerTenantKeeps, TriggerListKeeps, TriggerRemoveKeeps, TriggerAddKeeps
<1>2. CASE MilestoneCheck(p) \/ MilestoneStage(p) \/ MilestoneMail(p) \/ CancelSub(p) \/ CancelTenant(p)
  BY <1>2, MilestoneKeeps, MilestoneStageKeeps, CancelSubKeeps
<1>3. CASE ReactivateTenant(p) \/ ReactivateSub(p) \/ ReactivateList(p) \/ ReactivateRemove(p)
  BY <1>3, ReactivateTenantKeeps, ReactivateSubKeeps, ReactivateListKeeps, ReactivateRemoveKeeps
<1>4. CASE TrialSub(p) \/ TrialTenant(p)
  BY <1>4, TrialSubKeeps, TrialTenantKeeps
<1> QED
  BY <1>1, <1>2, <1>3, <1>4 DEF Progress

\* It holds at the start, and every step keeps it.
LEMMA InvariantStarts == Init => IInv
<1> SUFFICES ASSUME Init PROVE IInv
  OBVIOUS
<1>1. "active" \in Status /\ "trialing" \in Status /\ 0 \in Stages /\ "free" \in Steps
  BY DEF Status, Stages, Steps
<1>2. NoJob \in Tasks /\ {} \in Lists /\ MaxTriggers \in Nat /\ MaxFaults \in Nat
  BY Plain
<1>3. Tables
  BY <1>1, <1>2 DEF Init, Tables
<1>4. Pcs
  BY <1>1, <1>2 DEF Init, Pcs
<1>5. TypeOK /\ \A p \in Proc : ShapeOf(p)
  BY <1>3, <1>4, TypesAre DEF Init, ShapeOf, Due, Milestone, Back, Trial
<1>6. OverlapsMarked /\ ActiveOwned /\ SinceNow /\ OldJobsGo
  BY Plain DEF Init, OverlapsMarked, Overlap, Concerns, ActiveOwned, SinceNow, OldJobsGo
<1>7. \A t \in Tenant : InOrder(t)
  BY Plain DEF Init, InOrder, OneSchedule, LockedRest, SubFollows, Of
<1> QED
  BY <1>5, <1>6, <1>7 DEF IInv, Shapes

LEMMA InvariantKept == IInv /\ [Next]_vars => IInv'
<1> SUFFICES ASSUME IInv, [Next]_vars PROVE IInv'
  OBVIOUS
<1>1. CASE UNCHANGED vars
  BY <1>1 DEF vars, IInv, Shapes, TypeOK, ShapeOf, OverlapsMarked, Overlap, Concerns, ActiveOwned, SinceNow,
              OldJobsGo, Excused, Doomed, DoomedBy, InOrder, Clean, OneSchedule, LockedRest, SubFollows, Of,
              WayOf, Due, Milestone, Back, Trial
<1>2. CASE Next
  <2>1. ASSUME NEW p \in Proc, Mark, Begin(p) PROVE IInv'
    BY <2>1, BeginKeeps, PickKeeps, TrialCheckKeeps DEF Begin
  <2>2. ASSUME NEW p \in Proc, Mark, Progress(p) \/ StepFails(p) \/ RemoveFails(p) PROVE IInv'
    BY <2>2, ProgressKeeps, StepFailsKeeps, RemoveFailsKeeps
  <2> QED
    BY <1>2, <2>1, <2>2, WebhookKeeps, CrashKeeps, TickKeeps DEF Next
<1> QED
  BY <1>1, <1>2

\* The inductive invariant holds in every state of every behaviour.
THEOREM InvariantHolds == Spec => []IInv
<1>1. Init => IInv
  BY InvariantStarts
<1>2. IInv /\ [Next]_vars => IInv'
  BY InvariantKept
<1> QED
  BY <1>1, <1>2, PTL DEF Spec

\* Every variable keeps its type, so the stage is a milestone and the queue holds
\* jobs of the tenants.
THEOREM TypeCorrect == Spec => []TypeOK
<1>1. IInv => TypeOK
  BY DEF IInv, Shapes
<1> QED
  BY <1>1, InvariantHolds, PTL

\* triggerSubscriptionDunning removes every day-30 job of the schedules before it,
\* whatever ran beside it, unless it failed or a crash queued an active job again.
THEOREM NothingEarly == Spec => []NoEarlyCancel
<1>1. IInv => NoEarlyCancel
  <2> SUFFICES ASSUME IInv, NEW j \in queue, j.day = 30, Idle(j.tenant), j.tenant \notin broken,
                      j.tenant \in raced => faults = 0
               PROVE  j.due >= since[j.tenant] + 30
    BY DEF NoEarlyCancel
  <2>1. ASSUME NEW q \in Proc, DoomedBy(q, j) PROVE Concerns(q, j.tenant)
    BY <2>1 DEF IInv, Shapes, ShapeOf, DoomedBy, Concerns
  <2>2. ~Doomed(j) /\ ~Excused(j.tenant)
    BY <2>1 DEF Doomed, Idle, Excused
  <2> QED
    BY <2>2 DEF IInv, OldJobsGo
<1> QED
  BY <1>1, InvariantHolds, PTL

\* The two updates of each operation, of the tenant and of its subscription, agree
\* when it is over, unless it failed or another one overlapped it: a cancellation a
\* crash cut short is still queued, and only a second crash in the same job makes
\* it fail.
THEOREM SubscriptionFollows == Spec => []SubFollowsTenant
<1>1. IInv => SubFollowsTenant
  BY DEF IInv, InOrder, Clean, SubFollows, SubFollowsTenant, Of
<1> QED
  BY <1>1, InvariantHolds, PTL

\* handleDunningMilestoneJob never unlocks a locked chat: one schedule's milestones
\* come in the order of their days, even when they run late.
THEOREM LockKept == Spec => LockHolds
<1> DEFINE Holds(t) == ChatLocked(t) /\ ~ChatLocked(t)' =>
                          \/ tenant'[t].status # "past_due"
                          \/ \E p \in Proc : pc[p] = "dueTenant" /\ who[p] = t
<1>1. ASSUME IInv, Next, NEW t \in Tenant, Clean(t) PROVE Holds(t)
  <2>1. tenant \in [Tenant -> [status : Status, stage : Stages]] /\ InOrder(t)
    BY <1>1 DEF IInv, Shapes, TypeOK
  <2>2. tenant'[t].stage = tenant[t].stage => Holds(t)
    BY DEF ChatLocked
  <2>3. ASSUME NEW p \in Proc, TriggerTenant(p) PROVE Holds(t)
    <3>1. CASE who[p] = t
      BY <2>3, <3>1 DEF TriggerTenant
    <3>2. CASE who[p] # t
      BY <2>1, <2>2, <2>3, <3>2 DEF TriggerTenant
    <3> QED
      BY <3>1, <3>2
  <2>4. ASSUME NEW p \in Proc, ReactivateTenant(p) PROVE Holds(t)
    BY <2>1, <2>2, <2>4 DEF ReactivateTenant
  <2>5. ASSUME NEW p \in Proc, MilestoneStage(p) PROVE Holds(t)
    <3>1. CASE who[p] = t
      <4>1. task[p] \in Of(t)
        BY <1>1, <2>1, <2>5, <3>1 DEF InOrder, WayOf, Milestone, MilestoneStage
      <4>2. tenant[t].stage >= 4 => task[p].day >= 4
        BY <1>1, <2>1, <4>1 DEF InOrder, LockedRest
      <4>3. tenant'[t].stage = task[p].day /\ tenant'[t].status = tenant[t].status
        BY <2>1, <2>5, <3>1 DEF MilestoneStage
      <4> QED
        BY <4>2, <4>3 DEF ChatLocked
    <3>2. CASE who[p] # t
      BY <2>1, <2>2, <2>5, <3>2 DEF MilestoneStage
    <3> QED
      BY <3>1, <3>2
  <2>6. ASSUME NEW p \in Proc,
               \/ TriggerSub(p) \/ TriggerList(p) \/ TriggerRemove(p) \/ TriggerAdd(p)
               \/ MilestoneCheck(p) \/ MilestoneMail(p) \/ CancelSub(p) \/ CancelTenant(p)
               \/ ReactivateSub(p) \/ ReactivateList(p) \/ ReactivateRemove(p)
               \/ TrialSub(p) \/ TrialTenant(p) \/ StepFails(p) \/ RemoveFails(p) \/ Begin(p)
        PROVE  tenant'[t].stage = tenant[t].stage
    <3>1. CASE CancelTenant(p) \/ TrialTenant(p)
      BY <2>1, <3>1 DEF CancelTenant, TrialTenant, SetStatus
    <3>2. CASE Begin(p)
      BY <3>2 DEF Begin, Trigger, Reactivate, Pick, TrialCheck
    <3>3. CASE TriggerSub(p) \/ TriggerList(p) \/ TriggerRemove(p) \/ TriggerAdd(p)
      BY <3>3 DEF TriggerSub, TriggerList, TriggerRemove, TriggerAdd
    <3>4. CASE MilestoneCheck(p) \/ MilestoneMail(p) \/ CancelSub(p) \/ StepFails(p) \/ RemoveFails(p)
      BY <3>4 DEF MilestoneCheck, MilestoneMail, CancelSub, StepFails, RemoveFails
    <3>5. CASE ReactivateSub(p) \/ ReactivateList(p) \/ ReactivateRemove(p) \/ TrialSub(p)
      BY <3>5 DEF ReactivateSub, ReactivateList, ReactivateRemove, TrialSub
    <3> QED
      BY <2>6, <3>1, <3>2, <3>3, <3>4, <3>5
  <2>7. ASSUME Crash \/ Tick \/ \E x \in Tenant : Webhook(x) PROVE tenant'[t].stage = tenant[t].stage
    BY <2>1, <2>7 DEF Crash, Tick, Webhook, SetStatus
  <2> QED
    BY <1>1, <2>2, <2>3, <2>4, <2>5, <2>6, <2>7 DEF Next, Progress
<1>2. IInv /\ Next => \A t \in Tenant \ (raced \cup broken) : Holds(t)
  BY <1>1 DEF Clean
<1>3. IInv /\ [Next]_vars => [\A t \in Tenant \ (raced \cup broken) : Holds(t)]_vars
  BY <1>2
<1> QED
  BY <1>3, InvariantHolds, PTL DEF Spec, LockHolds
==============================================================================
