-------------------------------- MODULE Indexing --------------------------------
(***************************************************************************)
(* The index of a tenant's workspace (tenant-api:                          *)
(* services/indexer/repository-indexer.ts, services/indexer/cli.ts,        *)
(* api/routes/indexer.ts, and the watcher of workers/scheduler.ts).        *)
(*                                                                         *)
(* A run scans the workspace, then takes file after file: it reads it,     *)
(* compares it with file_index_state, replaces the row and the chunks, and *)
(* in the end removes what is no longer there.  Every statement is by      *)
(* itself, and runs may overlap: those of the watcher, of POST /index, and *)
(* of the command line.  Left out: what the chunks say, and which files    *)
(* are ignored (the scan sees the others).                                 *)
(***************************************************************************)
EXTENDS Integers, FiniteSets

CONSTANTS
    File,
    NoFile,
    Content,        \* what a file may hold; its hash stands for it
    Words,          \* how many words each content has
    ChunkSize, Overlap,     \* 500 and 50 words
    Proc,           \* runs that may overlap
    MaxMtime,       \* bound: changes of a file
    MaxRuns,        \* bound: runs ever asked for
    MaxFaults       \* bound: failed statements and crashes

NoRow == [mtime |-> 0, sha |-> "none"]

ASSUME IndexingAssumption ==
    /\ NoFile \notin File
    /\ "none" \notin Content /\ Words \in [Content -> Nat]
    /\ ChunkSize \in Nat /\ Overlap \in Nat /\ Overlap < ChunkSize
    /\ MaxMtime \in Nat \ {0} /\ MaxRuns \in Nat /\ MaxFaults \in Nat

VARIABLES
    disk,       \* what each path has, and when it was last written
    state,      \* file_index_state, NoRow when there is no row
    chunks,     \* the rows of file_chunks
    run,        \* the runs
    job,        \* activeJobs: what GET /index/status says of the route's run
    watch,      \* the watcher: waiting for a change, or for 3 s to pass
    runs, faults,   \* counted for their bounds
    astray      \* history: files whose index may be wrong

vars == <<disk, state, chunks, run, job, watch, runs, faults, astray>>
tables == <<state, chunks>>

Row == [mtime : 1 .. MaxMtime, sha : Content]
\* No file, now: one that was removed keeps the time it had.
Missing == [mtime : 0 .. MaxMtime, sha : {"none"}]
Present == {f \in File : disk[f].sha # "none"}
\* The first words of the chunks of a content.
Starts(c) == {i \in 0 .. Words[c] - 1 : i % (ChunkSize - Overlap) = 0}
Last(c) == IF Starts(c) = {} THEN -1 ELSE CHOOSE i \in Starts(c) : \A j \in Starts(c) : j <= i

Places == {"free", "scan", "next", "query", "delete", "upsert", "insert", "clean", "forget"}
\* `found' by the scan, `todo' of it, the `file' at hand as `seen', the chunk
\* `start'ing next, files to clean up as `gone'; `alone' while no other run
\* has been beside it.
Idle == [at |-> "free", by |-> "nobody", found |-> {}, todo |-> {}, file |-> NoFile, seen |-> NoRow,
         start |-> 0, gone |-> {}, alone |-> TRUE]
Alive == {p \in Proc : run[p].at # "free"}

\* Types: disk, tables and runs have their shape, and no chunk begins behind
\* the end of its file.
TypeOK ==
    /\ disk \in [File -> Row \cup Missing] /\ state \in [File -> Row \cup {NoRow}]
    /\ \A k \in chunks : /\ k.file \in File /\ k.sha \in Content /\ k.by \in Proc
                         /\ k.start \in Starts(k.sha)
    /\ run \in [Proc -> [at : Places, by : {"nobody", "watcher", "route", "cli"},
                         found : SUBSET File, todo : SUBSET File,
                         file : File \cup {NoFile}, seen : Row \cup {NoRow}, start : Nat,
                         gone : SUBSET File, alone : BOOLEAN]]
    /\ job \in [Proc -> {"none", "running", "completed", "failed"}]
    /\ watch \in {"idle", "timer"}
    /\ runs \in 0 .. MaxRuns /\ faults \in 0 .. MaxFaults
    /\ astray \subseteq File

\* A server starts with no index; the watcher does not look at what is there.
Init ==
    /\ disk \in [File -> {NoRow} \cup {[mtime |-> 1, sha |-> c] : c \in Content}]
    /\ state = [f \in File |-> NoRow] /\ chunks = {}
    /\ run = [p \in Proc |-> Idle] /\ job = [p \in Proc |-> "none"]
    /\ watch = "idle"
    /\ runs = 0 /\ faults = 0
    /\ astray = Present

-----------------------------------------------------------------------------
(* The workspace and its watcher *)

\* Mutant: no new run is due while one is under way.
BugHear == watch' = IF Alive = {} THEN "timer" ELSE watch

\* A change starts the 3 s unless they are running.
Hear == watch' = "timer"

\* Somebody writes a file, with a new mtime or, restoring one, the same.
Write(f, c) ==
    /\ c # disk[f].sha
    /\ \/ /\ disk[f].mtime < MaxMtime
          /\ disk' = [disk EXCEPT ![f] = [mtime |-> @.mtime + 1, sha |-> c]]
          /\ UNCHANGED <<run, astray>>
       \/ /\ disk[f].mtime # 0
          /\ disk' = [disk EXCEPT ![f].sha = c]
          /\ astray' = astray \cup {f}
          /\ run' = [p \in Proc |-> IF run[p].file = f THEN [run[p] EXCEPT !.alone = FALSE] ELSE run[p]]
    /\ Hear
    /\ UNCHANGED <<tables, job, runs, faults>>

Remove(f) ==
    /\ f \in Present
    /\ disk' = [disk EXCEPT ![f].sha = "none"]
    /\ Hear
    /\ UNCHANGED <<tables, run, job, runs, faults, astray>>

-----------------------------------------------------------------------------
(* indexWorkspace *)

Set(p, r) == run' = [run EXCEPT ![p] = r]
Fault == faults < MaxFaults /\ faults' = faults + 1
\* What the handler of the run's promise, or of its progress, sets.
Report(p, s) == job' = IF run[p].by = "route" THEN [job EXCEPT ![p] = s] ELSE job

Start(p, by) ==
    /\ run[p] = Idle
    /\ run' = [q \in Proc |->
                IF q = p THEN [Idle EXCEPT !.at = "scan", !.by = by, !.alone = Alive = {}]
                ELSE [run[q] EXCEPT !.alone = @ /\ q \notin Alive]]
    /\ job' = [job EXCEPT ![p] = IF by = "route" THEN "running" ELSE "none"]
    /\ UNCHANGED <<disk, tables, faults, astray>>

WatchFires(p) == watch = "timer" /\ Start(p, "watcher") /\ watch' = "idle" /\ UNCHANGED runs

Ask(p, by) == runs < MaxRuns /\ runs' = runs + 1 /\ Start(p, by) /\ UNCHANGED watch

\* POST /index answers at once and leaves the run behind; the command line waits.
PostIndex(p) == Ask(p, "route")
Cli(p) == Ask(p, "cli")

\* The scan is synchronous; it throws when a file goes under its hands.
Scan(p) ==
    /\ run[p].at = "scan"
    /\ \/ /\ Set(p, [run[p] EXCEPT !.at = "next", !.found = Present, !.todo = Present])
          /\ UNCHANGED <<job, faults, astray>>
       \/ /\ Fault /\ Set(p, Idle) /\ Report(p, "failed")
          /\ astray' = File
    /\ UNCHANGED <<disk, tables, watch, runs>>

\* stat and readFile; a file that has gone is skipped.
Read(p) ==
    /\ run[p].at = "next"
    /\ \E f \in run[p].todo :
        Set(p, IF f \notin Present THEN [run[p] EXCEPT !.todo = @ \ {f}]
               ELSE [run[p] EXCEPT !.at = "query", !.todo = @ \ {f}, !.file = f, !.seen = disk[f]])
    /\ UNCHANGED <<disk, tables, job, watch, runs, faults, astray>>

NextFile(r) == [r EXCEPT !.at = "next", !.file = NoFile, !.seen = NoRow, !.start = 0]

\* Another run has this file at hand, or has not found it.
Beside(p, f) == \E q \in Alive \ {p} : run[q].file = f \/ (run[q].at # "scan" /\ f \notin run[q].found)
Touch(p, f) == astray' = IF Beside(p, f) THEN astray \cup {f} ELSE astray

Skips(row, seen) == row # NoRow /\ (row.mtime = seen.mtime \/ row.sha = seen.sha)

Query(p) ==
    /\ run[p].at = "query"
    /\ LET r == run[p] IN
       Set(p, IF Skips(state[r.file], r.seen) THEN NextFile(r) ELSE [r EXCEPT !.at = "delete"])
    /\ Touch(p, run[p].file)
    /\ UNCHANGED <<disk, tables, job, watch, runs, faults>>

\* Mutant: the old chunks stay.
BugDelete(p) ==
    /\ run[p].at = "delete"
    /\ Set(p, [run[p] EXCEPT !.at = "upsert"])
    /\ Touch(p, run[p].file)
    /\ UNCHANGED <<disk, state, chunks, job, watch, runs, faults>>

DeleteChunks(p) ==
    /\ run[p].at = "delete"
    /\ chunks' = {k \in chunks : k.file # run[p].file}
    /\ Set(p, [run[p] EXCEPT !.at = "upsert"])
    /\ Touch(p, run[p].file)
    /\ UNCHANGED <<disk, state, job, watch, runs, faults>>

\* An empty file has no chunks.  A run that was by itself sets things right.
Right(p) == astray' = IF run[p].alone THEN astray \ {run[p].file} ELSE astray

Upsert(p) ==
    /\ run[p].at = "upsert"
    /\ LET r == run[p] IN
       /\ state' = [state EXCEPT ![r.file] = r.seen]
       /\ IF Starts(r.seen.sha) = {} THEN Set(p, NextFile(r)) /\ (IF r.alone THEN Right(p) ELSE Touch(p, r.file))
          ELSE Set(p, [r EXCEPT !.at = "insert"]) /\ Touch(p, r.file)
    /\ UNCHANGED <<disk, chunks, job, watch, runs, faults>>

\* embed, which falls back to a made-up vector, and the INSERT.
InsertChunk(p) ==
    /\ run[p].at = "insert"
    /\ LET r == run[p] IN
       /\ chunks' = chunks \cup {[file |-> r.file, sha |-> r.seen.sha, start |-> r.start, by |-> p]}
       /\ IF r.start = Last(r.seen.sha)
          THEN Set(p, NextFile(r)) /\ (IF r.alone THEN Right(p) ELSE Touch(p, r.file))
          ELSE Set(p, [r EXCEPT !.start = @ + ChunkSize - Overlap]) /\ Touch(p, r.file)
    /\ UNCHANGED <<disk, state, job, watch, runs, faults>>

\* A failed statement ends this file, not the run.  So does the clearing of the
\* context after a statement that took effect: that run is at the next one.
FileFails(p) ==
    /\ run[p].at \in {"query", "delete", "upsert", "insert"}
    /\ Fault
    /\ astray' = astray \cup {run[p].file}
    /\ Set(p, NextFile(run[p]))
    /\ UNCHANGED <<disk, tables, job, watch, runs>>

List(p) ==
    /\ run[p].at = "next" /\ run[p].todo = {}
    /\ LET gone == File \ run[p].found
       IN /\ Set(p, [run[p] EXCEPT !.at = "clean", !.gone = {f \in gone : state[f] # NoRow}])
          /\ astray' = astray \cup {f \in gone : \E q \in Alive \ {p} : run[q].file = f}
    /\ UNCHANGED <<disk, tables, job, watch, runs, faults>>

CleanChunks(p) ==
    /\ run[p].at = "clean"
    /\ \E f \in run[p].gone :
        /\ chunks' = {k \in chunks : k.file # f}
        /\ Set(p, [run[p] EXCEPT !.at = "forget", !.gone = @ \ {f}, !.file = f])
        /\ Touch(p, f)
    /\ UNCHANGED <<disk, state, job, watch, runs, faults>>

CleanRow(p) ==
    /\ run[p].at = "forget"
    /\ state' = [state EXCEPT ![run[p].file] = NoRow]
    /\ Set(p, [run[p] EXCEPT !.at = "clean", !.file = NoFile])
    /\ Touch(p, run[p].file)
    /\ UNCHANGED <<disk, chunks, job, watch, runs, faults>>

\* An error of the cleanup is logged, and the run has completed.
Finish(p) ==
    /\ run[p].at \in {"clean", "forget"}
    /\ \/ run[p].at = "clean" /\ run[p].gone = {} /\ UNCHANGED <<faults, astray>>
       \/ Fault /\ astray' = astray \cup (File \ run[p].found)
    /\ Set(p, Idle) /\ Report(p, "completed")
    /\ UNCHANGED <<disk, tables, watch, runs>>

\* The command line stops, or the server does, with the runs and jobs it has,
\* and comes back to an idle watcher.
Crash(ours) ==
    /\ Fault
    /\ run' = [p \in Proc |-> IF run[p].by \in ours THEN Idle
                           ELSE [run[p] EXCEPT !.alone = @ /\ run[p] = Idle]]
    /\ IF ours = {"cli"} THEN UNCHANGED <<job, watch>>
       ELSE watch' = "idle" /\ job' = [p \in Proc |-> "none"]
    /\ astray' = File
    /\ UNCHANGED <<disk, tables, runs>>

-----------------------------------------------------------------------------
Step(p) == Scan(p) \/ Read(p) \/ Query(p) \/ DeleteChunks(p) \/ Upsert(p) \/ InsertChunk(p)
           \/ FileFails(p) \/ List(p) \/ CleanChunks(p) \/ CleanRow(p) \/ Finish(p)

Next ==
    \/ \E f \in File : Remove(f) \/ \E c \in Content : Write(f, c)
    \/ \E p \in Proc : WatchFires(p) \/ PostIndex(p) \/ Cli(p) \/ Step(p)
    \/ Crash({"cli"}) \/ Crash({"watcher", "route"})

Spec == Init /\ [][Next]_vars

-----------------------------------------------------------------------------
Chunked(f) == {<<k.sha, k.start>> : k \in {m \in chunks : m.file = f}}
Whole(f) == IF state[f] = NoRow THEN {} ELSE {<<state[f].sha, i>> : i \in Starts(state[f].sha)}

\* A file that no run has at hand has one row for every chunk of the very
\* content its row in file_index_state stands for, and none without such a
\* row; excepted are files two runs were on, or a statement failed on, until
\* a run by itself indexes them again (repository-indexer.ts:262-292, 305-341).
TablesAgree == \A f \in File \ astray : (\A p \in Alive : run[p].file # f) =>
    /\ Chunked(f) = Whole(f)
    /\ Cardinality({k \in chunks : k.file = f}) = Cardinality(Whole(f))

\* When the watcher is idle and no run under way the index is that of the
\* workspace: no change is lost because it came during a run or during the
\* 3 s, with the same exceptions and but for changes that keep the mtime
\* (scheduler.ts:535-552, repository-indexer.ts:250-260).
IndexIsCurrent == watch = "idle" /\ Alive = {} =>
    \A f \in File \ astray : state[f].sha = disk[f].sha

\* A file is only skipped when the index has its content ("If mtime and sha256
\* match, skip re-indexing", repository-indexer.ts:254).
SkipsOnlyIndexed == [][\A p \in Proc : Query(p) /\ run'[p].at = "next" =>
    state[run[p].file].sha = run[p].seen.sha]_vars
================================================================================
