---------------------------- MODULE Workers_proofs ----------------------------
(* Proofs about what runs beside the requests of the tenant-api: the index of    *)
(* Indexing, the cleanup of Cleanup, the memory workers of Conversations and the *)
(* plans of Agents, for any files, servers, tenants, requests, tasks and bounds.  *)
EXTENDS Indexing, FiniteSetTheorems, SequenceTheorems, WellFoundedInduction, TLAPS

-----------------------------------------------------------------------------
(* The index *)

\* The chunks of a file, no two alike, and of what the row of the file stands for.
Of(f) == {k \in chunks : k.file = f}
Distinct(f) == \A k, m \in Of(f) : k.sha = m.sha /\ k.start = m.start => k = m
Agree(f) == Chunked(f) = Whole(f) /\ Distinct(f)

\* What a run has, by its step.
Reading == {"query", "delete", "upsert", "insert"}
Shape(p) ==
    LET r == run[p] IN
    /\ r.at \in Reading => r.file \in r.found /\ r.seen # NoRow
    /\ r.at = "forget" => r.file \in File \ r.found
    /\ r.at \in {"free", "scan", "next", "clean"} => r.file = NoFile
    /\ r.at \in {"free", "scan"} => r.found = {} /\ r.todo = {}
    /\ r.at \in {"clean", "forget"} => r.todo = {}
    /\ r.at \notin {"clean", "forget"} => r.gone = {}
    /\ r.todo \subseteq r.found
    /\ r.gone \subseteq File \ r.found
    /\ r.at # "insert" => r.start = 0
    /\ r.at = "insert" => r.start \in Starts(r.seen.sha)

\* A run that has been alone is alone.
Alone == \A p, q \in Alive : run[p].alone => p = q

\* Runs that have f at hand: past the query, and with its chunks or row half done.
Past(p, f) == run[p].file = f /\ run[p].at # "query"
Busy(p, f) == run[p].file = f /\ run[p].at \in {"upsert", "insert", "forget"}
\* What a run has put in the tables when it comes to its step.
Written(p, f) ==
    /\ run[p].at \in {"upsert", "forget"} => Of(f) = {}
    /\ run[p].at = "insert" =>
        /\ state[f] = run[p].seen
        /\ Of(f) = {[file |-> f, sha |-> run[p].seen.sha, start |-> i, by |-> p] :
                       i \in {i \in Starts(run[p].seen.sha) : i < run[p].start}}
\* A row, or what a run has read, was once on the disk: only a later change, or the
\* removal, sets them apart when the mtime is kept.
Follows(x, f) == x # NoRow => /\ x.mtime <= disk[f].mtime
                              /\ x.mtime = disk[f].mtime => disk[f].sha \in {x.sha, "none"}

\* An unmarked file is in the hands of one run past the query, and whole when nobody
\* is half way.
Tables(f) == f \notin astray =>
    /\ \A p, q \in Proc : Past(p, f) /\ Past(q, f) => p = q
    /\ (\A p \in Proc : ~Busy(p, f)) => Agree(f)
    /\ Follows(state[f], f)
\* What a run knows, of an unmarked file or alone.
Runs(p) == LET f == run[p].file IN
    f # NoFile /\ (f \notin astray \/ run[p].alone) =>
    /\ Written(p, f)
    /\ run[p].at \in Reading => Follows(run[p].seen, f)
    /\ run[p].at \in Reading /\ run[p].alone => watch = "timer" \/ run[p].seen.sha = disk[f].sha
    /\ run[p].at = "query" /\ f \notin astray /\ state[f] # NoRow /\ state[f].mtime = run[p].seen.mtime
         => state[f].sha = run[p].seen.sha

\* The index has what the disk has, and no run will change that.
Settled(f) ==
    /\ state[f].sha = disk[f].sha
    /\ \A p \in Proc :
        /\ run[p].file = f /\ run[p].at \in {"query", "delete", "upsert"} => run[p].seen.sha = disk[f].sha
        /\ f \in Present /\ run[p].at \notin {"free", "scan"} => f \in run[p].found
\* A run that is going to bring the index of f up to date.
Will(p, f) ==
    \/ run[p].at = "scan"
    \/ /\ f \in Present
       /\ \/ f \in run[p].todo
          \/ /\ run[p].file = f /\ run[p].at \in {"query", "delete", "upsert"}
             /\ run[p].seen.sha = disk[f].sha
    \/ /\ f \notin Present /\ f \notin run[p].found
       /\ \/ run[p].at \in {"next"} \cup Reading
          \/ f \in run[p].gone
          \/ run[p].at = "forget" /\ run[p].file = f
\* Nothing is lost: a file is settled, or will be.
Current(f) == f \notin astray => Settled(f) \/ watch = "timer" \/ \E p \in Proc : Will(p, f)

\* The inductive invariant.
IInv == /\ TypeOK /\ Alone /\ (\A p \in Proc : Shape(p) /\ Runs(p))
        /\ \A f \in File : Tables(f) /\ Current(f)

-----------------------------------------------------------------------------
(* Where chunks start *)

\* How far the next chunk is.
Stride == ChunkSize - Overlap

\* Facts of division by the stride.
LEMMA Divide == ASSUME NEW s \in Nat \ {0}, NEW i \in Nat PROVE i = (i \div s) * s + (i % s)
BY Z3

LEMMA Multiple == ASSUME NEW s \in Nat \ {0}, NEW i \in Nat, i % s = 0 PROVE \E a \in Int : i = s * a
OBVIOUS

LEMMA Residue ==
    ASSUME NEW s \in Nat \ {0}, NEW q \in Int, NEW r \in 0 .. s - 1, NEW i \in Int, i = s * q + r
    PROVE  i % s = r
OBVIOUS

LEMMA Mult == ASSUME NEW s \in Nat \ {0}, NEW q \in Int PROVE (s * q) % s = 0
<1>1. s * q = s * q + 0 /\ 0 \in 0 .. s - 1 /\ s * q \in Int
  OBVIOUS
<1> QED
  BY <1>1, Residue

\* Two starts are a stride apart, and the next multiple is one.
LEMMA Apart ==
    ASSUME NEW s \in Nat \ {0}, NEW i \in Nat, NEW j \in Nat, i % s = 0, j % s = 0, i < j
    PROVE  i + s <= j
<1>1. PICK a \in Int : i = s * a
  BY Multiple
<1>2. PICK b \in Int : j = s * b
  BY Multiple
<1>3. a + 1 <= b
  BY <1>1, <1>2
<1> QED
  BY <1>1, <1>2, <1>3

LEMMA OneFurther == ASSUME NEW s \in Nat \ {0}, NEW i \in Nat, i % s = 0 PROVE (i + s) % s = 0
<1>1. PICK a \in Int : i = s * a
  BY Multiple
<1>2. i + s = s * (a + 1) /\ a + 1 \in Int
  BY <1>1
<1> QED
  BY <1>2, Mult

LEMMA Neg == ASSUME NEW s \in Nat \ {0}, NEW a \in Int, a <= -1 PROVE a * s <= -s
<1>1. (-a) - 1 >= 0
  OBVIOUS
<1>2. ((-a) - 1) * s >= 0
  BY <1>1
<1>3. ((-a) - 1) * s = -(a * s) - s
  OBVIOUS
<1>4. a * s \in Int
  OBVIOUS
<1> QED
  BY <1>2, <1>3, <1>4

\* The last multiple that is not above a number.
LEMMA Below == ASSUME NEW s \in Nat \ {0}, NEW w \in Nat PROVE \E m \in Nat : m <= w /\ w < m + s /\ m % s = 0
<1> DEFINE a == w \div s
           r == w % s
<1>1. a \in Int /\ r \in 0 .. s - 1
  OBVIOUS
<1>2. w = a * s + r
  BY Divide
<1> HIDE DEF a, r
<1>3. a * s \in Int /\ a * s <= w /\ w < a * s + s
  BY <1>1, <1>2
<1>4. a * s >= 0
  BY <1>1, <1>3, Neg
<1>5. (a * s) % s = 0
  <2>1. a * s = s * a
    BY <1>1
  <2> QED
    BY <1>1, <2>1, Mult
<1> QED
  BY <1>3, <1>4, <1>5

\* The stride is a number, and starts are its multiples within the content.
LEMMA StrideIs == Stride \in Nat \ {0} /\ Stride = ChunkSize - Overlap
BY IndexingAssumption DEF Stride

LEMMA StartsAre ==
    ASSUME NEW c \in Content
    PROVE  /\ Words[c] \in Nat /\ Starts(c) \subseteq Nat
           /\ \A i \in Nat : i \in Starts(c) <=> i < Words[c] /\ i % Stride = 0
BY IndexingAssumption DEF Starts, Stride

\* The last chunk is the last.
LEMMA LastIs ==
    ASSUME NEW c \in Content, Starts(c) # {}
    PROVE  Last(c) \in Starts(c) /\ \A j \in Starts(c) : j <= Last(c)
<1>1. PICK i \in Starts(c) : TRUE
  OBVIOUS
<1>2. Words[c] - 1 \in Nat /\ Stride \in Nat \ {0}
  BY <1>1, StartsAre, StrideIs
<1>3. PICK m \in Nat : m <= Words[c] - 1 /\ Words[c] - 1 < m + Stride /\ m % Stride = 0
  BY <1>2, Below
<1>4. m \in Starts(c)
  BY <1>2, <1>3, StartsAre
<1>5. ASSUME NEW j \in Starts(c) PROVE j <= m
  <2>1. j \in Nat /\ j <= Words[c] - 1 /\ j % Stride = 0
    BY <1>2, StartsAre
  <2>2. m < j => m + Stride <= j
    BY <1>2, <1>3, <2>1, Apart
  <2> QED
    BY <1>2, <1>3, <2>1, <2>2
<1>6. Last(c) = CHOOSE k \in Starts(c) : \A j \in Starts(c) : j <= k
  BY <1>1 DEF Last
<1> QED
  BY <1>4, <1>5, <1>6

\* After a chunk that is not the last comes the next, with nothing between.
LEMMA NextStart ==
    ASSUME NEW c \in Content, NEW i \in Starts(c), i # Last(c)
    PROVE  /\ i + Stride \in Starts(c)
           /\ \A j \in Starts(c) : j < i + Stride <=> j <= i
<1>1. i \in Nat /\ i % Stride = 0 /\ Stride \in Nat \ {0} /\ Last(c) \in Nat /\ Last(c) % Stride = 0 /\ Last(c) < Words[c]
  BY StartsAre, StrideIs, LastIs
<1>2. i < Last(c)
  BY <1>1, LastIs
<1>3. i + Stride <= Last(c)
  BY <1>1, <1>2, Apart
<1>4. (i + Stride) % Stride = 0
  BY <1>1, OneFurther
<1>5. i + Stride \in Starts(c)
  BY <1>1, <1>3, <1>4, StartsAre
<1>6. ASSUME NEW j \in Starts(c) PROVE j < i + Stride <=> j <= i
  <2>1. j \in Nat /\ j % Stride = 0
    BY StartsAre
  <2>2. i < j => i + Stride <= j
    BY <1>1, <2>1, Apart
  <2> QED
    BY <1>1, <2>1, <2>2
<1> QED
  BY <1>5, <1>6

\* The first chunk starts at the first word.
LEMMA FirstStart ==
    ASSUME NEW c \in Content, Starts(c) # {}
    PROVE  0 \in Starts(c) /\ \A j \in Starts(c) : ~(j < 0)
<1>1. PICK i \in Starts(c) : TRUE
  OBVIOUS
<1>2. i \in Nat /\ i < Words[c] /\ Words[c] \in Nat /\ 0 % Stride = 0
  BY StartsAre, StrideIs
<1> QED
  BY <1>2, StartsAre

\* A file whose chunks are those of its row has no chunk twice.
LEMMA AsMany ==
    ASSUME TypeOK, NEW f \in File, Agree(f)
    PROVE  Cardinality(Of(f)) = Cardinality(Whole(f))
<1>1. IsFiniteSet(Whole(f))
  <2>1. CASE state[f] = NoRow
    BY <2>1, FS_EmptySet DEF Whole
  <2>2. CASE state[f] # NoRow
    <3> DEFINE c == state[f].sha
               g == [i \in Starts(c) |-> <<c, i>>]
    <3>1. c \in Content
      BY <2>2 DEF TypeOK, Row
    <3>2. Starts(c) \subseteq 0 .. Words[c] - 1 /\ Words[c] \in Nat
      BY <3>1, IndexingAssumption DEF Starts
    <3>3. IsFiniteSet(Starts(c))
      <4>1. 0 \in Int /\ Words[c] - 1 \in Int
        BY <3>2
      <4>2. IsFiniteSet(0 .. Words[c] - 1)
        BY <4>1, FS_Interval
      <4> QED
        BY <3>2, <4>2, FS_Subset
    <3>4. g \in Surjection(Starts(c), Whole(f))
      BY <2>2 DEF Surjection, Whole
    <3> QED
      BY <3>3, <3>4, FS_Surjection
  <2> QED
    BY <2>1, <2>2
<1> DEFINE h == [k \in Of(f) |-> <<k.sha, k.start>>]
<1>2. Chunked(f) = {<<k.sha, k.start>> : k \in Of(f)}
  BY DEF Chunked, Of
<1>3. h \in [Of(f) -> Whole(f)] /\ \A x \in Whole(f) : \E k \in Of(f) : h[k] = x
  BY <1>2 DEF Agree
<1>4. ASSUME NEW k \in Of(f), NEW m \in Of(f), h[k] = h[m] PROVE k = m
  BY <1>4 DEF Agree, Distinct
<1> HIDE DEF h
<1>5. h \in Surjection(Of(f), Whole(f))
  BY <1>3 DEF Surjection
<1>6. h \in Injection(Of(f), Whole(f))
  BY <1>3, <1>4 DEF Injection, IsInjective
<1> QED
  BY <1>1, <1>5, <1>6, FS_Injection

-----------------------------------------------------------------------------
(* What the steps do *)

Seen == Row \cup {NoRow}
RunType == [at : Places, by : {"nobody", "watcher", "route", "cli"},
            found : SUBSET File, todo : SUBSET File,
            file : File \cup {NoFile}, seen : Seen, start : Nat,
            gone : SUBSET File, alone : BOOLEAN]
ChunkType == {k \in chunks : k.file \in File /\ k.sha \in Content /\ k.by \in Proc /\ k.start \in Starts(k.sha)}
Stored == disk \in [File -> Row \cup Missing] /\ state \in [File -> Seen] /\ chunks = ChunkType
Counted == /\ job \in [Proc -> {"none", "running", "completed", "failed"}]
           /\ watch \in {"idle", "timer"} /\ runs \in 0 .. MaxRuns /\ faults \in 0 .. MaxFaults
           /\ astray \subseteq File

\* The type invariant in three parts.
LEMMA TypesAre == TypeOK <=> Stored /\ run \in [Proc -> RunType] /\ Counted
BY DEF TypeOK, Stored, ChunkType, Seen, RunType, Counted

LEMMA PlacesAre == Places = {"free", "scan", "next", "query", "delete", "upsert", "insert", "clean", "forget"}
BY DEF Places

\* A run that is not under way; what a row is.
LEMMA NobodyIs ==
    /\ Idle \in RunType /\ Idle.at = "free" /\ Idle.file = NoFile /\ Idle.found = {} /\ Idle.todo = {}
    /\ Idle.gone = {} /\ Idle.start = 0 /\ Idle.by = "nobody"
BY DEF Idle, RunType, Places, Seen

LEMMA RowsAre ==
    /\ NoRow.sha = "none" /\ NoRow.mtime = 0 /\ NoRow \notin Row
    /\ \A x \in Row : x.mtime \in Nat /\ x.mtime > 0 /\ x.sha \in Content /\ x.sha # "none"
    /\ \A x \in Missing : x.mtime \in Nat /\ x.sha = "none"
BY IndexingAssumption DEF NoRow, Row, Missing

\* A step of p leaves the other runs, and p with the given place and lists, or file.
Others(p) == \A q \in Proc \ {p} : run'[q] = run[q]
\* Where p is, and what it has, but for its start and its file.
Now(p, at, found, todo, gone) ==
    /\ run'[p].at = at /\ run'[p].found = found /\ run'[p].todo = todo /\ run'[p].gone = gone
    /\ run'[p].alone = run[p].alone
Has(p, file, seen, start) == run'[p].file = file /\ run'[p].seen = seen /\ run'[p].start = start

\* What the helpers of the steps return.
LEMMA SetIs ==
    ASSUME run \in [Proc -> RunType], NEW p \in Proc, NEW r \in RunType, Set(p, r)
    PROVE  run' \in [Proc -> RunType] /\ run'[p] = r /\ Others(p)
BY DEF Set, Others

LEMMA NextFileIs ==
    ASSUME NEW r \in RunType
    PROVE  LET n == NextFile(r) IN
           /\ n \in RunType /\ n.at = "next" /\ n.file = NoFile /\ n.seen = NoRow /\ n.start = 0
           /\ n.found = r.found /\ n.todo = r.todo /\ n.gone = r.gone /\ n.alone = r.alone
BY DEF NextFile, RunType, Seen, Places

LEMMA ReportIs ==
    ASSUME job \in [Proc -> {"none", "running", "completed", "failed"}], NEW p \in Proc,
           NEW s \in {"none", "running", "completed", "failed"}, Report(p, s)
    PROVE  job' \in [Proc -> {"none", "running", "completed", "failed"}]
BY DEF Report

\* A file worked on is marked when another run is beside.
LEMMA TouchIs ==
    ASSUME astray \subseteq File, NEW p, NEW f \in File, Touch(p, f)
    PROVE  astray' \subseteq File /\ astray \subseteq astray' /\ (Beside(p, f) => f \in astray')
           /\ \A g \in File \ {f} : g \in astray' => g \in astray
BY DEF Touch

LEMMA FaultIs == ASSUME Fault, faults \in 0 .. MaxFaults PROVE faults' \in 0 .. MaxFaults
BY IndexingAssumption DEF Fault

-----------------------------------------------------------------------------
(* Each step of a run *)

\* The step leaves disk, tables and watcher.
Keeps == UNCHANGED <<disk, state, chunks, watch>>

\* A scan lists the files there are, or fails.
LEMMA ScanIs ==
    ASSUME TypeOK, NEW p \in Proc, Shape(p), Scan(p)
    PROVE  /\ TypeOK' /\ Others(p) /\ Keeps /\ run[p].at = "scan" /\ run[p].file = NoFile
           /\ \/ Now(p, "next", Present, Present, {}) /\ run'[p].file = NoFile /\ astray' = astray
                 /\ run'[p].start = run[p].start
              \/ run'[p] = Idle /\ astray' = File
<1>1. run[p] \in RunType /\ Stored /\ Counted /\ Present \subseteq File
  BY TypesAre DEF Present
<1>2. run[p].at = "scan" /\ run[p].file = NoFile /\ run[p].gone = {} /\ Keeps /\ runs' = runs
  BY DEF Scan, Shape, Keeps, tables
<1>3. Stored'
  BY <1>1, <1>2 DEF Keeps, Stored, ChunkType
<1>4. CASE Set(p, [run[p] EXCEPT !.at = "next", !.found = Present, !.todo = Present]) /\ UNCHANGED <<job, faults, astray>>
  <2> DEFINE r == [run[p] EXCEPT !.at = "next", !.found = Present, !.todo = Present]
  <2>1. r \in RunType /\ r.at = "next" /\ r.found = Present /\ r.todo = Present /\ r.gone = run[p].gone
        /\ r.file = run[p].file /\ r.alone = run[p].alone /\ r.start = run[p].start
    BY <1>1 DEF RunType, Places
  <2>2. Set(p, r)
    BY <1>4
  <2> HIDE DEF r
  <2>3. run' \in [Proc -> RunType] /\ run'[p] = r /\ Others(p)
    BY <2>1, <2>2, SetIs, TypesAre
  <2>4. Counted'
    BY <1>1, <1>2, <1>4 DEF Counted, Keeps
  <2> QED
    BY <1>2, <1>3, <1>4, <2>1, <2>3, <2>4, TypesAre DEF Now, TypeOK, Stored, ChunkType, Counted, RunType, Seen
<1>5. CASE Fault /\ Set(p, Idle) /\ Report(p, "failed") /\ astray' = File
  <2>1. run' \in [Proc -> RunType] /\ run'[p] = Idle /\ Others(p)
    BY <1>5, SetIs, TypesAre, NobodyIs
  <2>2. Counted'
    BY <1>1, <1>2, <1>5, ReportIs, FaultIs DEF Counted, Keeps
  <2> QED
    BY <1>2, <1>3, <1>5, <2>1, <2>2 DEF TypeOK, Stored, ChunkType, Counted, RunType, Seen
<1> QED
  BY <1>4, <1>5 DEF Scan

\* A step that sets the run of p keeps the types when it keeps those of the rest.
LEMMA Typed ==
    ASSUME run \in [Proc -> RunType], NEW p \in Proc, NEW r \in RunType, Set(p, r), Stored', Counted'
    PROVE  TypeOK' /\ run'[p] = r /\ Others(p)
<1>1. run' \in [Proc -> RunType] /\ run'[p] = r /\ Others(p)
  BY SetIs
<1> QED
  BY <1>1 DEF TypeOK, Stored, ChunkType, Seen, RunType, Counted

\* The tables and the world are as they were.
LEMMA KeptStored == ASSUME Stored, UNCHANGED <<disk, state, chunks>> PROVE Stored'
BY DEF Stored, ChunkType

\* Read takes a file, or passes over one that has gone.
LEMMA ReadIs ==
    ASSUME TypeOK, NEW p \in Proc, Shape(p), Read(p)
    PROVE  /\ TypeOK' /\ Others(p) /\ Keeps /\ astray' = astray /\ run[p].at = "next" /\ run[p].file = NoFile
           /\ \E f \in run[p].todo :
                 \/ /\ f \notin Present /\ Now(p, "next", run[p].found, run[p].todo \ {f}, {})
                    /\ run'[p].file = NoFile /\ run'[p].start = 0
                 \/ /\ f \in Present /\ Now(p, "query", run[p].found, run[p].todo \ {f}, {})
                    /\ Has(p, f, disk[f], 0)
<1>1. run[p] \in RunType /\ Stored /\ Counted /\ run \in [Proc -> RunType]
  BY TypesAre
<1>2. /\ run[p].at = "next" /\ run[p].file = NoFile /\ run[p].gone = {} /\ run[p].start = 0
      /\ Keeps /\ UNCHANGED <<runs, faults, astray, job>>
  BY DEF Read, Shape, Keeps, tables
<1>3. Stored' /\ Counted'
  BY <1>1, <1>2, KeptStored DEF Keeps, Counted
<1>4. PICK f \in run[p].todo :
        Set(p, IF f \notin Present THEN [run[p] EXCEPT !.todo = @ \ {f}]
               ELSE [run[p] EXCEPT !.at = "query", !.todo = @ \ {f}, !.file = f, !.seen = disk[f]])
  BY DEF Read
<1>5. CASE f \notin Present
  <2> DEFINE r == [run[p] EXCEPT !.todo = @ \ {f}]
  <2>1. /\ r \in RunType /\ r.at = "next" /\ r.found = run[p].found /\ r.todo = run[p].todo \ {f} /\ r.gone = {}
        /\ r.file = NoFile /\ r.alone = run[p].alone /\ r.start = 0
    BY <1>1, <1>2 DEF RunType
  <2>2. Set(p, r)
    BY <1>4, <1>5
  <2> HIDE DEF r
  <2> QED
    BY <1>1, <1>2, <1>3, <1>5, <2>1, <2>2, Typed DEF Now
<1>6. CASE f \in Present
  <2> DEFINE r == [run[p] EXCEPT !.at = "query", !.todo = @ \ {f}, !.file = f, !.seen = disk[f]]
  <2>1. f \in File /\ disk[f] \in Row
    BY <1>1, <1>6 DEF Present, Stored, Missing
  <2>2. /\ r \in RunType /\ r.at = "query" /\ r.found = run[p].found /\ r.todo = run[p].todo \ {f} /\ r.gone = {}
        /\ r.file = f /\ r.seen = disk[f] /\ r.alone = run[p].alone /\ r.start = 0
    BY <1>1, <1>2, <2>1 DEF RunType, Seen, Places
  <2>3. Set(p, r)
    BY <1>4, <1>6
  <2> HIDE DEF r
  <2> QED
    BY <1>1, <1>2, <1>3, <1>6, <2>2, <2>3, Typed DEF Now, Has
<1> QED
  BY <1>5, <1>6

\* The end of a file, and the step to the next place with it.
LEMMA NextFileSet ==
    ASSUME run \in [Proc -> RunType], NEW p \in Proc, Stored', Counted', Set(p, NextFile(run[p]))
    PROVE  /\ TypeOK' /\ Others(p) /\ Now(p, "next", run[p].found, run[p].todo, run[p].gone) /\ Has(p, NoFile, NoRow, 0)
<1> DEFINE r == NextFile(run[p])
<1>1. /\ r \in RunType /\ r.at = "next" /\ r.file = NoFile /\ r.seen = NoRow /\ r.start = 0
      /\ r.found = run[p].found /\ r.todo = run[p].todo /\ r.gone = run[p].gone /\ r.alone = run[p].alone
  BY NextFileIs
<1> HIDE DEF r
<1>2. Set(p, r)
  BY DEF r
<1> QED
  BY <1>1, <1>2, Typed DEF Now, Has

LEMMA AtSet ==
    ASSUME run \in [Proc -> RunType], NEW p \in Proc, NEW a \in Places, Stored', Counted', Set(p, [run[p] EXCEPT !.at = a])
    PROVE  /\ TypeOK' /\ Others(p) /\ Now(p, a, run[p].found, run[p].todo, run[p].gone)
           /\ Has(p, run[p].file, run[p].seen, run[p].start)
<1> DEFINE r == [run[p] EXCEPT !.at = a]
<1>1. /\ r \in RunType /\ r.at = a /\ r.file = run[p].file /\ r.seen = run[p].seen /\ r.start = run[p].start
      /\ r.found = run[p].found /\ r.todo = run[p].todo /\ r.gone = run[p].gone /\ r.alone = run[p].alone
  BY DEF RunType
<1>2. Set(p, r)
  OBVIOUS
<1> HIDE DEF r
<1> QED
  BY <1>1, <1>2, Typed DEF Now, Has

\* A run that reads a file has it.
LEMMA AtHand ==
    ASSUME TypeOK, NEW p \in Proc, Shape(p), run[p].at \in Reading
    PROVE  /\ run[p].file \in File /\ run[p].file \in run[p].found /\ run[p].seen \in Row /\ run[p].gone = {}
           /\ run[p].seen.sha \in Content
<1>1. run[p] \in RunType
  BY TypesAre
<1> QED
  BY <1>1, RowsAre DEF Shape, RunType, Reading, Seen

\* Query skips the file or goes on with it.
LEMMA QueryIs ==
    ASSUME TypeOK, NEW p \in Proc, Shape(p), Query(p)
    PROVE  /\ TypeOK' /\ Others(p) /\ Keeps /\ run[p].at = "query" /\ Touch(p, run[p].file)
           /\ \/ /\ Skips(state[run[p].file], run[p].seen)
                 /\ Now(p, "next", run[p].found, run[p].todo, {}) /\ Has(p, NoFile, NoRow, 0)
              \/ /\ Now(p, "delete", run[p].found, run[p].todo, {}) /\ Has(p, run[p].file, run[p].seen, 0)
<1>1. run[p] \in RunType /\ Stored /\ Counted /\ run \in [Proc -> RunType]
  BY TypesAre
<1>2. run[p].at = "query" /\ run[p].start = 0 /\ Keeps /\ Touch(p, run[p].file) /\ UNCHANGED <<runs, faults, job>>
  BY DEF Query, Shape, Keeps, tables
<1>3. run[p].file \in File /\ run[p].gone = {}
  BY <1>2, AtHand DEF Reading
<1>4. Stored' /\ Counted'
  BY <1>1, <1>2, <1>3, KeptStored, TouchIs DEF Keeps, Counted
<1>5. CASE Skips(state[run[p].file], run[p].seen) /\ Set(p, NextFile(run[p]))
  BY <1>1, <1>2, <1>3, <1>4, <1>5, NextFileSet
<1>6. CASE Set(p, [run[p] EXCEPT !.at = "delete"])
  BY <1>1, <1>2, <1>3, <1>4, <1>6, AtSet, PlacesAre
<1> QED
  BY <1>5, <1>6 DEF Query

\* The chunks of the file go.
LEMMA DeleteIs ==
    ASSUME TypeOK, NEW p \in Proc, Shape(p), DeleteChunks(p)
    PROVE  /\ TypeOK' /\ Others(p) /\ UNCHANGED <<disk, state, watch>> /\ run[p].at = "delete" /\ Touch(p, run[p].file)
           /\ chunks' = {k \in chunks : k.file # run[p].file}
           /\ Now(p, "upsert", run[p].found, run[p].todo, {}) /\ Has(p, run[p].file, run[p].seen, 0)
<1>1. run[p] \in RunType /\ Stored /\ Counted /\ run \in [Proc -> RunType]
  BY TypesAre
<1>2. /\ run[p].at = "delete" /\ run[p].start = 0 /\ UNCHANGED <<disk, state, watch, runs, faults, job>>
      /\ Touch(p, run[p].file) /\ chunks' = {k \in chunks : k.file # run[p].file}
      /\ Set(p, [run[p] EXCEPT !.at = "upsert"])
  BY DEF DeleteChunks, Shape
<1>3. run[p].file \in File /\ run[p].gone = {}
  BY <1>2, AtHand DEF Reading
<1>4. Stored'
  BY <1>1, <1>2 DEF Stored, ChunkType
<1>5. Counted'
  BY <1>1, <1>2, <1>3, TouchIs DEF Counted
<1> QED
  BY <1>1, <1>2, <1>3, <1>4, <1>5, AtSet, PlacesAre

\* A run that ends a file takes it out of `astray', or marks it.
Leaves(p, f) == IF run[p].alone THEN astray' = astray \ {f} ELSE Touch(p, f)
LEMMA LeavesIs ==
    ASSUME astray \subseteq File, NEW p, NEW f \in File, Leaves(p, f)
    PROVE  astray' \subseteq File /\ \A g \in File \ {f} : g \in astray' <=> g \in astray
BY DEF Leaves, Touch

\* The row is replaced; an empty file is done with.
LEMMA UpsertIs ==
    ASSUME TypeOK, NEW p \in Proc, Shape(p), Upsert(p)
    PROVE  /\ TypeOK' /\ Others(p) /\ UNCHANGED <<disk, chunks, watch>> /\ run[p].at = "upsert"
           /\ state' = [state EXCEPT ![run[p].file] = run[p].seen]
           /\ \/ /\ Starts(run[p].seen.sha) = {} /\ Leaves(p, run[p].file)
                 /\ Now(p, "next", run[p].found, run[p].todo, {}) /\ Has(p, NoFile, NoRow, 0)
              \/ /\ Starts(run[p].seen.sha) # {} /\ Touch(p, run[p].file)
                 /\ Now(p, "insert", run[p].found, run[p].todo, {}) /\ Has(p, run[p].file, run[p].seen, 0)
<1>1. run[p] \in RunType /\ Stored /\ Counted /\ run \in [Proc -> RunType]
  BY TypesAre
<1>2. /\ run[p].at = "upsert" /\ run[p].start = 0 /\ UNCHANGED <<disk, chunks, watch, runs, faults, job>>
      /\ state' = [state EXCEPT ![run[p].file] = run[p].seen]
  BY DEF Upsert, Shape
<1>3. run[p].file \in File /\ run[p].gone = {} /\ run[p].seen \in Row
  BY <1>2, AtHand DEF Reading
<1>4. Stored'
  BY <1>1, <1>2, <1>3 DEF Stored, ChunkType, Seen
<1>5. CASE Starts(run[p].seen.sha) = {}
  <2>1. Set(p, NextFile(run[p])) /\ Leaves(p, run[p].file)
    BY <1>5 DEF Upsert, Leaves, Right
  <2>2. Counted'
    BY <1>1, <1>2, <1>3, <2>1, LeavesIs DEF Counted
  <2> QED
    BY <1>1, <1>2, <1>3, <1>4, <1>5, <2>1, <2>2, NextFileSet
<1>6. CASE Starts(run[p].seen.sha) # {}
  <2>1. Set(p, [run[p] EXCEPT !.at = "insert"]) /\ Touch(p, run[p].file)
    BY <1>6 DEF Upsert
  <2>2. Counted'
    BY <1>1, <1>2, <1>3, <2>1, TouchIs DEF Counted
  <2> QED
    BY <1>1, <1>2, <1>3, <1>4, <1>6, <2>1, <2>2, AtSet, PlacesAre
<1> QED
  BY <1>5, <1>6

\* A chunk comes; after the last the file is done with.
LEMMA InsertIs ==
    ASSUME TypeOK, NEW p \in Proc, Shape(p), InsertChunk(p)
    PROVE  /\ TypeOK' /\ Others(p) /\ UNCHANGED <<disk, state, watch>> /\ run[p].at = "insert"
           /\ chunks' = chunks \cup {[file |-> run[p].file, sha |-> run[p].seen.sha, start |-> run[p].start, by |-> p]}
           /\ \/ /\ run[p].start = Last(run[p].seen.sha) /\ Leaves(p, run[p].file)
                 /\ Now(p, "next", run[p].found, run[p].todo, {}) /\ Has(p, NoFile, NoRow, 0)
              \/ /\ run[p].start # Last(run[p].seen.sha) /\ Touch(p, run[p].file)
                 /\ Now(p, "insert", run[p].found, run[p].todo, {})
                 /\ Has(p, run[p].file, run[p].seen, run[p].start + Stride)
<1>1. run[p] \in RunType /\ Stored /\ Counted /\ run \in [Proc -> RunType]
  BY TypesAre
<1>2. /\ run[p].at = "insert" /\ run[p].start \in Starts(run[p].seen.sha)
      /\ UNCHANGED <<disk, state, watch, runs, faults, job>>
      /\ chunks' = chunks \cup {[file |-> run[p].file, sha |-> run[p].seen.sha, start |-> run[p].start, by |-> p]}
  BY DEF InsertChunk, Shape
<1>3. run[p].file \in File /\ run[p].gone = {} /\ run[p].seen \in Row /\ run[p].seen.sha \in Content
  BY <1>2, AtHand DEF Reading
<1>4. Stored'
  BY <1>1, <1>2, <1>3 DEF Stored, ChunkType
<1>5. CASE run[p].start = Last(run[p].seen.sha)
  <2>1. Set(p, NextFile(run[p])) /\ Leaves(p, run[p].file)
    BY <1>5 DEF InsertChunk, Leaves, Right
  <2>2. Counted'
    BY <1>1, <1>2, <1>3, <2>1, LeavesIs DEF Counted
  <2> QED
    BY <1>1, <1>2, <1>3, <1>4, <1>5, <2>1, <2>2, NextFileSet
<1>6. CASE run[p].start # Last(run[p].seen.sha)
  <2> DEFINE r == [run[p] EXCEPT !.start = @ + ChunkSize - Overlap]
  <2>1. Set(p, r) /\ Touch(p, run[p].file)
    BY <1>6 DEF InsertChunk
  <2>2. Counted'
    BY <1>1, <1>2, <1>3, <2>1, TouchIs DEF Counted
  <2>3. run[p].start \in Nat /\ run[p].start + ChunkSize - Overlap = run[p].start + Stride /\ run[p].start + Stride \in Nat
    BY <1>1, IndexingAssumption, StrideIs DEF RunType
  <2>4. /\ r \in RunType /\ r.at = "insert" /\ r.file = run[p].file /\ r.seen = run[p].seen /\ r.start = run[p].start + Stride
        /\ r.found = run[p].found /\ r.todo = run[p].todo /\ r.gone = {} /\ r.alone = run[p].alone
    BY <1>1, <1>2, <1>3, <2>3 DEF RunType
  <2> HIDE DEF r
  <2> QED
    BY <1>1, <1>2, <1>4, <1>6, <2>1, <2>2, <2>4, Typed DEF Now, Has
<1> QED
  BY <1>5, <1>6

\* A failed statement marks the file.
LEMMA FailIs ==
    ASSUME TypeOK, NEW p \in Proc, Shape(p), FileFails(p)
    PROVE  /\ TypeOK' /\ Others(p) /\ Keeps /\ run[p].at \in Reading /\ astray' = astray \cup {run[p].file}
           /\ Now(p, "next", run[p].found, run[p].todo, {}) /\ Has(p, NoFile, NoRow, 0)
<1>1. run[p] \in RunType /\ Stored /\ Counted /\ run \in [Proc -> RunType]
  BY TypesAre
<1>2. /\ run[p].at \in Reading /\ Keeps /\ UNCHANGED <<runs, job>> /\ Fault
      /\ astray' = astray \cup {run[p].file} /\ Set(p, NextFile(run[p]))
  BY DEF FileFails, Reading, Keeps, tables
<1>3. run[p].file \in File /\ run[p].gone = {}
  BY <1>2, AtHand
<1>4. Stored' /\ Counted'
  BY <1>1, <1>2, <1>3, KeptStored, FaultIs DEF Keeps, Counted
<1> QED
  BY <1>1, <1>2, <1>3, <1>4, NextFileSet

\* What has gone since it was indexed.
Old(p) == {f \in File \ run[p].found : state[f] # NoRow}
\* The rows of what was not found are listed, and cleaned up one by one.
LEMMA ListIs ==
    ASSUME TypeOK, NEW p \in Proc, Shape(p), List(p)
    PROVE  /\ TypeOK' /\ Others(p) /\ Keeps /\ run[p].at = "next" /\ run[p].todo = {} /\ run[p].file = NoFile
           /\ astray' = astray \cup {f \in File \ run[p].found : \E q \in Alive \ {p} : run[q].file = f}
           /\ Now(p, "clean", run[p].found, {}, Old(p)) /\ run'[p].file = NoFile /\ run'[p].start = 0
<1>1. run[p] \in RunType /\ Stored /\ Counted /\ run \in [Proc -> RunType]
  BY TypesAre
<1> DEFINE r == [run[p] EXCEPT !.at = "clean", !.gone = Old(p)]
<1>2. /\ run[p].at = "next" /\ run[p].todo = {} /\ run[p].file = NoFile /\ run[p].start = 0
      /\ Keeps /\ UNCHANGED <<runs, faults, job>>
      /\ astray' = astray \cup {f \in File \ run[p].found : \E q \in Alive \ {p} : run[q].file = f}
  BY DEF List, Shape, Keeps, tables
<1>3. Set(p, r)
  BY DEF List, Old
<1>4. Stored' /\ Counted'
  BY <1>1, <1>2, KeptStored DEF Keeps, Counted
<1>5. Old(p) \subseteq File
  BY DEF Old
<1>6. /\ r \in RunType /\ r.at = "clean" /\ r.found = run[p].found /\ r.todo = {} /\ r.gone = Old(p)
      /\ r.file = NoFile /\ r.alone = run[p].alone /\ r.start = 0
  BY <1>1, <1>2, <1>5 DEF RunType, Places
<1> HIDE DEF r
<1> QED
  BY <1>1, <1>2, <1>3, <1>4, <1>6, Typed DEF Now

LEMMA CleanIs ==
    ASSUME TypeOK, NEW p \in Proc, Shape(p), CleanChunks(p)
    PROVE  /\ TypeOK' /\ Others(p) /\ UNCHANGED <<disk, state, watch>> /\ run[p].at = "clean"
           /\ run[p].todo = {} /\ run[p].file = NoFile
           /\ \E f \in run[p].gone :
                 /\ chunks' = {k \in chunks : k.file # f} /\ Touch(p, f)
                 /\ Now(p, "forget", run[p].found, {}, run[p].gone \ {f}) /\ run'[p].file = f /\ run'[p].start = 0
<1>1. run[p] \in RunType /\ Stored /\ Counted /\ run \in [Proc -> RunType]
  BY TypesAre
<1>2. /\ run[p].at = "clean" /\ run[p].todo = {} /\ run[p].file = NoFile /\ run[p].start = 0
      /\ UNCHANGED <<disk, state, watch, runs, faults, job>>
  BY DEF CleanChunks, Shape
<1>3. PICK f \in run[p].gone :
        /\ chunks' = {k \in chunks : k.file # f} /\ Touch(p, f)
        /\ Set(p, [run[p] EXCEPT !.at = "forget", !.gone = @ \ {f}, !.file = f])
  BY DEF CleanChunks
<1> DEFINE r == [run[p] EXCEPT !.at = "forget", !.gone = @ \ {f}, !.file = f]
<1>4. f \in File
  BY <1>1 DEF RunType
<1>5. Stored'
  BY <1>1, <1>2, <1>3 DEF Stored, ChunkType
<1>6. Counted'
  BY <1>1, <1>2, <1>3, <1>4, TouchIs DEF Counted
<1>7. /\ r \in RunType /\ r.at = "forget" /\ r.found = run[p].found /\ r.todo = {} /\ r.gone = run[p].gone \ {f}
      /\ r.file = f /\ r.alone = run[p].alone /\ r.start = 0
  BY <1>1, <1>2, <1>4 DEF RunType, Places
<1>8. Set(p, r)
  BY <1>3
<1> HIDE DEF r
<1> QED
  BY <1>1, <1>2, <1>3, <1>5, <1>6, <1>7, <1>8, Typed DEF Now

LEMMA ForgetIs ==
    ASSUME TypeOK, NEW p \in Proc, Shape(p), CleanRow(p)
    PROVE  /\ TypeOK' /\ Others(p) /\ UNCHANGED <<disk, chunks, watch>> /\ run[p].at = "forget"
           /\ run[p].todo = {} /\ run[p].file \in File \ run[p].found
           /\ state' = [state EXCEPT ![run[p].file] = NoRow] /\ Touch(p, run[p].file)
           /\ Now(p, "clean", run[p].found, {}, run[p].gone) /\ run'[p].file = NoFile /\ run'[p].start = 0
<1>1. run[p] \in RunType /\ Stored /\ Counted /\ run \in [Proc -> RunType]
  BY TypesAre
<1> DEFINE r == [run[p] EXCEPT !.at = "clean", !.file = NoFile]
<1>2. /\ run[p].at = "forget" /\ run[p].todo = {} /\ run[p].file \in File \ run[p].found /\ run[p].start = 0
      /\ UNCHANGED <<disk, chunks, watch, runs, faults, job>>
      /\ state' = [state EXCEPT ![run[p].file] = NoRow] /\ Touch(p, run[p].file)
  BY DEF CleanRow, Shape
<1>3. Set(p, r)
  BY DEF CleanRow
<1>4. Stored'
  BY <1>1, <1>2 DEF Stored, ChunkType, Seen
<1>5. Counted'
  BY <1>1, <1>2, TouchIs DEF Counted
<1>6. /\ r \in RunType /\ r.at = "clean" /\ r.found = run[p].found /\ r.todo = {} /\ r.gone = run[p].gone
      /\ r.file = NoFile /\ r.alone = run[p].alone /\ r.start = 0
  BY <1>1, <1>2 DEF RunType, Places
<1> HIDE DEF r
<1> QED
  BY <1>1, <1>2, <1>3, <1>4, <1>5, <1>6, Typed DEF Now

\* A run ends.
LEMMA FinishIs ==
    ASSUME TypeOK, NEW p \in Proc, Shape(p), Finish(p)
    PROVE  /\ TypeOK' /\ Others(p) /\ Keeps /\ run[p].at \in {"clean", "forget"} /\ run[p].todo = {}
           /\ run'[p] = Idle
           /\ \/ run[p].at = "clean" /\ run[p].gone = {} /\ astray' = astray
              \/ astray' = astray \cup (File \ run[p].found)
<1>1. run[p] \in RunType /\ Stored /\ Counted /\ run \in [Proc -> RunType]
  BY TypesAre
<1>2. /\ run[p].at \in {"clean", "forget"} /\ run[p].todo = {} /\ Keeps /\ UNCHANGED runs
      /\ Set(p, Idle) /\ Report(p, "completed")
      /\ \/ run[p].at = "clean" /\ run[p].gone = {} /\ UNCHANGED <<faults, astray>>
         \/ Fault /\ astray' = astray \cup (File \ run[p].found)
  BY DEF Finish, Shape, Keeps, tables
<1>3. Stored' /\ Counted'
  BY <1>1, <1>2, KeptStored, FaultIs, ReportIs DEF Keeps, Counted
<1> QED
  BY <1>1, <1>2, <1>3, NobodyIs, Typed

-----------------------------------------------------------------------------
(* What a step leaves as it was *)

\* A run's step neither wakes another nor makes it alone.
LEMMA AloneKept ==
    ASSUME Alone, NEW p \in Proc, Others(p), run[p].at # "free",
           run'[p].alone = run[p].alone \/ run'[p].at = "free"
    PROVE  Alone'
BY DEF Alone, Others, Alive

LEMMA OthersKeepShape ==
    ASSUME \A q \in Proc : Shape(q), NEW p \in Proc, Others(p), Shape(p)'
    PROVE  \A q \in Proc : Shape(q)'
<1>1. ASSUME NEW q \in Proc \ {p} PROVE Shape(q)'
  BY <1>1 DEF Others, Shape
<1> QED
  BY <1>1

\* Of another file nothing changes.
Elsewhere(f) == state'[f] = state[f] /\ disk'[f] = disk[f] /\ Of(f)' = Of(f) /\ (f \in astray => f \in astray')

\* A file the step is not about agrees as it did.
LEMMA AgreeKept == ASSUME NEW f \in File, state'[f] = state[f], Of(f)' = Of(f) PROVE Agree(f)' <=> Agree(f)
<1>1. Whole(f)' = Whole(f)
  BY DEF Whole
<1>2. Chunked(f) = {<<k.sha, k.start>> : k \in Of(f)} /\ Chunked(f)' = {<<k.sha, k.start>> : k \in Of(f)'}
  BY DEF Chunked, Of
<1> QED
  BY <1>1, <1>2 DEF Agree, Distinct

LEMMA TablesElsewhere ==
    ASSUME NEW f \in File, Tables(f), NEW p \in Proc, Others(p), Elsewhere(f),
           run[p].file = f => run[p].at = "query", run'[p].file = f => run'[p].at = "query"
    PROVE  Tables(f)'
<1>2. Agree(f)' <=> Agree(f)
  BY AgreeKept DEF Elsewhere
<1>3. \A q \in Proc : (Past(q, f)' <=> Past(q, f)) /\ (Busy(q, f)' <=> Busy(q, f))
  BY DEF Past, Busy, Others
<1> QED
  BY <1>2, <1>3 DEF Tables, Elsewhere, Follows

LEMMA RunsElsewhere ==
    ASSUME NEW q \in Proc, Runs(q), run'[q] = run[q], NEW f \in File, f = run[q].file, Elsewhere(f), watch' = watch
    PROVE  Runs(q)'
BY DEF Runs, Elsewhere, Written, Follows

\* Of the file at hand another run knows nothing, or the step marks it.
LEMMA RunsBeside ==
    ASSUME TypeOK, Alone, NEW p \in Proc, NEW f \in File, run[p].at # "free", Leaves(p, f) \/ Touch(p, f) \/ f \in astray',
           NEW q \in Proc \ {p}, run[q].file = f, run[q].at # "free"
    PROVE  ~run[q].alone /\ f \in astray'
<1>1. p \in Alive /\ q \in Alive /\ ~run[p].alone /\ ~run[q].alone
  BY DEF Alone, Alive
<1>2. Beside(p, f) /\ (Touch(p, f) \/ f \in astray')
  BY <1>1 DEF Leaves, Beside
<1> QED
  BY <1>1, <1>2 DEF Touch

\* The runs beside one that leaves the file f.
LEMMA RunsKept ==
    ASSUME TypeOK, Alone, \A q \in Proc : Shape(q) /\ Runs(q), NEW p \in Proc, NEW f \in File, run[p].at # "free",
           Others(p), Leaves(p, f) \/ Touch(p, f) \/ f \in astray', watch' = watch,
           \A g \in File \ {f} : Elsewhere(g), Runs(p)'
    PROVE  \A q \in Proc : Runs(q)'
<1> SUFFICES ASSUME NEW q \in Proc \ {p} PROVE Runs(q)'
  OBVIOUS
<1>1. run'[q] = run[q] /\ run[q] \in RunType
  BY TypesAre DEF Others
<1>2. CASE run[q].file = NoFile
  BY <1>1, <1>2 DEF Runs
<1>3. CASE run[q].file \in File \ {f}
  BY <1>1, <1>3, RunsElsewhere
<1>4. CASE run[q].file = f
  <2>1. run[q].at # "free" /\ f # NoFile
    BY <1>4, IndexingAssumption DEF Shape
  <2>2. ~run[q].alone /\ f \in astray'
    BY <1>4, <2>1, RunsBeside
  <2> QED
    BY <1>1, <1>4, <2>2 DEF Runs
<1> QED
  BY <1>1, <1>2, <1>3, <1>4 DEF RunType

\* Who leaves a file unmarked has had nobody beside him.
LEMMA NobodyBeside ==
    ASSUME TypeOK, Alone, \A q \in Proc : Shape(q), NEW p \in Proc, NEW f \in File, run[p].at # "free",
           Leaves(p, f) \/ Touch(p, f), f \notin astray'
    PROVE  \A q \in Proc \ {p} : run[q].file # f /\ (run[q].at \in {"free", "scan"} \/ f \in run[q].found)
<1> SUFFICES ASSUME NEW q \in Proc \ {p}
             PROVE  run[q].file # f /\ (run[q].at \in {"free", "scan"} \/ f \in run[q].found)
  OBVIOUS
<1>1. CASE run[q].at = "free"
  BY <1>1, IndexingAssumption DEF Shape
<1>2. CASE run[q].at # "free"
  <2>1. ~run[p].alone
    BY <1>2 DEF Alone, Alive
  <2>2. ~Beside(p, f)
    BY <2>1 DEF Leaves, Touch
  <2> QED
    BY <1>2, <2>2 DEF Beside, Alive
<1> QED
  BY <1>1, <1>2

\* Then the file is settled, if its row is right.
LEMMA SettledNow ==
    ASSUME TypeOK, Alone, \A q \in Proc : Shape(q), NEW p \in Proc, NEW f \in File, run[p].at # "free",
           Leaves(p, f) \/ Touch(p, f), f \notin astray', Others(p), disk'[f] = disk[f],
           state'[f].sha = disk[f].sha, run'[p].file = f => run'[p].at = "insert",
           f \in Present => f \in run'[p].found
    PROVE  Settled(f)'
<1>1. \A q \in Proc \ {p} : run'[q].file # f /\ (run'[q].at \in {"free", "scan"} \/ f \in run'[q].found)
  BY NobodyBeside DEF Others
<1> QED
  BY <1>1 DEF Settled, Present

\* Where nothing is touched but p, whose file is f or none.
LEMMA RunsUntouched ==
    ASSUME TypeOK, \A q \in Proc : Runs(q), NEW p \in Proc, Others(p), watch' = watch,
           \A g \in File : Elsewhere(g), Runs(p)'
    PROVE  \A q \in Proc : Runs(q)'
<1> SUFFICES ASSUME NEW q \in Proc \ {p} PROVE Runs(q)'
  OBVIOUS
<1>1. run'[q] = run[q] /\ run[q] \in RunType
  BY TypesAre DEF Others
<1>2. CASE run[q].file = NoFile
  BY <1>1, <1>2 DEF Runs
<1>3. CASE run[q].file \in File
  BY <1>1, <1>3, RunsElsewhere
<1> QED
  BY <1>1, <1>2, <1>3 DEF RunType

\* What a settled file, and a run that will settle it, need of a step.
LEMMA SettledKept ==
    ASSUME NEW f \in File, Settled(f), NEW p \in Proc, Others(p), state'[f].sha = disk[f].sha, disk'[f] = disk[f],
           run'[p].file = f /\ run'[p].at \in {"query", "delete", "upsert"} => run'[p].seen.sha = disk[f].sha,
           f \in Present /\ run'[p].at \notin {"free", "scan"} => f \in run'[p].found
    PROVE  Settled(f)'
BY DEF Settled, Others, Present

LEMMA WillKept ==
    ASSUME NEW f \in File, NEW q \in Proc, Will(q, f), run'[q] = run[q], disk'[f] = disk[f]
    PROVE  Will(q, f)'
BY DEF Will, Present

\* A file stays current unless the step drops what settles it.
LEMMA CurrentKept ==
    ASSUME NEW f \in File, NEW p \in Proc, Others(p), disk'[f] = disk[f], watch' = watch, Current(f),
           f \in astray => f \in astray',
           Settled(f) => Settled(f)' \/ f \in astray',
           Will(p, f) => Will(p, f)' \/ Settled(f)' \/ f \in astray'
    PROVE  Current(f)'
<1>1. ASSUME f \notin astray' PROVE Settled(f)' \/ watch' = "timer" \/ \E q \in Proc : Will(q, f)'
  <2>1. CASE Settled(f) \/ watch = "timer"
    BY <1>1, <2>1
  <2>2. CASE \E q \in Proc : Will(q, f)
    <3>1. PICK q \in Proc : Will(q, f)
      BY <2>2
    <3>2. q # p => Will(q, f)'
      BY <3>1, WillKept DEF Others
    <3> QED
      BY <1>1, <3>1, <3>2
  <2> QED
    BY <1>1, <2>1, <2>2 DEF Current
<1> QED
  BY <1>1 DEF Current

-----------------------------------------------------------------------------
(* Each step of a run keeps the invariant *)

\* The parts of the invariant, of a step of p that says what happens to p, to
\* its file and to the others.
LEMMA Together ==
    ASSUME TypeOK', Alone', \A q \in Proc : Shape(q)', \A q \in Proc : Runs(q)',
           \A f \in File : Tables(f)', \A f \in File : Current(f)'
    PROVE  IInv'
BY DEF IInv

\* After a scan every file is listed, so the run will settle it.
LEMMA ScanKeeps == ASSUME IInv, NEW p \in Proc, Scan(p) PROVE IInv'
<1>1. /\ TypeOK /\ TypeOK' /\ Others(p) /\ Keeps /\ run[p].at = "scan" /\ run[p].file = NoFile
      /\ \/ Now(p, "next", Present, Present, {}) /\ run'[p].file = NoFile /\ astray' = astray
            /\ run'[p].start = run[p].start
         \/ run'[p] = Idle /\ astray' = File
      /\ run[p].start = 0 /\ astray \subseteq File
  BY ScanIs DEF IInv, Shape, TypeOK
<1>2. Alone'
  BY <1>1, AloneKept, NobodyIs DEF IInv, Now
<1>3. Shape(p)'
  BY <1>1, NobodyIs, IndexingAssumption DEF Shape, Now, Reading, Present
<1>4. \A q \in Proc : Shape(q)'
  BY <1>1, <1>3, OthersKeepShape DEF IInv
<1>5. \A g \in File : Elsewhere(g)
  BY <1>1 DEF Elsewhere, Keeps, Of
<1>6. Runs(p)'
  BY <1>1, NobodyIs DEF Runs
<1>7. \A q \in Proc : Runs(q)'
  BY <1>1, <1>5, <1>6, RunsUntouched DEF IInv, Keeps
<1>8. run'[p].file = NoFile
  BY <1>1, NobodyIs
<1>9. \A f \in File : Tables(f)'
  BY <1>1, <1>5, <1>8, TablesElsewhere, IndexingAssumption DEF IInv
<1>10. ASSUME NEW f \in File PROVE Current(f)'
  <2>1. CASE run'[p] = Idle /\ astray' = File
    BY <2>1 DEF Current
  <2>2. CASE Now(p, "next", Present, Present, {}) /\ astray' = astray
    <3>1. Settled(f) => Settled(f)'
      BY <1>1, <1>8, <2>2, SettledKept, IndexingAssumption DEF Settled, Now, Keeps
    <3>2. Will(p, f)'
      BY <1>1, <2>2 DEF Will, Now, Keeps, Present
    <3> QED
      BY <1>1, <2>2, <3>1, <3>2, CurrentKept DEF IInv, Keeps
  <2> QED
    BY <1>1, <2>1, <2>2
<1> QED
  BY <1>1, <1>2, <1>4, <1>7, <1>9, <1>10, Together

\* What was read is what the disk has; a file that has gone is not on the worklist.
LEMMA ReadKeeps == ASSUME IInv, NEW p \in Proc, Read(p) PROVE IInv'
<1>1. /\ TypeOK /\ TypeOK' /\ Others(p) /\ Keeps /\ astray' = astray /\ run[p].at = "next" /\ run[p].file = NoFile
      /\ Shape(p) /\ run[p].found \subseteq File /\ run[p].todo \subseteq run[p].found
  BY ReadIs, TypesAre DEF IInv, Shape, RunType
<1>2. PICK f \in run[p].todo :
        \/ /\ f \notin Present /\ Now(p, "next", run[p].found, run[p].todo \ {f}, {})
           /\ run'[p].file = NoFile /\ run'[p].start = 0
        \/ /\ f \in Present /\ Now(p, "query", run[p].found, run[p].todo \ {f}, {})
           /\ Has(p, f, disk[f], 0)
  BY ReadIs DEF IInv
<1>3. f \in File /\ f # NoFile /\ (f \in Present => disk[f] \in Row)
  BY <1>1, <1>2, IndexingAssumption DEF Present, TypeOK, Missing
<1>4. Alone'
  BY <1>1, <1>2, AloneKept DEF IInv, Now
<1>5. Shape(p)'
  BY <1>1, <1>2, <1>3, RowsAre DEF Shape, Now, Has, Reading
<1>6. \A q \in Proc : Shape(q)'
  BY <1>1, <1>5, OthersKeepShape DEF IInv
<1>7. \A g \in File : Elsewhere(g)
  BY <1>1 DEF Elsewhere, Keeps, Of
<1>8. Runs(p)'
  <2>1. CASE run'[p].file = NoFile
    BY <2>1 DEF Runs
  <2>2. CASE f \in Present /\ Now(p, "query", run[p].found, run[p].todo \ {f}, {}) /\ Has(p, f, disk[f], 0)
    <3>1. Written(p, f)'
      BY <2>2 DEF Written, Now
    <3>2. Follows(disk[f], f)'
      BY <1>1, <1>3, <2>2, RowsAre DEF Follows, Keeps
    <3>3. f \notin astray /\ state[f] # NoRow /\ state[f].mtime = disk[f].mtime => state[f].sha = disk[f].sha
      BY <1>3, <2>2 DEF IInv, Tables, Follows, Present
    <3> QED
      BY <1>1, <2>2, <3>1, <3>2, <3>3 DEF Runs, Now, Has, Keeps, Follows
  <2> QED
    BY <1>2, <2>1, <2>2
<1>9. \A q \in Proc : Runs(q)'
  BY <1>1, <1>7, <1>8, RunsUntouched DEF IInv, Keeps
<1>10. \A g \in File : Tables(g)'
  BY <1>1, <1>2, <1>7, TablesElsewhere, IndexingAssumption DEF IInv, Now, Has
<1>11. ASSUME NEW g \in File PROVE Current(g)'
  <2>1. Settled(g) => Settled(g)'
    <3>1. run'[p].file = g => run'[p].seen.sha = disk[g].sha
      BY <1>2, <1>3, IndexingAssumption DEF Has
    <3>2. ASSUME Settled(g) PROVE g \in Present => g \in run'[p].found
      BY <1>1, <1>2, <3>2 DEF Settled, Now
    <3> QED
      BY <1>1, <3>1, <3>2, SettledKept DEF Settled, Keeps
  <2>2. ASSUME Will(p, g) PROVE Will(p, g)'
    <3>1. CASE g \in Present
      <4>1. g \in run[p].todo
        BY <1>1, <1>3, <2>2, <3>1 DEF Will
      <4> QED
        BY <1>1, <1>2, <3>1, <4>1 DEF Will, Now, Has, Keeps, Present
    <3>2. CASE g \notin Present
      <4>1. g \notin run[p].found
        BY <1>1, <2>2, <3>2 DEF Will
      <4> QED
        BY <1>1, <1>2, <3>2, <4>1 DEF Will, Now, Keeps, Present, Reading
    <3> QED
      BY <3>1, <3>2
  <2> QED
    BY <1>1, <2>1, <2>2, CurrentKept DEF IInv, Keeps
<1> QED
  BY <1>1, <1>4, <1>6, <1>9, <1>10, <1>11, Together

\* What a run that reads a file finds of it, be it that it is alone.
LEMMA RunsAt ==
    ASSUME TypeOK, NEW p \in Proc, Shape(p), Runs(p), run[p].at \in Reading
    PROVE  LET f == run[p].file IN
           f \notin astray \/ run[p].alone =>
             /\ Written(p, f) /\ Follows(run[p].seen, f)
             /\ run[p].alone => watch = "timer" \/ run[p].seen.sha = disk[f].sha
             /\ run[p].at = "query" /\ f \notin astray /\ state[f] # NoRow /\ state[f].mtime = run[p].seen.mtime
                  => state[f].sha = run[p].seen.sha
<1>1. run[p].file # NoFile
  BY AtHand, IndexingAssumption
<1> QED
  BY <1>1 DEF Runs

\* A skipped file has what the disk has: by its hash, or by its mtime (Follows).
LEMMA QueryKeeps == ASSUME IInv, NEW p \in Proc, Query(p) PROVE IInv'
<1>1. /\ TypeOK /\ TypeOK' /\ Others(p) /\ Keeps /\ run[p].at = "query" /\ Shape(p) /\ astray \subseteq File
      /\ run[p].todo \subseteq run[p].found /\ Alone /\ (\A q \in Proc : Shape(q) /\ Runs(q)) /\ run[p].at \in Reading
  BY QueryIs DEF IInv, Shape, TypeOK, Reading
<1>2. PICK f \in File : f = run[p].file /\ f # NoFile /\ f \in run[p].found
  BY <1>1, AtHand, IndexingAssumption
<1>3. /\ Touch(p, f)
      /\ \/ /\ Skips(state[f], run[p].seen)
            /\ Now(p, "next", run[p].found, run[p].todo, {}) /\ Has(p, NoFile, NoRow, 0)
         \/ /\ Now(p, "delete", run[p].found, run[p].todo, {}) /\ Has(p, f, run[p].seen, 0)
      /\ run[p].seen \in Row
  BY <1>1, <1>2, QueryIs, AtHand
<1>4. Alone'
  BY <1>1, <1>3, AloneKept DEF Now
<1>5. Shape(p)'
  BY <1>1, <1>2, <1>3, RowsAre DEF Shape, Now, Has, Reading
<1>6. \A q \in Proc : Shape(q)'
  BY <1>1, <1>5, OthersKeepShape
<1>7. \A g \in File : Elsewhere(g) /\ (g # f /\ g \in astray' => g \in astray)
  BY <1>1, <1>2, <1>3, TouchIs DEF Elsewhere, Keeps, Of
<1>8. Runs(p)'
  <2>1. CASE run'[p].file = NoFile
    BY <2>1 DEF Runs
  <2>2. CASE Now(p, "delete", run[p].found, run[p].todo, {}) /\ Has(p, f, run[p].seen, 0)
    <3>1. Written(p, f)'
      BY <2>2 DEF Written, Now
    <3>2. f \notin astray \/ run[p].alone =>
            /\ Follows(run[p].seen, f) /\ (run[p].alone => watch = "timer" \/ run[p].seen.sha = disk[f].sha)
      BY <1>1, <1>2, RunsAt
    <3> QED
      BY <1>1, <1>7, <2>2, <3>1, <3>2 DEF Runs, Now, Has, Keeps, Follows, Elsewhere
  <2> QED
    BY <1>3, <2>1, <2>2 DEF Has
<1>9. \A q \in Proc : Runs(q)'
  BY <1>1, <1>3, <1>7, <1>8, RunsKept DEF Keeps
<1>10. ASSUME NEW g \in File PROVE Tables(g)'
  <2>1. CASE g # f
    BY <1>1, <1>2, <1>3, <1>7, <2>1, TablesElsewhere, IndexingAssumption DEF IInv, Has
  <2>2. CASE g = f
    <3> SUFFICES ASSUME f \notin astray' PROVE Tables(f)'
      BY <2>2 DEF Tables
    <3>1. \A q \in Proc \ {p} : run'[q].file # f
      BY <1>1, <1>3, NobodyBeside DEF Others
    <3>2. \A q \in Proc : ~Busy(q, f)
      BY <1>1, <1>3, NobodyBeside DEF Busy
    <3>3. f \notin astray
      BY <1>7 DEF Elsewhere
    <3>4. Agree(f)' /\ Follows(state[f], f)
      BY <1>7, <3>2, <3>3, AgreeKept DEF IInv, Tables, Elsewhere
    <3> QED
      BY <1>7, <3>1, <3>4 DEF Tables, Past, Elsewhere, Follows
  <2> QED
    BY <2>1, <2>2
<1>11. ASSUME NEW g \in File PROVE Current(g)'
  <2>1. Settled(g) => Settled(g)'
    <3>1. ASSUME Settled(g) PROVE run'[p].file = g => run'[p].seen.sha = disk[g].sha
      BY <1>1, <1>2, <1>3, <3>1, IndexingAssumption DEF Settled, Has
    <3>2. ASSUME Settled(g) PROVE g \in Present => g \in run'[p].found
      BY <1>1, <1>3, <3>2 DEF Settled, Now
    <3> QED
      BY <1>1, <3>1, <3>2, SettledKept DEF Settled, Keeps
  <2>2. ASSUME Will(p, g), g \notin astray' PROVE Will(p, g)' \/ Settled(g)'
    <3>1. CASE g \in run[p].todo /\ g \in Present
      BY <1>1, <1>3, <3>1 DEF Will, Now, Keeps, Present
    <3>2. CASE g \notin Present /\ g \notin run[p].found
      BY <1>1, <1>3, <3>2 DEF Will, Now, Keeps, Present, Reading
    <3>3. CASE g = f /\ g \in Present /\ run[p].seen.sha = disk[g].sha
      <4>1. CASE Now(p, "delete", run[p].found, run[p].todo, {}) /\ Has(p, f, run[p].seen, 0)
        BY <1>1, <3>3, <4>1 DEF Will, Now, Has, Keeps, Present
      <4>2. CASE /\ Skips(state[f], run[p].seen)
                 /\ Now(p, "next", run[p].found, run[p].todo, {}) /\ Has(p, NoFile, NoRow, 0)
        <5>1. f \notin astray
          BY <1>7, <2>2, <3>3 DEF Elsewhere
        <5>2. state[f].sha = disk[f].sha
          BY <1>1, <1>2, <3>3, <4>2, <5>1, RunsAt DEF Skips
        <5> QED
          BY <1>1, <1>2, <1>3, <2>2, <3>3, <4>2, <5>2, SettledNow DEF Now, Has, Keeps
      <4> QED
        BY <1>3, <4>1, <4>2
    <3> QED
      BY <1>1, <1>2, <2>2, <3>1, <3>2, <3>3 DEF Will
  <2> QED
    BY <1>1, <1>7, <2>1, <2>2, CurrentKept DEF IInv, Keeps, Elsewhere
<1> QED
  BY <1>1, <1>4, <1>6, <1>9, <1>10, <1>11, Together

\* What a step of p that leaves its places in the lists keeps of other files.
LEMMA CurrentElsewhere ==
    ASSUME TypeOK, NEW p \in Proc, Shape(p), NEW g \in File, Current(g), Others(p), watch' = watch, Elsewhere(g),
           run[p].file # g, run'[p].file # g, run[p].at \notin {"free", "scan"}, run'[p].at \notin {"free", "scan"},
           run'[p].found = run[p].found, g \in run[p].todo => g \in run'[p].todo, g \in run[p].gone => g \in run'[p].gone,
           run[p].at \in {"next"} \cup Reading => run'[p].at \in {"next"} \cup Reading
    PROVE  Current(g)'
<1>1. Settled(g) => Settled(g)'
  BY SettledKept DEF Settled, Elsewhere
<1>2. Will(p, g) => Will(p, g)'
  BY DEF Will, Elsewhere, Present
<1> QED
  BY <1>1, <1>2, CurrentKept DEF Elsewhere

\* Without its chunks the file is in the hands of one run.
LEMMA DeleteKeeps == ASSUME IInv, NEW p \in Proc, DeleteChunks(p) PROVE IInv'
<1>1. /\ TypeOK /\ TypeOK' /\ Others(p) /\ UNCHANGED <<disk, state, watch>> /\ run[p].at = "delete"
      /\ Shape(p) /\ astray \subseteq File
      /\ run[p].todo \subseteq run[p].found /\ Alone /\ (\A q \in Proc : Shape(q) /\ Runs(q)) /\ run[p].at \in Reading
  BY DeleteIs DEF IInv, Shape, TypeOK, Reading
<1>2. PICK f \in File : f = run[p].file /\ f # NoFile /\ f \in run[p].found
  BY <1>1, AtHand, IndexingAssumption
<1>3. /\ Touch(p, f) /\ chunks' = {k \in chunks : k.file # f}
      /\ Now(p, "upsert", run[p].found, run[p].todo, {}) /\ Has(p, f, run[p].seen, 0)
      /\ run[p].seen \in Row /\ run[p].gone = {}
  BY <1>1, <1>2, DeleteIs, AtHand
<1>4. Alone'
  BY <1>1, <1>3, AloneKept DEF Now
<1>5. Shape(p)'
  BY <1>1, <1>2, <1>3, RowsAre DEF Shape, Now, Has, Reading
<1>6. \A q \in Proc : Shape(q)'
  BY <1>1, <1>5, OthersKeepShape
<1>7. /\ \A g \in File \ {f} : Elsewhere(g) /\ (g \in astray' => g \in astray)
      /\ Of(f)' = {} /\ (f \in astray => f \in astray')
  BY <1>1, <1>3, TouchIs DEF Elsewhere, Of
<1>8. Runs(p)'
  <2>1. Written(p, f)'
    BY <1>3, <1>7 DEF Written, Now
  <2>2. f \notin astray \/ run[p].alone =>
          /\ Follows(run[p].seen, f) /\ (run[p].alone => watch = "timer" \/ run[p].seen.sha = disk[f].sha)
    BY <1>1, <1>2, RunsAt
  <2> QED
    BY <1>1, <1>3, <1>7, <2>1, <2>2 DEF Runs, Now, Has, Follows
<1>9. \A q \in Proc : Runs(q)'
  BY <1>1, <1>3, <1>7, <1>8, RunsKept
<1>10. ASSUME NEW g \in File PROVE Tables(g)'
  <2>1. CASE g # f
    BY <1>1, <1>2, <1>3, <1>7, <2>1, TablesElsewhere DEF IInv, Has
  <2>2. CASE g = f
    <3> SUFFICES ASSUME f \notin astray' PROVE Tables(f)'
      BY <2>2 DEF Tables
    <3>1. \A q \in Proc \ {p} : run'[q].file # f
      BY <1>1, <1>3, NobodyBeside DEF Others
    <3>2. Busy(p, f)'
      BY <1>3 DEF Busy, Now, Has
    <3>3. Follows(state[f], f)
      BY <1>7 DEF IInv, Tables
    <3> QED
      BY <1>1, <3>1, <3>2, <3>3 DEF Tables, Past, Follows
  <2> QED
    BY <2>1, <2>2
<1>11. ASSUME NEW g \in File PROVE Current(g)'
  <2>1. CASE g # f
    BY <1>1, <1>2, <1>3, <1>7, <2>1, CurrentElsewhere DEF IInv, Now, Has, Reading
  <2>2. CASE g = f
    <3>1. Settled(f) => Settled(f)'
      BY <1>1, <1>2, <1>3, SettledKept DEF Settled, Now, Has
    <3>2. Will(p, f) => Will(p, f)'
      BY <1>1, <1>2, <1>3 DEF Will, Now, Has, Present
    <3> QED
      BY <1>1, <1>7, <2>2, <3>1, <3>2, CurrentKept DEF IInv
  <2> QED
    BY <2>1, <2>2
<1> QED
  BY <1>1, <1>4, <1>6, <1>9, <1>10, <1>11, Together

\* A file that a run leaves unmarked was not marked, or the run has been alone.
LEMMA LeftClean ==
    ASSUME NEW p \in Proc, NEW f \in File, Leaves(p, f) \/ Touch(p, f), f \notin astray'
    PROVE  f \notin astray \/ run[p].alone
BY DEF Leaves, Touch

\* The row is now that of what was read, and no chunk is there yet.
LEMMA UpsertKeeps == ASSUME IInv, NEW p \in Proc, Upsert(p) PROVE IInv'
<1>1. /\ TypeOK /\ TypeOK' /\ Others(p) /\ UNCHANGED <<disk, chunks, watch>> /\ run[p].at = "upsert"
      /\ Shape(p) /\ astray \subseteq File /\ state \in [File -> Seen]
      /\ run[p].todo \subseteq run[p].found /\ Alone /\ (\A q \in Proc : Shape(q) /\ Runs(q)) /\ run[p].at \in Reading
  BY UpsertIs DEF IInv, Shape, TypeOK, Reading, Seen
<1>2. PICK f \in File : f = run[p].file /\ f # NoFile /\ f \in run[p].found
  BY <1>1, AtHand, IndexingAssumption
<1>3. PICK s \in Row : s = run[p].seen /\ s.sha \in Content /\ s # NoRow
  BY <1>1, AtHand, RowsAre
<1>4. /\ run[p].gone = {} /\ state' = [state EXCEPT ![f] = s]
      /\ \/ /\ Starts(s.sha) = {} /\ Leaves(p, f)
            /\ Now(p, "next", run[p].found, run[p].todo, {}) /\ Has(p, NoFile, NoRow, 0)
         \/ /\ Starts(s.sha) # {} /\ Touch(p, f)
            /\ Now(p, "insert", run[p].found, run[p].todo, {}) /\ Has(p, f, s, 0)
  BY <1>1, <1>2, <1>3, UpsertIs, AtHand
<1>5. Alone'
  BY <1>1, <1>4, AloneKept DEF Now
<1>6. Shape(p)'
  BY <1>1, <1>2, <1>3, <1>4, FirstStart DEF Shape, Now, Has, Reading
<1>7. \A q \in Proc : Shape(q)'
  BY <1>1, <1>6, OthersKeepShape
<1>8. /\ \A g \in File \ {f} : Elsewhere(g)
      /\ state'[f] = s /\ Of(f)' = Of(f)
  <2>1. \A g \in File \ {f} : g \in astray' <=> g \in astray
    BY <1>1, <1>4, LeavesIs DEF Touch
  <2> QED
    BY <1>1, <1>4, <2>1 DEF Elsewhere, Of
<1>9. f \notin astray \/ run[p].alone =>
        /\ Of(f) = {} /\ Follows(s, f) /\ (run[p].alone => watch = "timer" \/ s.sha = disk[f].sha)
  BY <1>1, <1>2, <1>3, RunsAt DEF Written
<1>10. Runs(p)'
  <2>1. CASE run'[p].file = NoFile
    BY <2>1 DEF Runs
  <2>2. CASE Starts(s.sha) # {} /\ Touch(p, f) /\ Now(p, "insert", run[p].found, run[p].todo, {}) /\ Has(p, f, s, 0)
    <3> SUFFICES ASSUME f \notin astray' \/ run[p].alone PROVE Runs(p)'
      BY <2>2 DEF Runs, Now, Has
    <3>1. f \notin astray \/ run[p].alone
      BY <2>2 DEF Touch
    <3>2. {i \in Starts(s.sha) : i < 0} = {}
      BY <1>3, <2>2, FirstStart
    <3>3. Written(p, f)'
      BY <1>8, <1>9, <2>2, <3>1, <3>2 DEF Written, Now, Has
    <3> QED
      BY <1>1, <1>9, <2>2, <3>1, <3>3 DEF Runs, Now, Has, Follows
  <2> QED
    BY <1>4, <2>1, <2>2 DEF Has
<1>11. \A q \in Proc : Runs(q)'
  BY <1>1, <1>4, <1>8, <1>10, RunsKept
<1>12. ASSUME NEW g \in File PROVE Tables(g)'
  <2>1. CASE g # f
    BY <1>1, <1>2, <1>4, <1>8, <2>1, TablesElsewhere, IndexingAssumption DEF IInv, Has
  <2>2. CASE g = f
    <3> SUFFICES ASSUME f \notin astray' PROVE Tables(f)'
      BY <2>2 DEF Tables
    <3>1. \A q \in Proc \ {p} : run'[q].file # f
      BY <1>1, <1>4, NobodyBeside DEF Others
    <3>2. Of(f) = {} /\ Follows(s, f)
      BY <1>4, <1>9, LeftClean
    <3>3. (\A q \in Proc : ~Busy(q, f)') => Agree(f)'
      <4> SUFFICES ASSUME ~Busy(p, f)' PROVE Agree(f)'
        OBVIOUS
      <4>1. Starts(s.sha) = {}
        BY <1>4 DEF Busy, Now, Has
      <4>2. Of(f)' = {} /\ Whole(f)' = {}
        BY <1>3, <1>8, <3>2, <4>1 DEF Whole
      <4> QED
        BY <4>2 DEF Agree, Chunked, Distinct, Of
    <3> QED
      BY <1>1, <1>8, <3>1, <3>2, <3>3 DEF Tables, Past, Follows
  <2> QED
    BY <2>1, <2>2
<1>13. ASSUME NEW g \in File PROVE Current(g)'
  <2>1. CASE g # f
    BY <1>1, <1>2, <1>4, <1>8, <2>1, CurrentElsewhere, IndexingAssumption DEF IInv, Now, Has, Reading
  <2>2. CASE g = f
    <3> SUFFICES ASSUME f \notin astray' PROVE Current(f)'
      BY <2>2 DEF Current
    <3>1. s.sha = disk[f].sha => Settled(f)'
      BY <1>1, <1>2, <1>4, <1>8, SettledNow DEF Now, Has
    <3>2. CASE f \notin astray
      <4>1. Settled(f) => Settled(f)'
        BY <1>1, <1>2, <1>3, <3>1 DEF Settled
      <4>2. Will(p, f) => Will(p, f)' \/ Settled(f)'
        BY <1>1, <1>2, <1>3, <1>4, <3>1 DEF Will, Now, Present
      <4> QED
        BY <1>1, <3>2, <4>1, <4>2, CurrentKept DEF IInv
    <3>3. CASE f \in astray
      <4>1. run[p].alone
        BY <1>4, <3>3, LeftClean
      <4> QED
        BY <1>1, <1>9, <3>1, <4>1 DEF Current
    <3> QED
      BY <3>2, <3>3
  <2> QED
    BY <2>1, <2>2
<1> QED
  BY <1>1, <1>5, <1>7, <1>11, <1>12, <1>13, Together

\* The chunks up to the next start are there; after the last, all.
LEMMA InsertKeeps == ASSUME IInv, NEW p \in Proc, InsertChunk(p) PROVE IInv'
<1>1. /\ TypeOK /\ TypeOK' /\ Others(p) /\ UNCHANGED <<disk, state, watch>> /\ run[p].at = "insert"
      /\ Shape(p) /\ astray \subseteq File /\ state \in [File -> Seen]
      /\ run[p].todo \subseteq run[p].found /\ Alone /\ (\A q \in Proc : Shape(q) /\ Runs(q)) /\ run[p].at \in Reading
  BY InsertIs DEF IInv, Shape, TypeOK, Reading, Seen
<1>2. PICK f \in File : f = run[p].file /\ f # NoFile /\ f \in run[p].found
  BY <1>1, AtHand, IndexingAssumption
<1>3. PICK s \in Row : s = run[p].seen /\ s.sha \in Content /\ s # NoRow
  BY <1>1, AtHand, RowsAre
<1>4. PICK b \in Starts(s.sha) : b = run[p].start
  BY <1>1, <1>3 DEF Shape
<1> DEFINE Chunk(i) == [file |-> f, sha |-> s.sha, start |-> i, by |-> p]
<1>5. /\ run[p].gone = {} /\ chunks' = chunks \cup {Chunk(b)}
      /\ \/ /\ b = Last(s.sha) /\ Leaves(p, f)
            /\ Now(p, "next", run[p].found, run[p].todo, {}) /\ Has(p, NoFile, NoRow, 0)
         \/ /\ b # Last(s.sha) /\ Touch(p, f)
            /\ Now(p, "insert", run[p].found, run[p].todo, {}) /\ Has(p, f, s, b + Stride)
  BY <1>1, <1>2, <1>3, <1>4, InsertIs, AtHand
<1>6. Alone'
  BY <1>1, <1>5, AloneKept DEF Now
<1>7. Shape(p)'
  BY <1>1, <1>2, <1>3, <1>5, NextStart DEF Shape, Now, Has, Reading
<1>8. \A q \in Proc : Shape(q)'
  BY <1>1, <1>7, OthersKeepShape
<1>9. Of(f)' = Of(f) \cup {Chunk(b)}
  BY <1>5 DEF Of
<1>10. \A g \in File \ {f} : Elsewhere(g)
  <2>1. \A g \in File \ {f} : g \in astray' <=> g \in astray
    BY <1>1, <1>5, LeavesIs DEF Touch
  <2>2. \A g \in File \ {f} : Of(g)' = Of(g)
    BY <1>5 DEF Of
  <2> QED
    BY <1>1, <2>1, <2>2 DEF Elsewhere
<1>11. f \notin astray \/ run[p].alone =>
        /\ state[f] = s /\ Follows(s, f) /\ (run[p].alone => watch = "timer" \/ s.sha = disk[f].sha)
        /\ Of(f)' = {Chunk(i) : i \in {i \in Starts(s.sha) : i <= b}}
  <2> SUFFICES ASSUME f \notin astray \/ run[p].alone
               PROVE  /\ state[f] = s /\ Follows(s, f) /\ (run[p].alone => watch = "timer" \/ s.sha = disk[f].sha)
                      /\ Of(f)' = {Chunk(i) : i \in {i \in Starts(s.sha) : i <= b}}
    OBVIOUS
  <2>1. Written(p, f) /\ Follows(s, f) /\ (run[p].alone => watch = "timer" \/ s.sha = disk[f].sha)
    BY <1>1, <1>2, <1>3, RunsAt
  <2>2. state[f] = s /\ Of(f) = {Chunk(i) : i \in {i \in Starts(s.sha) : i < b}}
    BY <1>1, <1>3, <1>4, <2>1 DEF Written
  <2>3. {i \in Starts(s.sha) : i <= b} = {i \in Starts(s.sha) : i < b} \cup {b}
    BY <1>3, StartsAre
  <2> HIDE DEF Chunk
  <2> QED
    BY <1>9, <2>1, <2>2, <2>3
<1>12. Runs(p)'
  <2>1. CASE run'[p].file = NoFile
    BY <2>1 DEF Runs
  <2>2. CASE b # Last(s.sha) /\ Touch(p, f) /\ Now(p, "insert", run[p].found, run[p].todo, {}) /\ Has(p, f, s, b + Stride)
    <3> SUFFICES ASSUME f \notin astray' \/ run[p].alone PROVE Runs(p)'
      BY <2>2 DEF Runs, Now, Has
    <3>1. f \notin astray \/ run[p].alone
      BY <2>2 DEF Touch
    <3>2. {i \in Starts(s.sha) : i < b + Stride} = {i \in Starts(s.sha) : i <= b}
      BY <1>3, <2>2, NextStart
    <3>3. Written(p, f)'
      BY <1>1, <1>11, <2>2, <3>1, <3>2 DEF Written, Now, Has
    <3> QED
      BY <1>1, <1>11, <2>2, <3>1, <3>3 DEF Runs, Now, Has, Follows
  <2> QED
    BY <1>5, <2>1, <2>2 DEF Has
<1>13. \A q \in Proc : Runs(q)'
  BY <1>1, <1>5, <1>10, <1>12, RunsKept
<1>14. ASSUME NEW g \in File PROVE Tables(g)'
  <2>1. CASE g # f
    BY <1>1, <1>2, <1>5, <1>10, <2>1, TablesElsewhere, IndexingAssumption DEF IInv, Has
  <2>2. CASE g = f
    <3> SUFFICES ASSUME f \notin astray' PROVE Tables(f)'
      BY <2>2 DEF Tables
    <3>1. \A q \in Proc \ {p} : run'[q].file # f
      BY <1>1, <1>5, NobodyBeside DEF Others
    <3>2. state[f] = s /\ Follows(s, f) /\ Of(f)' = {Chunk(i) : i \in {i \in Starts(s.sha) : i <= b}}
      BY <1>5, <1>11, LeftClean
    <3>3. (\A q \in Proc : ~Busy(q, f)') => Agree(f)'
      <4> SUFFICES ASSUME ~Busy(p, f)' PROVE Agree(f)'
        OBVIOUS
      <4>1. b = Last(s.sha)
        BY <1>5 DEF Busy, Now, Has
      <4>2. {i \in Starts(s.sha) : i <= b} = Starts(s.sha)
        BY <1>3, <1>4, <4>1, LastIs
      <4>3. Of(f)' = {Chunk(i) : i \in Starts(s.sha)}
        BY <3>2, <4>2
      <4>4. Whole(f)' = {<<s.sha, i>> : i \in Starts(s.sha)}
        BY <1>1, <1>3, <3>2 DEF Whole
      <4>5. Chunked(f)' = {<<k.sha, k.start>> : k \in Of(f)'}
        BY DEF Chunked, Of
      <4>6. Chunked(f)' = Whole(f)'
        <5>1. \A k \in Of(f)' : k.sha = s.sha /\ k.start \in Starts(s.sha)
          BY <4>3
        <5>2. \A i \in Starts(s.sha) : Chunk(i) \in Of(f)' /\ Chunk(i).sha = s.sha /\ Chunk(i).start = i
          BY <4>3
        <5> HIDE DEF Chunk
        <5>3. Chunked(f)' \subseteq Whole(f)'
          BY <4>4, <4>5, <5>1
        <5>4. Whole(f)' \subseteq Chunked(f)'
          BY <4>4, <4>5, <5>2
        <5> QED
          BY <5>3, <5>4
      <4>7. Distinct(f)'
        BY <4>3 DEF Distinct
      <4> QED
        BY <4>6, <4>7 DEF Agree
    <3> QED
      BY <1>1, <3>1, <3>2, <3>3 DEF Tables, Past, Follows
  <2> QED
    BY <2>1, <2>2
<1>15. ASSUME NEW g \in File PROVE Current(g)'
  <2>1. CASE g # f
    BY <1>1, <1>2, <1>5, <1>10, <2>1, CurrentElsewhere, IndexingAssumption DEF IInv, Now, Has, Reading
  <2>2. CASE g = f
    <3> SUFFICES ASSUME f \notin astray' PROVE Current(f)'
      BY <2>2 DEF Current
    <3>1. state[f].sha = disk[f].sha => Settled(f)'
      BY <1>1, <1>2, <1>5, SettledNow DEF Now, Has
    <3>2. CASE f \notin astray
      <4>1. Settled(f) => Settled(f)'
        BY <3>1 DEF Settled
      <4>2. Will(p, f) => Will(p, f)'
        BY <1>1, <1>2, <1>5 DEF Will, Now, Present
      <4> QED
        BY <1>1, <3>2, <4>1, <4>2, CurrentKept DEF IInv
    <3>3. CASE f \in astray
      <4>1. run[p].alone
        BY <1>5, <3>3, LeftClean
      <4> QED
        BY <1>1, <1>11, <3>1, <4>1 DEF Current
    <3> QED
      BY <3>2, <3>3
  <2> QED
    BY <2>1, <2>2
<1> QED
  BY <1>1, <1>6, <1>8, <1>13, <1>14, <1>15, Together

\* A file that failed is marked.
LEMMA FailKeeps == ASSUME IInv, NEW p \in Proc, FileFails(p) PROVE IInv'
<1>1. /\ TypeOK /\ TypeOK' /\ Others(p) /\ Keeps /\ run[p].at \in Reading
      /\ Now(p, "next", run[p].found, run[p].todo, {}) /\ Has(p, NoFile, NoRow, 0)
      /\ Shape(p) /\ astray \subseteq File /\ run[p].gone = {} /\ run[p].at \notin {"free", "scan"}
      /\ run[p].todo \subseteq run[p].found /\ Alone /\ (\A q \in Proc : Shape(q) /\ Runs(q))
  BY FailIs, AtHand DEF IInv, Shape, TypeOK, Reading
<1>2. PICK f \in File : f = run[p].file /\ f # NoFile /\ astray' = astray \cup {f}
  BY <1>1, AtHand, FailIs, IndexingAssumption
<1>3. Alone'
  BY <1>1, AloneKept DEF Now
<1>4. Shape(p)'
  BY <1>1 DEF Shape, Now, Has, Reading
<1>5. \A q \in Proc : Shape(q)'
  BY <1>1, <1>4, OthersKeepShape
<1>6. \A g \in File : Elsewhere(g)
  BY <1>1, <1>2 DEF Elsewhere, Keeps, Of
<1>7. Runs(p)'
  BY <1>1 DEF Runs, Has
<1>8. \A q \in Proc : Runs(q)'
  BY <1>1, <1>2, <1>6, <1>7, RunsUntouched DEF Keeps
<1>9. ASSUME NEW g \in File PROVE Tables(g)' /\ Current(g)'
  <2>1. CASE g = f
    BY <1>2, <2>1 DEF Tables, Current
  <2>2. CASE g # f
    <3>1. Tables(g)'
      BY <1>1, <1>2, <1>6, <2>2, TablesElsewhere, IndexingAssumption DEF IInv, Has
    <3>2. Current(g)'
      BY <1>1, <1>2, <1>6, <2>2, CurrentElsewhere, IndexingAssumption DEF IInv, Now, Has, Keeps
    <3> QED
      BY <3>1, <3>2
  <2> QED
    BY <2>1, <2>2
<1> QED
  BY <1>1, <1>3, <1>5, <1>8, <1>9, Together

\* A file that was not found and has a row is listed, or it is settled.
LEMMA ListKeeps == ASSUME IInv, NEW p \in Proc, List(p) PROVE IInv'
<1>1. /\ TypeOK /\ TypeOK' /\ Others(p) /\ Keeps /\ run[p].at = "next" /\ run[p].todo = {} /\ run[p].file = NoFile
      /\ astray' = astray \cup {f \in File \ run[p].found : \E q \in Alive \ {p} : run[q].file = f}
      /\ Now(p, "clean", run[p].found, {}, Old(p)) /\ run'[p].file = NoFile /\ run'[p].start = 0
      /\ Shape(p) /\ astray \subseteq File /\ Alone /\ (\A q \in Proc : Shape(q) /\ Runs(q))
  BY ListIs DEF IInv, TypeOK
<1>2. Alone'
  BY <1>1, AloneKept DEF Now
<1>3. Shape(p)'
  BY <1>1 DEF Shape, Now, Reading, Old
<1>4. \A q \in Proc : Shape(q)'
  BY <1>1, <1>3, OthersKeepShape
<1>5. \A g \in File : Elsewhere(g)
  BY <1>1 DEF Elsewhere, Keeps, Of
<1>6. Runs(p)'
  BY <1>1 DEF Runs
<1>7. \A q \in Proc : Runs(q)'
  BY <1>1, <1>5, <1>6, RunsUntouched DEF Keeps
<1>8. \A g \in File : Tables(g)'
  BY <1>1, <1>5, TablesElsewhere, IndexingAssumption DEF IInv
<1>9. ASSUME NEW g \in File PROVE Current(g)'
  <2>1. Settled(g) => Settled(g)'
    BY <1>1, SettledKept, IndexingAssumption DEF Settled, Now, Keeps
  <2>2. ASSUME Will(p, g), g \notin astray' PROVE Will(p, g)' \/ Settled(g)'
    <3>1. g \notin Present /\ g \notin run[p].found
      BY <1>1, <2>2, IndexingAssumption DEF Will
    <3>2. CASE state[g] # NoRow
      <4>1. g \in Old(p)
        BY <3>1, <3>2 DEF Old
      <4> QED
        BY <1>1, <3>1, <4>1 DEF Will, Now, Keeps, Present
    <3>3. CASE state[g] = NoRow
      <4>1. \A q \in Alive \ {p} : run[q].file # g
        BY <1>1, <2>2, <3>1
      <4>2. \A q \in Proc : run'[q].file # g
        BY <1>1, <4>1, IndexingAssumption DEF Alive, Shape, Others
      <4>3. disk[g].sha = "none" /\ g \notin Present'
        BY <1>1, <3>1 DEF Present, Keeps
      <4>4. state'[g].sha = disk'[g].sha
        BY <1>1, <3>3, <4>3, RowsAre DEF Keeps
      <4> QED
        BY <4>2, <4>3, <4>4 DEF Settled
    <3> QED
      BY <3>2, <3>3
  <2> QED
    BY <1>1, <1>5, <2>1, <2>2, CurrentKept DEF IInv, Keeps, Elsewhere
<1> QED
  BY <1>1, <1>2, <1>4, <1>7, <1>8, <1>9, Together

\* First the chunks go, then the row.
LEMMA CleanKeeps == ASSUME IInv, NEW p \in Proc, CleanChunks(p) PROVE IInv'
<1>1. /\ TypeOK /\ TypeOK' /\ Others(p) /\ UNCHANGED <<disk, state, watch>> /\ run[p].at = "clean"
      /\ run[p].todo = {} /\ run[p].file = NoFile /\ Shape(p) /\ astray \subseteq File
      /\ run[p].gone \subseteq File \ run[p].found /\ Alone /\ (\A q \in Proc : Shape(q) /\ Runs(q))
  BY CleanIs DEF IInv, TypeOK, Shape
<1>2. PICK f \in run[p].gone :
        /\ chunks' = {k \in chunks : k.file # f} /\ Touch(p, f)
        /\ Now(p, "forget", run[p].found, {}, run[p].gone \ {f}) /\ run'[p].file = f /\ run'[p].start = 0
  BY <1>1, CleanIs
<1>3. f \in File /\ f \notin run[p].found /\ f # NoFile
  BY <1>1, IndexingAssumption
<1>4. Alone'
  BY <1>1, <1>2, AloneKept DEF Now
<1>5. Shape(p)'
  BY <1>1, <1>2, <1>3 DEF Shape, Now, Reading
<1>6. \A q \in Proc : Shape(q)'
  BY <1>1, <1>5, OthersKeepShape
<1>7. /\ \A g \in File \ {f} : Elsewhere(g)
      /\ Of(f)' = {} /\ (f \in astray => f \in astray')
  BY <1>1, <1>2, <1>3, TouchIs DEF Elsewhere, Of
<1>8. Runs(p)'
  BY <1>2, <1>7 DEF Runs, Written, Now, Reading
<1>9. \A q \in Proc : Runs(q)'
  BY <1>1, <1>2, <1>3, <1>7, <1>8, RunsKept
<1>10. ASSUME NEW g \in File PROVE Tables(g)'
  <2>1. CASE g # f
    BY <1>1, <1>2, <1>7, <2>1, TablesElsewhere, IndexingAssumption DEF IInv
  <2>2. CASE g = f
    <3> SUFFICES ASSUME f \notin astray' PROVE Tables(f)'
      BY <2>2 DEF Tables
    <3>1. \A q \in Proc \ {p} : run'[q].file # f
      BY <1>1, <1>2, <1>3, NobodyBeside DEF Others
    <3>2. Busy(p, f)'
      BY <1>2 DEF Busy, Now
    <3>3. Follows(state[f], f)
      BY <1>3, <1>7 DEF IInv, Tables
    <3> QED
      BY <1>1, <3>1, <3>2, <3>3 DEF Tables, Past, Follows
  <2> QED
    BY <2>1, <2>2
<1>11. ASSUME NEW g \in File PROVE Current(g)'
  <2>1. Settled(g) => Settled(g)'
    BY <1>1, <1>2, SettledKept DEF Settled, Now
  <2>2. Will(p, g) => Will(p, g)'
    BY <1>1, <1>2, <1>3, IndexingAssumption DEF Will, Now, Present, Reading
  <2>3. g \in astray => g \in astray'
    BY <1>7 DEF Elsewhere
  <2> QED
    BY <1>1, <2>1, <2>2, <2>3, CurrentKept DEF IInv
<1> QED
  BY <1>1, <1>4, <1>6, <1>9, <1>10, <1>11, Together

LEMMA ForgetKeeps == ASSUME IInv, NEW p \in Proc, CleanRow(p) PROVE IInv'
<1>1. /\ TypeOK /\ TypeOK' /\ Others(p) /\ UNCHANGED <<disk, chunks, watch>> /\ run[p].at = "forget"
      /\ run[p].todo = {} /\ Shape(p) /\ astray \subseteq File /\ state \in [File -> Seen]
      /\ Now(p, "clean", run[p].found, {}, run[p].gone) /\ run'[p].file = NoFile /\ run'[p].start = 0
      /\ run[p].gone \subseteq File \ run[p].found /\ Alone /\ (\A q \in Proc : Shape(q) /\ Runs(q))
  BY ForgetIs DEF IInv, TypeOK, Shape, Seen
<1>2. PICK f \in File : f = run[p].file /\ f \notin run[p].found /\ f # NoFile
  BY <1>1, ForgetIs, IndexingAssumption DEF IInv
<1>3. state' = [state EXCEPT ![f] = NoRow] /\ Touch(p, f)
  BY <1>1, <1>2, ForgetIs
<1>4. Alone'
  BY <1>1, AloneKept DEF Now
<1>5. Shape(p)'
  BY <1>1 DEF Shape, Now, Reading
<1>6. \A q \in Proc : Shape(q)'
  BY <1>1, <1>5, OthersKeepShape
<1>7. /\ \A g \in File \ {f} : Elsewhere(g)
      /\ state'[f] = NoRow /\ Of(f)' = Of(f) /\ (f \in astray => f \in astray')
  BY <1>1, <1>3, TouchIs DEF Elsewhere, Of
<1>8. Runs(p)'
  BY <1>1 DEF Runs
<1>9. \A q \in Proc : Runs(q)'
  BY <1>1, <1>3, <1>7, <1>8, RunsKept
<1>10. ASSUME NEW g \in File PROVE Tables(g)'
  <2>1. CASE g # f
    BY <1>1, <1>2, <1>7, <2>1, TablesElsewhere, IndexingAssumption DEF IInv
  <2>2. CASE g = f
    <3> SUFFICES ASSUME f \notin astray' PROVE Tables(f)'
      BY <2>2 DEF Tables
    <3>1. \A q \in Proc : run'[q].file # f
      BY <1>1, <1>2, <1>3, NobodyBeside DEF Others
    <3>2. Of(f) = {}
      BY <1>1, <1>2, <1>7 DEF Runs, Written
    <3>3. Of(f)' = {} /\ Whole(f)' = {}
      BY <1>7, <3>2 DEF Whole
    <3>4. Agree(f)'
      BY <3>3 DEF Agree, Chunked, Distinct, Of
    <3> QED
      BY <1>7, <3>1, <3>4 DEF Tables, Past, Follows
  <2> QED
    BY <2>1, <2>2
<1>11. ASSUME NEW g \in File PROVE Current(g)'
  <2>1. CASE g # f
    BY <1>1, <1>2, <1>7, <2>1, CurrentElsewhere, IndexingAssumption DEF IInv, Now, Reading
  <2>2. CASE g = f
    <3> SUFFICES ASSUME f \notin astray' PROVE Current(f)'
      BY <2>2 DEF Current
    <3>1. f \notin Present => Settled(f)'
      <4> SUFFICES ASSUME f \notin Present PROVE Settled(f)'
        OBVIOUS
      <4>1. state'[f].sha = disk[f].sha
        BY <1>7, RowsAre DEF Present
      <4> QED
        BY <1>1, <1>2, <1>3, <4>1, SettledNow
    <3>2. Settled(f) \/ Will(p, f) => f \notin Present
      BY <1>1, <1>2 DEF Settled, Will
    <3> QED
      BY <1>1, <1>7, <2>2, <3>1, <3>2, CurrentKept DEF IInv
  <2> QED
    BY <2>1, <2>2
<1> QED
  BY <1>1, <1>4, <1>6, <1>9, <1>10, <1>11, Together

\* A run ends when there is nothing left that it will do.
LEMMA FinishKeeps == ASSUME IInv, NEW p \in Proc, Finish(p) PROVE IInv'
<1>1. /\ TypeOK /\ TypeOK' /\ Others(p) /\ Keeps /\ run[p].at \in {"clean", "forget"} /\ run[p].todo = {}
      /\ run'[p] = Idle /\ Shape(p) /\ astray \subseteq File /\ Alone /\ (\A q \in Proc : Shape(q) /\ Runs(q))
      /\ \/ run[p].at = "clean" /\ run[p].gone = {} /\ astray' = astray
         \/ astray' = astray \cup (File \ run[p].found)
  BY FinishIs DEF IInv, TypeOK
<1>2. Alone'
  BY <1>1, AloneKept, NobodyIs
<1>3. Shape(p)'
  BY <1>1, NobodyIs DEF Shape, Reading
<1>4. \A q \in Proc : Shape(q)'
  BY <1>1, <1>3, OthersKeepShape
<1>5. \A g \in File : Elsewhere(g)
  BY <1>1 DEF Elsewhere, Keeps, Of
<1>6. Runs(p)'
  BY <1>1, NobodyIs DEF Runs
<1>7. \A q \in Proc : Runs(q)'
  BY <1>1, <1>5, <1>6, RunsUntouched DEF Keeps
<1>8. ASSUME NEW g \in File PROVE Tables(g)'
  <2>1. CASE run[p].file = g
    BY <1>1, <2>1, IndexingAssumption DEF Tables, Shape
  <2>2. CASE run[p].file # g
    BY <1>1, <1>5, <2>2, TablesElsewhere, NobodyIs, IndexingAssumption DEF IInv
  <2> QED
    BY <2>1, <2>2
<1>9. ASSUME NEW g \in File PROVE Current(g)'
  <2>1. Settled(g) => Settled(g)'
    BY <1>1, SettledKept, NobodyIs, IndexingAssumption DEF Settled, Keeps
  <2>2. Will(p, g) => g \in astray'
    BY <1>1, IndexingAssumption DEF Will, Shape, Reading
  <2> QED
    BY <1>1, <1>5, <2>1, <2>2, CurrentKept DEF IInv, Keeps, Elsewhere
<1> QED
  BY <1>1, <1>2, <1>4, <1>7, <1>8, <1>9, Together

-----------------------------------------------------------------------------
(* A new run, a change of the workspace, a crash *)

\* The others are as they were, but need not be alone any more.
Dimmed(q) ==
    /\ run'[q].at = run[q].at /\ run'[q].file = run[q].file /\ run'[q].seen = run[q].seen
    /\ run'[q].start = run[q].start /\ run'[q].found = run[q].found /\ run'[q].todo = run[q].todo
    /\ run'[q].gone = run[q].gone /\ (run'[q].alone => run[q].alone)

LEMMA DimmedShape == ASSUME NEW q \in Proc, Shape(q), Dimmed(q) PROVE Shape(q)'
BY DEF Shape, Dimmed

\* A new run ends the loneliness of the others.
LEMMA StartIs ==
    ASSUME TypeOK, NEW p \in Proc, NEW by \in {"watcher", "route", "cli"}, Start(p, by),
           runs' \in 0 .. MaxRuns, watch' \in {"idle", "timer"}
    PROVE  /\ TypeOK' /\ UNCHANGED <<disk, state, chunks, astray>> /\ run[p].at = "free"
           /\ run'[p].at = "scan" /\ run'[p].file = NoFile /\ run'[p].found = {} /\ run'[p].todo = {}
           /\ run'[p].gone = {} /\ run'[p].start = 0 /\ run'[p].alone = (Alive = {})
           /\ \A q \in Proc \ {p} : Dimmed(q) /\ (run'[q].alone => q \notin Alive)
<1>1. Stored /\ Counted /\ run \in [Proc -> RunType]
  BY TypesAre
<1>2. /\ run[p] = Idle /\ UNCHANGED <<disk, state, chunks, faults, astray>>
      /\ run' = [q \in Proc |->
                  IF q = p THEN [Idle EXCEPT !.at = "scan", !.by = by, !.alone = Alive = {}]
                  ELSE [run[q] EXCEPT !.alone = @ /\ q \notin Alive]]
      /\ job' = [job EXCEPT ![p] = IF by = "route" THEN "running" ELSE "none"]
  BY DEF Start, tables
<1> DEFINE r == [Idle EXCEPT !.at = "scan", !.by = by, !.alone = Alive = {}]
<1>3. /\ r \in RunType /\ r.at = "scan" /\ r.file = NoFile /\ r.found = {} /\ r.todo = {} /\ r.gone = {}
      /\ r.start = 0 /\ r.alone = (Alive = {})
  BY NobodyIs DEF RunType, Places
<1> DEFINE D(q) == [run[q] EXCEPT !.alone = @ /\ q \notin Alive]
<1>4. ASSUME NEW q \in Proc
      PROVE  LET d == D(q) IN
             /\ d \in RunType /\ d.at = run[q].at /\ d.file = run[q].file /\ d.seen = run[q].seen
             /\ d.start = run[q].start /\ d.found = run[q].found /\ d.todo = run[q].todo /\ d.gone = run[q].gone
             /\ (d.alone => run[q].alone /\ q \notin Alive)
  BY <1>1 DEF RunType
<1>5. run'[p] = r /\ \A q \in Proc \ {p} : run'[q] = D(q)
  BY <1>2
<1> HIDE DEF r, D
<1>6. run' \in [Proc -> RunType]
  <2>1. \A q \in Proc : run'[q] \in RunType
    BY <1>3, <1>4, <1>5
  <2>2. DOMAIN run' = Proc /\ run' = [q \in Proc |-> run'[q]]
    BY <1>2
  <2> QED
    BY <2>1, <2>2
<1>7. Stored' /\ Counted'
  BY <1>1, <1>2, KeptStored DEF Counted
<1>8. TypeOK'
  BY <1>6, <1>7 DEF TypeOK, Stored, ChunkType, Counted, RunType, Seen
<1>9. \A q \in Proc \ {p} : Dimmed(q) /\ (run'[q].alone => q \notin Alive)
  BY <1>4, <1>5 DEF Dimmed
<1> QED
  BY <1>2, <1>3, <1>5, <1>8, <1>9, NobodyIs

LEMMA StartKeeps ==
    ASSUME IInv, NEW p \in Proc, NEW by \in {"watcher", "route", "cli"}, Start(p, by),
           runs' \in 0 .. MaxRuns, watch' \in {"idle", "timer"}
    PROVE  IInv'
<1>1. /\ TypeOK' /\ UNCHANGED <<disk, state, chunks, astray>> /\ run[p].at = "free"
      /\ run'[p].at = "scan" /\ run'[p].file = NoFile /\ run'[p].found = {} /\ run'[p].todo = {}
      /\ run'[p].gone = {} /\ run'[p].start = 0 /\ run'[p].alone = (Alive = {})
      /\ \A q \in Proc \ {p} : Dimmed(q) /\ (run'[q].alone => q \notin Alive)
  BY StartIs DEF IInv
<1>2. (\A q \in Proc : Shape(q) /\ Runs(q)) /\ run[p].file = NoFile
  BY <1>1 DEF IInv, Shape
<1>3. Alone'
  <2> SUFFICES ASSUME NEW q \in Alive', NEW r \in Alive', run'[q].alone PROVE q = r
    BY DEF Alone
  <2>1. \A o \in Proc \ {p} : o \in Alive' => o \in Alive
    BY <1>1 DEF Alive, Dimmed
  <2>2. q \in Proc /\ r \in Proc
    BY DEF Alive
  <2> QED
    BY <1>1, <2>1, <2>2
<1>4. ASSUME NEW q \in Proc PROVE Shape(q)'
  <2>1. CASE q = p
    BY <1>1, <2>1 DEF Shape, Reading
  <2>2. CASE q # p
    BY <1>1, <1>2, <2>2, DimmedShape
  <2> QED
    BY <2>1, <2>2
<1>5. \A g \in File : Of(g)' = Of(g)
  BY <1>1 DEF Of
<1>6. ASSUME NEW q \in Proc PROVE Runs(q)'
  <2>1. CASE q = p
    BY <1>1, <2>1 DEF Runs
  <2>2. CASE q # p
    <3>1. Dimmed(q) /\ (run'[q].alone => run[q].file = NoFile) /\ run[q].file \in File \cup {NoFile}
      BY <1>1, <1>2, <2>2, TypesAre DEF Alive, Shape, IInv, RunType
    <3>2. PICK f \in File \cup {NoFile} : f = run[q].file
      BY <3>1
    <3> SUFFICES ASSUME f \notin astray, f # NoFile PROVE Runs(q)'
      BY <1>1, <3>1, <3>2 DEF Runs, Dimmed
    <3>3. /\ Written(q, f) /\ (run[q].at \in Reading => Follows(run[q].seen, f))
          /\ run[q].at = "query" /\ f \notin astray /\ state[f] # NoRow /\ state[f].mtime = run[q].seen.mtime
               => state[f].sha = run[q].seen.sha
      BY <1>2, <3>2 DEF Runs
    <3>4. PICK x : x = run[q].seen
      OBVIOUS
    <3>5. /\ run'[q].at = run[q].at /\ run'[q].file = f /\ run'[q].seen = x /\ ~run'[q].alone
          /\ run'[q].start = run[q].start
      BY <3>1, <3>2, <3>4 DEF Dimmed
    <3>6. Written(q, f)'
      BY <1>1, <1>5, <3>3, <3>4, <3>5 DEF Written
    <3>7. run[q].at \in Reading => Follows(x, f)'
      BY <1>1, <3>3, <3>4 DEF Follows
    <3> QED
      BY <1>1, <3>3, <3>4, <3>5, <3>6, <3>7 DEF Runs
  <2> QED
    BY <2>1, <2>2
<1>7. ASSUME NEW f \in File PROVE Tables(f)'
  <2>1. \A q \in Proc : (Past(q, f)' <=> Past(q, f)) /\ (Busy(q, f)' <=> Busy(q, f))
    <3> SUFFICES ASSUME NEW q \in Proc PROVE (Past(q, f)' <=> Past(q, f)) /\ (Busy(q, f)' <=> Busy(q, f))
      OBVIOUS
    <3>1. f # NoFile
      BY IndexingAssumption
    <3> QED
      BY <1>1, <1>2, <3>1 DEF Past, Busy, Dimmed
  <2>2. Agree(f)' <=> Agree(f)
    BY <1>1, <1>5, AgreeKept
  <2> QED
    BY <1>1, <2>1, <2>2 DEF IInv, Tables, Follows
<1>8. \A f \in File : Current(f)'
  BY <1>1 DEF Current, Will
<1> QED
  BY <1>1, <1>3, <1>4, <1>6, <1>7, <1>8, Together

\* A file on the disk changes, and with its old time it is marked.
LEMMA ChangeKeeps ==
    ASSUME IInv, NEW f \in File, Stored', Counted', run' \in [Proc -> RunType], watch' = "timer",
           UNCHANGED <<state, chunks>>, astray' \in {astray, astray \cup {f}},
           \A q \in Proc : Dimmed(q) /\ (run[q].file # f => run'[q] = run[q]),
           \A g \in File \ {f} : disk'[g] = disk[g],
           \/ f \in astray' /\ \A q \in Proc : run[q].file = f => ~run'[q].alone
           \/ disk'[f].mtime > disk[f].mtime
           \/ disk'[f].mtime = disk[f].mtime /\ disk'[f].sha = "none"
    PROVE  IInv'
<1>1. TypeOK'
  BY DEF TypeOK, Stored, ChunkType, Counted, RunType, Seen
<1>2. TypeOK /\ (\A q \in Proc : Shape(q) /\ Runs(q)) /\ \A g \in File : disk[g].mtime \in Nat /\ disk'[g].mtime \in Nat
  BY RowsAre DEF IInv, TypeOK, Stored
<1>3. Alone'
  <2> SUFFICES ASSUME NEW q \in Alive', NEW r \in Alive', run'[q].alone PROVE q = r
    BY DEF Alone
  <2>1. q \in Alive /\ r \in Alive /\ run[q].alone
    BY DEF Alive, Dimmed
  <2> QED
    BY <2>1 DEF IInv, Alone
<1>4. \A q \in Proc : Shape(q)'
  BY <1>2, DimmedShape
<1>5. \A g \in File : Of(g)' = Of(g)
  BY DEF Of
<1>6. ASSUME NEW g \in File, NEW x \in Seen, Follows(x, g),
             g = f => disk'[f].mtime > disk[f].mtime \/ (disk'[f].mtime = disk[f].mtime /\ disk'[f].sha = "none")
      PROVE  Follows(x, g)'
  <2>1. x.mtime \in Nat
    BY RowsAre DEF Seen
  <2> QED
    BY <1>2, <1>6, <2>1 DEF Follows
<1>7. ASSUME NEW q \in Proc PROVE Runs(q)'
  <2>1. run[q] \in RunType /\ Dimmed(q)
    BY <1>2, TypesAre
  <2>2. PICK g \in File \cup {NoFile} : g = run[q].file
    BY <2>1 DEF RunType
  <2> SUFFICES ASSUME g # NoFile, g \notin astray' \/ run'[q].alone PROVE Runs(q)'
    BY <2>1, <2>2 DEF Runs, Dimmed
  <2>3. g \in File /\ (g \notin astray \/ run[q].alone)
    BY <2>1 DEF Dimmed
  <2>4. PICK x \in Seen : x = run[q].seen
    BY <2>1 DEF RunType
  <2>5. /\ Written(q, g) /\ (run[q].at \in Reading => Follows(x, g))
        /\ run[q].at = "query" /\ g \notin astray /\ state[g] # NoRow /\ state[g].mtime = x.mtime
             => state[g].sha = x.sha
    BY <1>2, <2>2, <2>3, <2>4 DEF Runs
  <2>6. /\ run'[q].at = run[q].at /\ run'[q].file = g /\ run'[q].seen = x /\ run'[q].start = run[q].start
        /\ g \notin astray' => g \notin astray
    BY <2>1, <2>2, <2>4 DEF Dimmed
  <2>7. Written(q, g)'
    BY <1>5, <2>3, <2>4, <2>5, <2>6 DEF Written
  <2>8. ASSUME run[q].at \in Reading PROVE Follows(x, g)'
    BY <1>6, <2>2, <2>3, <2>5, <2>8
  <2> QED
    BY <2>3, <2>5, <2>6, <2>7, <2>8 DEF Runs
<1>8. ASSUME NEW g \in File PROVE Tables(g)'
  <2> SUFFICES ASSUME g \notin astray' PROVE Tables(g)'
    BY DEF Tables
  <2>1. \A q \in Proc : (Past(q, g)' <=> Past(q, g)) /\ (Busy(q, g)' <=> Busy(q, g))
    BY DEF Past, Busy, Dimmed
  <2>2. Agree(g)' <=> Agree(g)
    BY <1>5, AgreeKept
  <2>3. Follows(state[g], g)'
    <3>1. g \notin astray /\ state[g] \in Seen
      BY <1>2, TypesAre DEF Stored
    <3>2. Follows(state[g], g)
      BY <3>1 DEF IInv, Tables
    <3>3. PICK x \in Seen : x = state[g]
      BY <3>1
    <3>4. Follows(x, g)'
      BY <1>6, <3>2, <3>3
    <3> QED
      BY <3>3, <3>4 DEF Follows
  <2> QED
    BY <2>1, <2>2, <2>3 DEF IInv, Tables
<1>9. \A g \in File : Current(g)'
  BY DEF Current
<1> QED
  BY <1>1, <1>3, <1>4, <1>7, <1>8, <1>9, Together

LEMMA SameDims == ASSUME run \in [Proc -> RunType], NEW q \in Proc, run'[q] = run[q] PROVE Dimmed(q)
BY DEF Dimmed

LEMMA WriteKeeps == ASSUME IInv, NEW f \in File, NEW c \in Content, Write(f, c) PROVE IInv'
<1>1. Stored /\ Counted /\ run \in [Proc -> RunType] /\ (\A q \in Proc : Shape(q))
  BY TypesAre DEF IInv
<1>2. watch' = "timer" /\ UNCHANGED <<state, chunks, job, runs, faults>>
  BY DEF Write, Hear, tables
<1>3. disk[f] \in Row \cup Missing /\ c # "none" /\ MaxMtime \in Nat
      /\ (disk[f].mtime \in 0 .. MaxMtime)
  BY <1>1, IndexingAssumption DEF Stored, Row, Missing
<1>4. CASE /\ disk[f].mtime < MaxMtime
           /\ disk' = [disk EXCEPT ![f] = [mtime |-> @.mtime + 1, sha |-> c]]
           /\ UNCHANGED <<run, astray>>
  <2> DEFINE d == [mtime |-> disk[f].mtime + 1, sha |-> c]
  <2>1. d \in Row /\ d.mtime = disk[f].mtime + 1
    BY <1>3, <1>4 DEF Row
  <2>2. disk' = [disk EXCEPT ![f] = d]
    BY <1>4
  <2> HIDE DEF d
  <2>3. disk' \in [File -> Row \cup Missing] /\ disk'[f].mtime > disk[f].mtime /\ \A g \in File \ {f} : disk'[g] = disk[g]
    BY <1>1, <1>3, <2>1, <2>2 DEF Stored
  <2>4. Stored' /\ Counted'
    BY <1>1, <1>2, <1>4, <2>3 DEF Stored, ChunkType, Counted
  <2> QED
    BY <1>1, <1>2, <1>4, <2>3, <2>4, SameDims, ChangeKeeps
<1>5. CASE /\ disk[f].mtime # 0
           /\ disk' = [disk EXCEPT ![f].sha = c]
           /\ astray' = astray \cup {f}
           /\ run' = [p \in Proc |-> IF run[p].file = f THEN [run[p] EXCEPT !.alone = FALSE] ELSE run[p]]
  <2> DEFINE d == [disk[f] EXCEPT !.sha = c]
  <2>1. d \in Row
    BY <1>3, <1>5 DEF Row, Missing
  <2>2. disk' = [disk EXCEPT ![f] = d]
    BY <1>5
  <2> HIDE DEF d
  <2>3. disk' \in [File -> Row \cup Missing] /\ \A g \in File \ {f} : disk'[g] = disk[g]
    BY <1>1, <2>1, <2>2 DEF Stored
  <2>4. Stored' /\ Counted'
    BY <1>1, <1>2, <1>5, <2>3 DEF Stored, ChunkType, Counted
  <2>5. ASSUME NEW q \in Proc
        PROVE  /\ run'[q] \in RunType /\ Dimmed(q) /\ (run[q].file # f => run'[q] = run[q])
               /\ (run[q].file = f => ~run'[q].alone)
    <3>1. CASE run[q].file # f
      BY <1>1, <1>5, <3>1, SameDims
    <3>2. CASE run[q].file = f
      <4>1. run'[q] = [run[q] EXCEPT !.alone = FALSE]
        BY <1>5, <3>2
      <4> QED
        BY <1>1, <3>2, <4>1 DEF Dimmed, RunType
    <3> QED
      BY <3>1, <3>2
  <2>6. run' \in [Proc -> RunType]
    BY <1>5, <2>5
  <2>7. f \in astray' /\ \A q \in Proc : run[q].file = f => ~run'[q].alone
    BY <1>5, <2>5
  <2> QED
    BY <1>2, <1>5, <2>3, <2>4, <2>5, <2>6, <2>7, ChangeKeeps
<1> QED
  BY <1>4, <1>5 DEF Write

LEMMA RemoveKeeps == ASSUME IInv, NEW f \in File, Remove(f) PROVE IInv'
<1>1. Stored /\ Counted /\ run \in [Proc -> RunType]
  BY TypesAre DEF IInv
<1>2. /\ watch' = "timer" /\ UNCHANGED <<state, chunks, run, job, runs, faults, astray>>
      /\ disk' = [disk EXCEPT ![f].sha = "none"]
  BY DEF Remove, Hear, tables
<1> DEFINE d == [disk[f] EXCEPT !.sha = "none"]
<1>3. d \in Missing /\ d.mtime = disk[f].mtime /\ d.sha = "none"
  BY <1>1, IndexingAssumption DEF Stored, Row, Missing
<1>4. disk' = [disk EXCEPT ![f] = d]
  BY <1>2
<1> HIDE DEF d
<1>5. /\ disk' \in [File -> Row \cup Missing] /\ disk'[f].mtime = disk[f].mtime /\ disk'[f].sha = "none"
      /\ \A g \in File \ {f} : disk'[g] = disk[g]
  BY <1>1, <1>3, <1>4 DEF Stored
<1>6. Stored' /\ Counted'
  BY <1>1, <1>2, <1>5 DEF Stored, ChunkType, Counted
<1> QED
  BY <1>1, <1>2, <1>5, <1>6, SameDims, ChangeKeeps

\* After a crash every file is marked.
LEMMA CrashKeeps == ASSUME IInv, NEW ours \in {{"cli"}, {"watcher", "route"}}, Crash(ours) PROVE IInv'
<1>1. Stored /\ Counted /\ run \in [Proc -> RunType] /\ (\A q \in Proc : Shape(q))
  BY TypesAre DEF IInv
<1>2. /\ Fault /\ astray' = File /\ UNCHANGED <<disk, state, chunks, runs>>
      /\ run' = [p \in Proc |-> IF run[p].by \in ours THEN Idle
                           ELSE [run[p] EXCEPT !.alone = @ /\ run[p] = Idle]]
      /\ watch' \in {"idle", "timer"} /\ job' \in [Proc -> {"none", "running", "completed", "failed"}]
  BY <1>1 DEF Crash, tables, Counted
<1>3. ASSUME NEW q \in Proc
      PROVE  /\ run'[q] \in RunType
             /\ \/ run'[q] = Idle
                \/ Dimmed(q) /\ (run'[q].alone => run[q] = Idle)
  <2>1. CASE run[q].by \in ours
    BY <1>2, <2>1, NobodyIs
  <2>2. CASE run[q].by \notin ours
    <3>1. run'[q] = [run[q] EXCEPT !.alone = @ /\ run[q] = Idle]
      BY <1>2, <2>2
    <3>2. PICK r \in RunType : r = run[q]
      BY <1>1
    <3> QED
      BY <3>1, <3>2 DEF Dimmed, RunType
  <2> QED
    BY <2>1, <2>2
<1>4. TypeOK'
  <2>1. run' \in [Proc -> RunType]
    BY <1>2, <1>3
  <2>2. Stored' /\ Counted'
    BY <1>1, <1>2, KeptStored, FaultIs DEF Counted
  <2> QED
    BY <2>1, <2>2 DEF TypeOK, Stored, ChunkType, Counted, RunType, Seen
<1>5. \A q \in Proc : run'[q].alone => run'[q].at = "free" /\ run'[q].file = NoFile
  BY <1>3, NobodyIs DEF Dimmed
<1>6. Alone'
  BY <1>5 DEF Alone, Alive
<1>7. ASSUME NEW q \in Proc PROVE Shape(q)'
  <2>1. CASE run'[q] = Idle
    BY <2>1, NobodyIs DEF Shape, Reading
  <2>2. CASE Dimmed(q)
    BY <1>1, <2>2, DimmedShape
  <2> QED
    BY <1>3, <2>1, <2>2
<1>8. ASSUME NEW q \in Proc PROVE Runs(q)'
  <2>1. run'[q].file \in File \cup {NoFile}
    BY <1>3 DEF RunType
  <2> QED
    BY <1>2, <1>5, <2>1 DEF Runs
<1>9. \A f \in File : Tables(f)' /\ Current(f)'
  BY <1>2 DEF Tables, Current
<1> QED
  BY <1>4, <1>6, <1>7, <1>8, <1>9, Together

-----------------------------------------------------------------------------
(* The theorems *)

\* At first only the files that are there lack rows, and they are marked.
LEMMA InitIs == Init => IInv
<1> SUFFICES ASSUME Init PROVE IInv
  OBVIOUS
<1>1. /\ run = [p \in Proc |-> Idle] /\ state = [f \in File |-> NoRow] /\ chunks = {}
      /\ disk \in [File -> {NoRow} \cup {[mtime |-> 1, sha |-> c] : c \in Content}] /\ astray = Present
  BY DEF Init
<1>2. NoRow \in Missing /\ \A c \in Content : [mtime |-> 1, sha |-> c] \in Row
  BY IndexingAssumption DEF NoRow, Missing, Row
<1>3. disk \in [File -> Row \cup Missing] /\ Present \subseteq File
  BY <1>1, <1>2 DEF Present
<1>4. TypeOK
  <2>1. run \in [Proc -> RunType]
    BY <1>1, NobodyIs
  <2>2. Stored
    BY <1>1, <1>3 DEF Stored, ChunkType, Seen
  <2>3. Counted
    BY <1>1, <1>3, IndexingAssumption DEF Counted, Init
  <2> QED
    BY <2>1, <2>2, <2>3, TypesAre
<1>5. Alone
  BY <1>1, NobodyIs DEF Alone, Alive
<1>6. ASSUME NEW p \in Proc PROVE Shape(p) /\ Runs(p)
  <2>1. run[p] = Idle
    BY <1>1
  <2> QED
    BY <2>1, NobodyIs DEF Shape, Runs, Reading
<1>7. ASSUME NEW f \in File PROVE Tables(f) /\ Current(f)
  <2>1. Of(f) = {} /\ state[f] = NoRow /\ Whole(f) = {} /\ Chunked(f) = {}
    BY <1>1 DEF Of, Whole, Chunked
  <2>2. \A p \in Proc : run[p].file # f /\ run[p].at = "free"
    BY <1>1, NobodyIs, IndexingAssumption
  <2>3. Tables(f)
    BY <2>1, <2>2 DEF Tables, Past, Agree, Distinct, Follows
  <2>4. f \notin astray => Settled(f)
    BY <1>1, <2>1, <2>2, RowsAre DEF Settled, Present
  <2> QED
    BY <2>3, <2>4 DEF Current
<1> QED
  BY <1>4, <1>5, <1>6, <1>7 DEF IInv

\* Every step keeps the invariant.
LEMMA NextKeeps == IInv /\ [Next]_vars => IInv'
<1> SUFFICES ASSUME IInv, [Next]_vars PROVE IInv'
  OBVIOUS
<1>1. ASSUME NEW f \in File, Remove(f) PROVE IInv'
  BY <1>1, RemoveKeeps
<1>2. ASSUME NEW f \in File, NEW c \in Content, Write(f, c) PROVE IInv'
  BY <1>2, WriteKeeps
<1>3. ASSUME NEW p \in Proc, WatchFires(p) PROVE IInv'
  BY <1>3, StartKeeps, TypesAre DEF WatchFires, IInv, Counted
<1>4. ASSUME NEW p \in Proc, NEW by \in {"route", "cli"}, Ask(p, by) PROVE IInv'
  <2>1. runs' \in 0 .. MaxRuns /\ watch' \in {"idle", "timer"} /\ Start(p, by)
    BY <1>4, TypesAre, IndexingAssumption DEF Ask, IInv, Counted
  <2> QED
    BY <2>1, StartKeeps
<1>5. ASSUME NEW p \in Proc, Step(p) PROVE IInv'
  BY <1>5, ScanKeeps, ReadKeeps, QueryKeeps, DeleteKeeps, UpsertKeeps, InsertKeeps, FailKeeps, ListKeeps,
     CleanKeeps, ForgetKeeps, FinishKeeps DEF Step
<1>6. ASSUME NEW ours \in {{"cli"}, {"watcher", "route"}}, Crash(ours) PROVE IInv'
  BY <1>6, CrashKeeps
<1>7. CASE UNCHANGED vars
  BY <1>7 DEF vars, IInv, TypeOK, Alone, Alive, Shape, Runs, Written, Follows, Of, Tables, Past, Busy, Agree,
     Distinct, Chunked, Whole, Current, Settled, Will, Present
<1> QED
  BY <1>1, <1>2, <1>3, <1>4, <1>5, <1>6, <1>7 DEF Next, PostIndex, Cli

\* The invariant of every behaviour.
THEOREM Inductive == Spec => []IInv
BY InitIs, NextKeeps, PTL DEF Spec

\* Types, for any files, contents, runs and bounds.
THEOREM IndexTypes == Spec => []TypeOK
<1>1. IInv => TypeOK
  BY DEF IInv
<1> QED
  BY <1>1, Inductive, PTL

\* A file that no run has at hand has one row for every chunk of the content that
\* its row in file_index_state stands for, for any files, contents, overlapping
\* runs, failures and crashes, but for the files that the property names.
THEOREM ChunksMatch == Spec => []TablesAgree
<1>1. IInv => TablesAgree
  <2> SUFFICES ASSUME IInv, NEW f \in File \ astray, \A p \in Alive : run[p].file # f
               PROVE  Chunked(f) = Whole(f) /\ Cardinality({k \in chunks : k.file = f}) = Cardinality(Whole(f))
    BY DEF TablesAgree
  <2>1. \A p \in Proc : ~Busy(p, f)
    BY DEF Busy, Alive
  <2>2. Agree(f)
    BY <2>1 DEF IInv, Tables
  <2>3. Of(f) = {k \in chunks : k.file = f}
    BY DEF Of
  <2> QED
    BY <2>2, <2>3, AsMany DEF IInv, Agree
<1> QED
  BY <1>1, Inductive, PTL

\* When the watcher is idle and no run under way the index is that of the workspace:
\* no change is lost because it came during a run or during the watcher's 3 s.
THEOREM NoChangeLost == Spec => []IndexIsCurrent
<1>1. IInv => IndexIsCurrent
  <2> SUFFICES ASSUME IInv, watch = "idle", Alive = {}, NEW f \in File \ astray PROVE state[f].sha = disk[f].sha
    BY DEF IndexIsCurrent
  <2>1. \A p \in Proc : run[p].at = "free" /\ run[p].todo = {} /\ run[p].gone = {}
    BY DEF Alive, IInv, Shape
  <2>2. \A p \in Proc : ~Will(p, f)
    BY <2>1 DEF Will, Reading
  <2> QED
    BY <2>2 DEF IInv, Current, Settled
<1> QED
  BY <1>1, Inductive, PTL

-----------------------------------------------------------------------------
(* Data retention *)

CONSTANTS Server, Tenant, Kept, NoServer, NoTenant, MaxJobs, MaxCrashes
VARIABLES lock, waiting, pc, who, todo, status, data, hold, failures, crashes,
          covered, late, foreign
Sweeps == INSTANCE Cleanup WITH faults <- failures, astray <- foreign

\* Whoever is at the tables holds the lock, has outlived it, or lost it to somebody
\* who deleted a lock that was not theirs.
LockedOrLate ==
    \A s \in Server : pc[s] \in Sweeps!Sweeping => lock = s \/ s \in late \/ foreign

\* The tenants a run counts as covered are on hold, and it never passed one of them.
CoveredHeld ==
    \A s \in Server :
        /\ covered[s] \subseteq hold
        /\ pc[s] = "delete" => who[s] \in Tenant /\ who[s] \notin covered[s]

\* The inductive invariant.
SweepInv == Sweeps!TypeOK /\ LockedOrLate /\ CoveredHeld

\* Before any server runs the inductive invariant holds.
LEMMA SweepInvStarts == ASSUME Sweeps!CleanupAssumption PROVE Sweeps!Init => SweepInv
<1> SUFFICES ASSUME Sweeps!Init PROVE SweepInv
  OBVIOUS
<1>1. Sweeps!TypeOK
  <2>1. data \in [Tenant -> SUBSET Sweeps!Kind] /\ status \in [Tenant -> {"active", "suspended", "deleted"}]
    BY DEF Sweeps!Init
  <2>2. 0 \in 0 .. MaxFaults /\ 0 \in 0 .. MaxCrashes
    BY DEF Sweeps!CleanupAssumption
  <2>3. /\ pc \in [Server -> Sweeps!Steps]
        /\ who \in [Server -> Tenant \cup {NoTenant}]
        /\ todo \in [Server -> SUBSET Tenant]
        /\ covered \in [Server -> SUBSET Tenant]
    BY DEF Sweeps!Init, Sweeps!Steps
  <2>4. hold \subseteq Tenant /\ late \subseteq Server
    BY DEF Sweeps!Init
  <2> QED
    BY <2>1, <2>2, <2>3, <2>4 DEF Sweeps!Init, Sweeps!TypeOK
<1>2. LockedOrLate
  BY DEF Sweeps!Init, LockedOrLate, Sweeps!Sweeping
<1>3. CoveredHeld
  BY DEF Sweeps!Init, CoveredHeld
<1> QED
  BY <1>1, <1>2, <1>3 DEF SweepInv

\* Every step of a run, of Redis, of the cron and of the others preserves it.
LEMMA SweepInvKept == ASSUME Sweeps!CleanupAssumption PROVE SweepInv /\ [Sweeps!Next]_Sweeps!vars => SweepInv'
<1> SUFFICES ASSUME SweepInv, [Sweeps!Next]_Sweeps!vars PROVE SweepInv'
  OBVIOUS
<1> USE DEF Sweeps!CleanupAssumption, SweepInv, Sweeps!Steps, Sweeps!Working, Sweeps!runVars, Sweeps!dbVars, Sweeps!boundVars, Sweeps!history
<1>1. ASSUME NEW s \in Server, Sweeps!Boot(s) PROVE SweepInv'
  <2>1. Sweeps!TypeOK'
    BY <1>1 DEF Sweeps!Boot, Sweeps!AddJob, Sweeps!Goto, Sweeps!TypeOK
  <2>2. LockedOrLate'
    BY <1>1 DEF Sweeps!Boot, Sweeps!AddJob, Sweeps!Goto, Sweeps!TypeOK, LockedOrLate, Sweeps!Sweeping
  <2>3. CoveredHeld'
    BY <1>1 DEF Sweeps!Boot, Sweeps!AddJob, Sweeps!Goto, Sweeps!TypeOK, CoveredHeld
  <2> QED
    BY <2>1, <2>2, <2>3
<1>2. ASSUME NEW s \in Server, Sweeps!Take(s) PROVE SweepInv'
  <2>1. Sweeps!TypeOK'
    BY <1>2 DEF Sweeps!Take, Sweeps!Goto, Sweeps!TypeOK
  <2>2. LockedOrLate'
    BY <1>2 DEF Sweeps!Take, Sweeps!Goto, Sweeps!TypeOK, LockedOrLate, Sweeps!Sweeping
  <2>3. CoveredHeld'
    BY <1>2 DEF Sweeps!Take, Sweeps!Goto, Sweeps!TypeOK, CoveredHeld
  <2> QED
    BY <2>1, <2>2, <2>3
<1>3. ASSUME NEW s \in Server, Sweeps!ReadLock(s) PROVE SweepInv'
  <2>1. Sweeps!TypeOK'
    BY <1>3 DEF Sweeps!ReadLock, Sweeps!Goto, Sweeps!Return, Sweeps!Continue, Sweeps!TypeOK
  <2>2. LockedOrLate'
    BY <1>3 DEF Sweeps!ReadLock, Sweeps!Goto, Sweeps!Return, Sweeps!Continue, Sweeps!TypeOK, LockedOrLate, Sweeps!Sweeping
  <2>3. CoveredHeld'
    BY <1>3 DEF Sweeps!ReadLock, Sweeps!Goto, Sweeps!Return, Sweeps!Continue, Sweeps!TypeOK, CoveredHeld
  <2> QED
    BY <2>1, <2>2, <2>3
<1>4. ASSUME NEW s \in Server, Sweeps!AcquireLock(s) PROVE SweepInv'
  <2>1. Sweeps!TypeOK'
    BY <1>4 DEF Sweeps!AcquireLock, Sweeps!Goto, Sweeps!Return, Sweeps!Continue, Sweeps!TypeOK
  <2>2. LockedOrLate'
    BY <1>4 DEF Sweeps!AcquireLock, Sweeps!Goto, Sweeps!Return, Sweeps!Continue, Sweeps!TypeOK, LockedOrLate, Sweeps!Sweeping
  <2>3. CoveredHeld'
    BY <1>4 DEF Sweeps!AcquireLock, Sweeps!Goto, Sweeps!Return, Sweeps!Continue, Sweeps!TypeOK, CoveredHeld
  <2> QED
    BY <2>1, <2>2, <2>3
<1>5. ASSUME NEW s \in Server, Sweeps!Sweep(s) PROVE SweepInv'
  <2>1. Sweeps!TypeOK'
    BY <1>5 DEF Sweeps!Sweep, Sweeps!Continue, Sweeps!TypeOK
  <2>2. LockedOrLate'
    BY <1>5 DEF Sweeps!Sweep, Sweeps!Continue, Sweeps!TypeOK, LockedOrLate, Sweeps!Sweeping
  <2>3. CoveredHeld'
    BY <1>5 DEF Sweeps!Sweep, Sweeps!Continue, Sweeps!TypeOK, CoveredHeld
  <2> QED
    BY <2>1, <2>2, <2>3
<1>6. ASSUME NEW s \in Server, Sweeps!CheckHold(s) PROVE SweepInv'
  <2>1. Sweeps!TypeOK'
    BY <1>6 DEF Sweeps!CheckHold, Sweeps!Goto, Sweeps!Continue, Sweeps!TypeOK
  <2>2. LockedOrLate'
    BY <1>6 DEF Sweeps!CheckHold, Sweeps!Goto, Sweeps!Continue, Sweeps!TypeOK, LockedOrLate, Sweeps!Sweeping
  <2>3. CoveredHeld'
    BY <1>6 DEF Sweeps!CheckHold, Sweeps!Goto, Sweeps!Continue, Sweeps!TypeOK, CoveredHeld
  <2> QED
    BY <2>1, <2>2, <2>3
<1>7. ASSUME NEW s \in Server, Sweeps!Suspend(s) PROVE SweepInv'
  <2>1. Sweeps!TypeOK'
    BY <1>7 DEF Sweeps!Suspend, Sweeps!Goto, Sweeps!TypeOK
  <2>2. LockedOrLate'
    BY <1>7 DEF Sweeps!Suspend, Sweeps!Goto, Sweeps!TypeOK, LockedOrLate, Sweeps!Sweeping
  <2>3. CoveredHeld'
    BY <1>7 DEF Sweeps!Suspend, Sweeps!Goto, Sweeps!TypeOK, CoveredHeld
  <2> QED
    BY <2>1, <2>2, <2>3
<1>8. ASSUME NEW s \in Server, Sweeps!StampLastRun(s) PROVE SweepInv'
  <2>1. Sweeps!TypeOK'
    BY <1>8 DEF Sweeps!StampLastRun, Sweeps!Goto, Sweeps!TypeOK
  <2>2. LockedOrLate'
    BY <1>8 DEF Sweeps!StampLastRun, Sweeps!Goto, Sweeps!TypeOK, LockedOrLate, Sweeps!Sweeping
  <2>3. CoveredHeld'
    BY <1>8 DEF Sweeps!StampLastRun, Sweeps!Goto, Sweeps!TypeOK, CoveredHeld
  <2> QED
    BY <2>1, <2>2, <2>3
<1>9. ASSUME NEW s \in Server, Sweeps!ReleaseLock(s) PROVE SweepInv'
  <2>1. Sweeps!TypeOK'
    BY <1>9 DEF Sweeps!ReleaseLock, Sweeps!Unlock, Sweeps!Return, Sweeps!Continue, Sweeps!TypeOK
  <2>2. LockedOrLate'
    BY <1>9 DEF Sweeps!ReleaseLock, Sweeps!Unlock, Sweeps!Return, Sweeps!Continue, Sweeps!TypeOK, LockedOrLate, Sweeps!Sweeping
  <2>3. CoveredHeld'
    BY <1>9 DEF Sweeps!ReleaseLock, Sweeps!Unlock, Sweeps!Return, Sweeps!Continue, Sweeps!TypeOK, CoveredHeld
  <2> QED
    BY <2>1, <2>2, <2>3
<1>10. ASSUME NEW s \in Server, Sweeps!CountFailure(s) PROVE SweepInv'
  <2>1. Sweeps!TypeOK'
    BY <1>10 DEF Sweeps!CountFailure, Sweeps!Goto, Sweeps!TypeOK
  <2>2. LockedOrLate'
    BY <1>10 DEF Sweeps!CountFailure, Sweeps!Goto, Sweeps!TypeOK, LockedOrLate, Sweeps!Sweeping
  <2>3. CoveredHeld'
    BY <1>10 DEF Sweeps!CountFailure, Sweeps!Goto, Sweeps!TypeOK, CoveredHeld
  <2> QED
    BY <2>1, <2>2, <2>3
<1>11. ASSUME NEW s \in Server, Sweeps!DeleteOld(s) PROVE SweepInv'
  <2>1. Sweeps!TypeOK'
    BY <1>11 DEF Sweeps!DeleteOld, Sweeps!Continue, Sweeps!TypeOK
  <2>2. LockedOrLate'
    BY <1>11 DEF Sweeps!DeleteOld, Sweeps!Continue, Sweeps!TypeOK, LockedOrLate, Sweeps!Sweeping
  <2>3. CoveredHeld'
    BY <1>11 DEF Sweeps!DeleteOld, Sweeps!Continue, Sweeps!TypeOK, CoveredHeld
  <2> QED
    BY <2>1, <2>2, <2>3
<1>12. ASSUME NEW s \in Server, Sweeps!Purge(s) PROVE SweepInv'
  <2>1. Sweeps!TypeOK'
    BY <1>12 DEF Sweeps!Purge, Sweeps!Goto, Sweeps!TypeOK
  <2>2. LockedOrLate'
    BY <1>12 DEF Sweeps!Purge, Sweeps!Goto, Sweeps!TypeOK, LockedOrLate, Sweeps!Sweeping
  <2>3. CoveredHeld'
    BY <1>12 DEF Sweeps!Purge, Sweeps!Goto, Sweeps!TypeOK, CoveredHeld
  <2> QED
    BY <2>1, <2>2, <2>3
<1>13. ASSUME NEW s \in Server, Sweeps!StepFails(s) PROVE SweepInv'
  <2>1. Sweeps!TypeOK'
    BY <1>13 DEF Sweeps!StepFails, Sweeps!Return, Sweeps!Continue, Sweeps!TypeOK
  <2>2. LockedOrLate'
    BY <1>13 DEF Sweeps!StepFails, Sweeps!Return, Sweeps!Continue, Sweeps!TypeOK, LockedOrLate, Sweeps!Sweeping
  <2>3. CoveredHeld'
    BY <1>13 DEF Sweeps!StepFails, Sweeps!Return, Sweeps!Continue, Sweeps!TypeOK, CoveredHeld
  <2> QED
    BY <2>1, <2>2, <2>3
<1>14. ASSUME NEW s \in Server, Sweeps!Crash(s) PROVE SweepInv'
  <2>1. Sweeps!TypeOK'
    BY <1>14 DEF Sweeps!Crash, Sweeps!Continue, Sweeps!TypeOK
  <2>2. LockedOrLate'
    BY <1>14 DEF Sweeps!Crash, Sweeps!Continue, Sweeps!TypeOK, LockedOrLate, Sweeps!Sweeping
  <2>3. CoveredHeld'
    BY <1>14 DEF Sweeps!Crash, Sweeps!Continue, Sweeps!TypeOK, CoveredHeld
  <2> QED
    BY <2>1, <2>2, <2>3
<1>15. CASE Sweeps!LockExpires
  <2>1. Sweeps!TypeOK'
    BY <1>15 DEF Sweeps!LockExpires, Sweeps!TypeOK
  <2>2. LockedOrLate'
    BY <1>15 DEF Sweeps!LockExpires, Sweeps!TypeOK, LockedOrLate, Sweeps!Sweeping
  <2>3. CoveredHeld'
    BY <1>15 DEF Sweeps!LockExpires, Sweeps!TypeOK, CoveredHeld
  <2> QED
    BY <2>1, <2>2, <2>3
<1>16. CASE Sweeps!Daily
  <2>1. Sweeps!TypeOK'
    BY <1>16 DEF Sweeps!Daily, Sweeps!AddJob, Sweeps!TypeOK
  <2>2. LockedOrLate'
    BY <1>16 DEF Sweeps!Daily, Sweeps!AddJob, Sweeps!TypeOK, LockedOrLate, Sweeps!Sweeping
  <2>3. CoveredHeld'
    BY <1>16 DEF Sweeps!Daily, Sweeps!AddJob, Sweeps!TypeOK, CoveredHeld
  <2> QED
    BY <2>1, <2>2, <2>3
<1>18. ASSUME NEW t \in Tenant, Sweeps!PlaceHold(t) PROVE SweepInv'
  <2>1. Sweeps!TypeOK'
    BY <1>18 DEF Sweeps!PlaceHold, Sweeps!TypeOK
  <2>2. LockedOrLate'
    BY <1>18 DEF Sweeps!PlaceHold, Sweeps!TypeOK, LockedOrLate, Sweeps!Sweeping
  <2>3. CoveredHeld'
    BY <1>18 DEF Sweeps!PlaceHold, Sweeps!TypeOK, CoveredHeld
  <2> QED
    BY <2>1, <2>2, <2>3
<1>19. ASSUME NEW t \in Tenant, Sweeps!LiftHold(t) PROVE SweepInv'
  <2>1. Sweeps!TypeOK'
    BY <1>19 DEF Sweeps!LiftHold, Sweeps!TypeOK
  <2>2. LockedOrLate'
    BY <1>19 DEF Sweeps!LiftHold, Sweeps!TypeOK, LockedOrLate, Sweeps!Sweeping
  <2>3. CoveredHeld'
    BY <1>19 DEF Sweeps!LiftHold, Sweeps!TypeOK, CoveredHeld
  <2> QED
    BY <2>1, <2>2, <2>3
<1>20. ASSUME NEW t \in Tenant, Sweeps!Age(t) PROVE SweepInv'
  <2>1. Sweeps!TypeOK'
    BY <1>20 DEF Sweeps!Age, Sweeps!TypeOK
  <2>2. LockedOrLate'
    BY <1>20 DEF Sweeps!Age, Sweeps!TypeOK, LockedOrLate, Sweeps!Sweeping
  <2>3. CoveredHeld'
    BY <1>20 DEF Sweeps!Age, Sweeps!TypeOK, CoveredHeld
  <2> QED
    BY <2>1, <2>2, <2>3
<1>21. CASE UNCHANGED Sweeps!vars
  BY <1>21 DEF Sweeps!vars, Sweeps!TypeOK, LockedOrLate, CoveredHeld
<1> QED
  BY <1>1, <1>2, <1>3, <1>4, <1>5, <1>6, <1>7, <1>8, <1>9, <1>10, <1>11, <1>12, <1>13, <1>14, <1>15, <1>16, <1>18, <1>19, <1>20, <1>21
  DEF Sweeps!Next, Sweeps!Progress, Sweeps!Batch

\* The inductive invariant holds of every behaviour.
THEOREM SweepInvariance ==
    ASSUME Sweeps!CleanupAssumption
    PROVE  Sweeps!Spec => []SweepInv
<1>1. Sweeps!Init => SweepInv
  BY SweepInvStarts
<1>2. SweepInv /\ [Sweeps!Next]_Sweeps!vars => SweepInv'
  BY SweepInvKept
<1> QED
  BY <1>1, <1>2, PTL DEF Sweeps!Spec

\* Types, for any servers, tenants and bounds.
THEOREM SweepTypes ==
    ASSUME Sweeps!CleanupAssumption
    PROVE  Sweeps!Spec => []Sweeps!TypeOK
<1>1. SweepInv => Sweeps!TypeOK
  BY DEF SweepInv
<1> QED
  BY <1>1, SweepInvariance, PTL

\* However many servers race for the lock, two runs are at the tables together only
\* after a lock was outlived or deleted by somebody else.
THEOREM Exclusion ==
    ASSUME Sweeps!CleanupAssumption
    PROVE  Sweeps!Spec => []Sweeps!RunsExclude
<1>1. SweepInv => Sweeps!RunsExclude
  <2> SUFFICES ASSUME SweepInv, NEW r \in Server, NEW s \in Server, r # s,
                      pc[r] \in Sweeps!Sweeping, pc[s] \in Sweeps!Sweeping
               PROVE  foreign \/ {r, s} \cap late # {}
    BY DEF Sweeps!RunsExclude
  <2>1. /\ lock = r \/ r \in late \/ foreign
        /\ lock = s \/ s \in late \/ foreign
    BY DEF SweepInv, LockedOrLate
  <2> QED
    BY <2>1
<1> QED
  BY <1>1, SweepInvariance, PTL

-----------------------------------------------------------------------------
\* The body of the action property HoldsRespected.
HoldStep ==
    \A t \in hold : LET gone == data[t] \ data'[t] IN
        \/ gone = {}
        \/ gone = {"swept"} /\ \E s \in Server : pc[s] = "sweep"
        \/ gone = {"old"} /\ \E s \in Server : pc[s] = "delete" /\ who[s] = t /\ t \notin covered[s]

\* No single step removes a row of a tenant on hold, but the batches that look at no
\* hold, and one of a run that had checked the tenant before the hold was placed.
LEMMA StepRespectsHolds == SweepInv /\ [Sweeps!Next]_Sweeps!vars => HoldStep
<1> SUFFICES ASSUME SweepInv, [Sweeps!Next]_Sweeps!vars, NEW t \in hold, data[t] \ data'[t] # {}
             PROVE  \/ data[t] \ data'[t] = {"swept"} /\ \E s \in Server : pc[s] = "sweep"
                    \/ /\ data[t] \ data'[t] = {"old"}
                       /\ \E s \in Server : pc[s] = "delete" /\ who[s] = t /\ t \notin covered[s]
  BY DEF HoldStep
<1> USE DEF SweepInv, Sweeps!TypeOK, Sweeps!runVars, Sweeps!dbVars, Sweeps!boundVars, Sweeps!history
<1>0. ASSUME NEW s \in Server, Sweeps!Sweep(s) PROVE data[t] \ data'[t] = {"swept"} /\ pc[s] = "sweep"
  BY <1>0 DEF Sweeps!Sweep
<1>1. ASSUME NEW s \in Server, Sweeps!DeleteOld(s)
      PROVE  data[t] \ data'[t] = {"old"} /\ pc[s] = "delete" /\ who[s] = t /\ t \notin covered[s]
  BY <1>1 DEF Sweeps!DeleteOld, CoveredHeld
<1>2. ASSUME NEW s \in Server, Sweeps!Purge(s) PROVE FALSE
  BY <1>2 DEF Sweeps!Purge
<1>3. ASSUME NEW u \in Tenant, Sweeps!Age(u) PROVE FALSE
  BY <1>3 DEF Sweeps!Age
<1>4. ASSUME NEW s \in Server, Sweeps!Progress(s) \/ Sweeps!StepFails(s) \/ Sweeps!Crash(s) PROVE data' = data
  BY <1>4 DEF Sweeps!Progress, Sweeps!Boot, Sweeps!Take, Sweeps!ReadLock, Sweeps!AcquireLock, Sweeps!CheckHold, Sweeps!Suspend,
      Sweeps!StampLastRun, Sweeps!ReleaseLock, Sweeps!CountFailure, Sweeps!StepFails, Sweeps!Crash
<1>5. CASE Sweeps!LockExpires \/ Sweeps!Daily \/ UNCHANGED Sweeps!vars
  BY <1>5 DEF Sweeps!LockExpires, Sweeps!Daily, Sweeps!vars
<1>6. ASSUME NEW u \in Tenant, Sweeps!PlaceHold(u) \/ Sweeps!LiftHold(u) PROVE data' = data
  BY <1>6 DEF Sweeps!PlaceHold, Sweeps!LiftHold
<1> QED
  BY <1>0, <1>1, <1>2, <1>3, <1>4, <1>5, <1>6 DEF Sweeps!Next, Sweeps!Batch

\* For any number of overlapping runs: of a tenant on hold nothing is removed but
\* what is swept whatever the holds, and conversations by a run that looked before
\* (cleanupService.ts:99-231).
THEOREM HoldsKept ==
    ASSUME Sweeps!CleanupAssumption
    PROVE  Sweeps!Spec => Sweeps!HoldsRespected
<1>1. SweepInv /\ [Sweeps!Next]_Sweeps!vars => [HoldStep]_Sweeps!vars
  BY StepRespectsHolds
<1> QED
  BY <1>1, SweepInvariance, PTL DEF Sweeps!Spec, Sweeps!HoldsRespected, HoldStep

-----------------------------------------------------------------------------
(* Conversations *)

CONSTANTS Req, Conv, NoConv, Wordy, Limit, SumOver, Keep
VARIABLES convs, spent, dropping, msgs, req, summary, polling, worker, jobs, stalls,
          processed, saved, handled, lost, again, errors
Chats == INSTANCE Conversations WITH job <- jobs, faults <- errors

\* The steps of a worker; a worker whose rows are of R.
Ats == {"down", "idle", "rows", "check", "generate", "save", "mark"}
Worker(R) == [at : Ats, msg : Req \cup {Chats!NoReq}, rows : R]
Holds(s) == worker[s].msg # Chats!NoReq

\* Types, as far as they matter here.
WorkerTypes == worker \in [Server -> Worker({worker[s].rows : s \in Server})]
Types ==
    /\ jobs \in [Req \cup Conv -> {"none", "waiting", "active", "insert", "completed", "failed"}]
    /\ saved \in [Req -> Nat] /\ again \in [Req -> Nat] /\ processed \subseteq Req /\ WorkerTypes

\* A worker with a message is at one of its steps, and the message's job is its own.
Holding(s) == /\ Holds(s) <=> worker[s].at \in {"check", "generate", "save", "mark"}
              /\ Holds(s) => jobs[worker[s].msg] = "active"
OneHolder == \A s, t \in Server : Holds(s) /\ worker[s].msg = worker[t].msg => s = t

\* A message is saved once more than faults account for only when it is in the set,
\* or its worker is about to put it there; and not while it is being extracted.
Once(m) ==
    /\ saved[m] <= 1 + again[m]
    /\ saved[m] > again[m] => m \in processed \/ \E s \in Server : worker[s].msg = m /\ worker[s].at = "mark"
    /\ \A s \in Server : worker[s].msg = m /\ worker[s].at \in {"generate", "save"} => saved[m] <= again[m]

\* The inductive invariant.
ChatInv == Types /\ (\A s \in Server : Holding(s)) /\ OneHolder /\ \A m \in Req : Once(m)

-----------------------------------------------------------------------------
\* Only the worker of s changes, to r.
Goes(s, r) == worker'[s] = r /\ \A t \in Server \ {s} : worker'[t] = worker[t]
LEMMA GotoIs ==
    ASSUME WorkerTypes, NEW s \in Server, NEW R, NEW r \in Worker(R), worker' = [worker EXCEPT ![s] = r]
    PROVE  WorkerTypes' /\ Goes(s, r)
<1>1. Goes(s, r) /\ worker' = [t \in Server |-> worker'[t]]
  BY DEF WorkerTypes, Goes
<1>2. \A t \in Server : worker'[t] \in Worker({worker'[u].rows : u \in Server})
  <2> SUFFICES ASSUME NEW t \in Server PROVE worker'[t] \in Worker({worker'[u].rows : u \in Server})
    OBVIOUS
  <2>1. CASE t = s
    BY <1>1, <2>1 DEF Goes, Worker
  <2>2. CASE t # s
    BY <1>1, <2>2 DEF Goes, Worker, WorkerTypes
  <2> QED
    BY <2>1, <2>2
<1> QED
  BY <1>1, <1>2 DEF WorkerTypes

\* What a worker is, and one that waits.
LEMMA WorkerIs ==
    ASSUME WorkerTypes, NEW s \in Server
    PROVE  /\ worker[s] \in Worker({worker[s].rows})
           /\ worker[s].at \in Ats /\ worker[s].msg \in Req \cup {Chats!NoReq}
BY DEF WorkerTypes, Worker

LEMMA IdleIs == Chats!Idle \in Worker({<<>>}) /\ Chats!Idle.at = "idle" /\ Chats!Idle.msg = Chats!NoReq
BY DEF Chats!Idle, Worker, Ats


\* Faults are counted, and `more' counts of m.
Grows(more) == again' \in [Req -> Nat] /\ \A m \in Req : again[m] <= again'[m] /\ (m \in more => again[m] < again'[m])
LEMMA AgainGrows == ASSUME Types, NEW ms, Chats!Again(ms) PROVE Grows(ms)
BY DEF Types, Chats!Again, Grows
LEMMA SameGrows == ASSUME Types, again' = again PROVE Grows({})
BY DEF Types, Grows

\* A message that no step extracts, saves or forgets has given what it had.
LEMMA OnceStays ==
    ASSUME NEW m \in Req, Types, Once(m), saved'[m] = saved[m], NEW more, Grows(more),
           m \in processed => m \in processed' \cup more,
           \A s \in Server : worker'[s].msg = m /\ worker'[s].at \in {"generate", "save"} =>
              saved[m] <= again[m] \/ (worker[s].msg = m /\ worker[s].at \in {"generate", "save"}),
           \A s \in Server : worker[s].msg = m /\ worker[s].at = "mark" =>
              (worker'[s].msg = m /\ worker'[s].at = "mark") \/ m \in processed' \cup more
    PROVE  Once(m)'
<1>1. saved[m] \in Nat /\ again[m] \in Nat /\ again'[m] \in Nat /\ again[m] <= again'[m] /\ (m \in more => again[m] < again'[m])
  BY DEF Types, Grows
<1>2. saved'[m] <= 1 + again'[m]
  BY <1>1 DEF Once
<1>3. ASSUME saved'[m] > again'[m]
      PROVE  m \in processed' \/ \E s \in Server : worker'[s].msg = m /\ worker'[s].at = "mark"
  <2>1. saved[m] > again[m] /\ m \notin more
    BY <1>1, <1>3 DEF Once
  <2> QED
    BY <2>1 DEF Once
<1>4. ASSUME NEW s \in Server, worker'[s].msg = m, worker'[s].at \in {"generate", "save"} PROVE saved'[m] <= again'[m]
  <2>1. saved[m] <= again[m]
    BY <1>4 DEF Once
  <2> QED
    BY <1>1, <2>1
<1> QED
  BY <1>2, <1>3, <1>4 DEF Once

\* Jobs that are active stay so, but for that of `m'.
JobsGo(m) ==
    /\ jobs' \in [Req \cup Conv -> {"none", "waiting", "active", "insert", "completed", "failed"}]
    /\ \A k \in Req \ {m} : jobs[k] = "active" => jobs'[k] = "active"

\* Forgetting old jobs leaves the active ones.
LEMMA JobForgotten ==
    ASSUME Types, NEW m \in Req \cup Conv, NEW js \in SUBSET (Req \cup Conv), Chats!Forget(m, js)
    PROVE  JobsGo(m)
<1>1. PICK old \in SUBSET (Chats!Ended(js) \ {m}) :
        jobs' = [k \in DOMAIN jobs |-> IF k = m THEN "completed" ELSE IF k \in old THEN "none" ELSE jobs[k]]
  BY DEF Chats!Forget
<1>2. \A k \in old : jobs[k] # "active"
  BY DEF Chats!Ended
<1> QED
  BY <1>1, <1>2 DEF Types, JobsGo

\* A worker without a message goes on without one.
LEMMA IdleKeeps ==
    ASSUME ChatInv, NEW s \in Server, ~Holds(s), NEW R, NEW r \in Worker(R), r.msg = Chats!NoReq,
           r.at \notin {"check", "generate", "save", "mark"}, Chats!Goto(s, r), JobsGo(Chats!NoReq), Chats!NoReq \notin Req,
           UNCHANGED <<processed, saved, again>>
    PROVE  ChatInv'
<1>1. Types /\ WorkerTypes /\ WorkerTypes' /\ Goes(s, r)
  BY GotoIs DEF ChatInv, Types, Chats!Goto
<1>2. Types'
  BY <1>1 DEF Types, JobsGo
<1>0. Grows({})
  BY <1>1, SameGrows
<1>3. \A t \in Server : Holds(t)' => t # s /\ worker'[t] = worker[t] /\ worker[t].msg \in Req
  BY <1>1, WorkerIs DEF Holds, Goes
<1>4. \A t \in Server : Holding(t)'
  <2>1. Holding(s)'
    BY <1>1, <1>3 DEF Holding, Holds, Goes
  <2>2. ASSUME NEW t \in Server \ {s} PROVE Holding(t)'
    BY <1>1, <1>3 DEF ChatInv, Holding, Holds, Goes, JobsGo
  <2> QED
    BY <2>1, <2>2
<1>5. OneHolder'
  BY <1>3 DEF ChatInv, OneHolder, Holds
<1>6. ASSUME NEW m \in Req PROVE Once(m)'
  BY <1>0, <1>1, <1>3, OnceStays DEF ChatInv, Goes, Holds
<1> QED
  BY <1>2, <1>4, <1>5, <1>6 DEF ChatInv

\* A worker goes on with its message.
LEMMA HolderKeeps ==
    ASSUME ChatInv, NEW s \in Server, NEW at \in {"generate", "save", "mark"}, Holds(s),
           Chats!Goto(s, [worker[s] EXCEPT !.at = at]), UNCHANGED <<jobs, processed>>, NEW more, Grows(more),
           saved' \in [Req -> Nat], \A m \in Req : m # worker[s].msg => saved'[m] = saved[m],
           NEW m \in Req, m = worker[s].msg, Once(m)'
    PROVE  ChatInv'
<1> DEFINE r == [worker[s] EXCEPT !.at = at]
<1>1. Types /\ WorkerTypes
  BY DEF ChatInv, Types
<1>2. r \in Worker({worker[s].rows}) /\ r.at = at /\ r.msg = m
  <2>1. worker[s] \in Worker({worker[s].rows}) /\ at \in Ats
    BY <1>1, WorkerIs DEF Ats
  <2> QED
    BY <2>1 DEF Worker, Ats
<1> HIDE DEF r
<1>3. WorkerTypes' /\ Goes(s, r)
  BY <1>1, <1>2, GotoIs DEF Types, Chats!Goto, r
<1>4. Types'
  BY <1>1, <1>3 DEF Types, Grows
<1>5. \A t \in Server : worker'[t].msg = worker[t].msg
  BY <1>2, <1>3 DEF Goes
<1>6. \A t \in Server : Holding(t)'
  <2>1. Holding(s)'
    BY <1>2, <1>3, <1>5 DEF ChatInv, Holding, Holds, Goes
  <2>2. ASSUME NEW t \in Server \ {s} PROVE Holding(t)'
    BY <1>3 DEF ChatInv, Holding, Holds, Goes
  <2> QED
    BY <2>1, <2>2
<1>7. OneHolder'
  BY <1>5 DEF ChatInv, OneHolder, Holds
<1>8. ASSUME NEW k \in Req \ {m} PROVE Once(k)'
  <2>1. \A t \in Server : worker[t].msg = k \/ worker'[t].msg = k => worker'[t] = worker[t]
    BY <1>2, <1>3 DEF Goes
  <2> QED
    BY <1>1, <2>1, OnceStays DEF ChatInv
<1> QED
  BY <1>4, <1>6, <1>7, <1>8 DEF ChatInv

\* A worker is done with its message, which it may have saved.
LEMMA DoneKeeps ==
    ASSUME ChatInv, NEW s \in Server, Holds(s), NEW R, NEW r \in Worker(R), r.msg = Chats!NoReq, r.at \in {"idle", "down"},
           Chats!Goto(s, r), Chats!NoReq \notin Req, NEW m \in Req, m = worker[s].msg, JobsGo(m),
           NEW more, Grows(more), processed \subseteq processed', processed' \subseteq Req,
           \/ saved' = saved /\ (worker[s].at = "mark" => m \in processed' \cup more)
           \/ worker[s].at = "save" /\ saved' = [saved EXCEPT ![m] = @ + 1] /\ m \in more
    PROVE  ChatInv'
<1>1. Types /\ WorkerTypes /\ WorkerTypes' /\ Goes(s, r)
  BY GotoIs DEF ChatInv, Types, Chats!Goto
<1>2. Types'
  BY <1>1 DEF Types, JobsGo, Grows
<1>3. \A t \in Server : Holds(t)' => t # s /\ worker'[t] = worker[t] /\ worker[t].msg \in Req \ {m}
  BY <1>1, WorkerIs DEF Holds, Goes, ChatInv, OneHolder
<1>4. \A t \in Server : Holding(t)'
  <2>1. Holding(s)'
    BY <1>1, <1>3 DEF Holding, Holds, Goes
  <2>2. ASSUME NEW t \in Server \ {s} PROVE Holding(t)'
    BY <1>1, <1>3 DEF ChatInv, Holding, Holds, Goes, JobsGo
  <2> QED
    BY <2>1, <2>2
<1>5. OneHolder'
  BY <1>3 DEF ChatInv, OneHolder, Holds
<1>6. ASSUME NEW k \in Req PROVE Once(k)'
  <2>1. \A t \in Server : worker'[t].msg = k => worker'[t] = worker[t]
    BY <1>3 DEF Holds
  <2>2. CASE saved'[k] = saved[k] /\ (k = m /\ worker[s].at = "mark" => m \in processed' \cup more)
    <3>1. \A t \in Server : worker[t].msg = k /\ worker[t].at = "mark" => worker'[t] = worker[t] \/ k \in processed' \cup more
      BY <1>1, <2>2 DEF Goes
    <3> QED
      BY <1>1, <2>1, <2>2, <3>1, OnceStays DEF ChatInv
  <2>3. CASE k = m /\ worker[s].at = "save" /\ saved' = [saved EXCEPT ![m] = @ + 1] /\ m \in more
    <3>1. saved[m] \in Nat /\ saved'[m] = saved[m] + 1 /\ again[m] \in Nat /\ again'[m] \in Nat /\ again[m] < again'[m]
      BY <1>1, <2>3 DEF Types, Grows
    <3>2. saved[m] <= again[m]
      BY <2>3 DEF ChatInv, Once
    <3>3. saved'[m] <= again'[m] /\ saved'[m] <= 1 + again'[m] /\ ~(saved'[m] > again'[m])
      BY <3>1, <3>2
    <3> QED
      BY <2>3, <3>3 DEF Once
  <2>4. saved' = [saved EXCEPT ![m] = @ + 1] => k = m \/ saved'[k] = saved[k]
    BY <1>1 DEF Types
  <2> QED
    BY <2>2, <2>3, <2>4
<1> QED
  BY <1>2, <1>4, <1>5, <1>6 DEF ChatInv

\* Nothing but jobs without a worker, or conversations, changes.
LEMMA OthersKeep ==
    ASSUME ChatInv, NEW m, \A s \in Server : Holds(s) => worker[s].msg # m, JobsGo(m), UNCHANGED <<worker, saved>>,
           NEW more, Grows(more), processed \subseteq processed' \cup more, processed' \subseteq Req, Chats!NoReq \notin Req
    PROVE  ChatInv'
<1>1. Types'
  BY DEF ChatInv, Types, WorkerTypes, JobsGo, Grows
<1>2. ASSUME NEW s \in Server PROVE Holding(s)'
  BY WorkerIs DEF ChatInv, Types, Holding, Holds, JobsGo
<1>3. OneHolder'
  BY DEF ChatInv, OneHolder, Holds
<1>4. ASSUME NEW k \in Req PROVE Once(k)'
  BY OnceStays DEF ChatInv
<1> QED
  BY <1>1, <1>2, <1>3, <1>4 DEF ChatInv

-----------------------------------------------------------------------------
(* The steps of Conversations *)

\* Requests and their rows do not matter to the workers.
LEMMA RequestKeeps ==
    ASSUME ChatInv, Chats!NoReq \notin Req, UNCHANGED <<Chats!memory, again, jobs>>
    PROVE  ChatInv'
BY DEF ChatInv, Types, WorkerTypes, Holding, Holds, OneHolder, Once, Chats!memory

\* A server dies; a message about to be marked may be done again.
LEMMA DiesKeeps ==
    ASSUME ChatInv, Chats!NoReq \notin Req, NEW s \in Server, NEW qs, Chats!Dies(s, qs), UNCHANGED <<processed, saved>>
    PROVE  ChatInv'
<1> DEFINE r == [Chats!Idle EXCEPT !.at = "down"]
<1>1. r \in Worker({<<>>}) /\ r.at = "down" /\ r.msg = Chats!NoReq
  BY IdleIs DEF Worker, Ats
<1> HIDE DEF r
<1> DEFINE more == {m \in Req : m = worker[s].msg /\ worker[s].at = "mark"}
<1>2. /\ Chats!Goto(s, r) /\ Chats!Again(more) /\ Grows(more) /\ Types
      /\ worker[s].msg \in Req \cup {Chats!NoReq} /\ processed \subseteq Req
  BY WorkerIs, AgainGrows DEF Chats!Dies, Chats!Goto, r, ChatInv, Types
<1>3. \A m : JobsGo(m)
  <2>1. PICK cs \in SUBSET Chats!Inserting : jobs' = [j \in DOMAIN jobs |-> IF j \in cs THEN "active" ELSE jobs[j]]
    BY DEF Chats!Dies
  <2> QED
    BY <1>2, <2>1 DEF JobsGo, Types
<1>4. CASE Holds(s)
  <2>1. PICK m \in Req : m = worker[s].msg
    BY <1>2, <1>4 DEF Holds
  <2> QED
    BY <1>1, <1>2, <1>3, <1>4, <2>1, DoneKeeps
<1>5. CASE ~Holds(s)
  <2>1. more = {}
    BY <1>2, <1>5, WorkerIs DEF Holds, ChatInv, Holding, Types
  <2>2. again' = again
    BY <1>2, <2>1 DEF Chats!Again, Types
  <2> QED
    BY <1>1, <1>2, <1>3, <1>5, <2>2, IdleKeeps
<1> QED
  BY <1>4, <1>5

\* A worker that looks for work.
LEMMA LookingKeeps ==
    ASSUME ChatInv, Chats!NoReq \notin Req, NEW s \in Server, Chats!Start(s) \/ Chats!Poll(s) \/ Chats!PollRow(s)
    PROVE  ChatInv'
<1>1. /\ ~Holds(s) /\ UNCHANGED <<processed, saved, again>> /\ Types /\ WorkerTypes
      /\ worker[s] \in Worker({worker[s].rows})
  BY WorkerIs DEF ChatInv, Types, Holding, Chats!Start, Chats!Poll, Chats!PollRow, Chats!history
<1>2. JobsGo(Chats!NoReq)
  <2>1. jobs' = jobs \/ \E m : jobs[m] = "none" /\ jobs' = [jobs EXCEPT ![m] = "waiting"]
    BY DEF Chats!Start, Chats!Poll, Chats!PollRow, Chats!Add
  <2> QED
    BY <1>1, <2>1 DEF JobsGo, Types
<1>3. ASSUME NEW R, NEW r \in Worker(R), Chats!Goto(s, r), r.msg = Chats!NoReq, r.at \notin {"check", "generate", "save", "mark"}
      PROVE  ChatInv'
  BY <1>1, <1>2, <1>3, IdleKeeps
<1>4. CASE Chats!Goto(s, Chats!Idle)
  BY <1>3, <1>4, IdleIs
<1>5. CASE Chats!Poll(s)
  <2> DEFINE r == [Chats!Idle EXCEPT !.at = "rows", !.rows = Chats!Oldest]
  <2>1. r \in Worker({Chats!Oldest}) /\ r.msg = Chats!NoReq /\ r.at = "rows"
    BY IdleIs DEF Worker, Ats
  <2>2. Chats!Goto(s, r)
    BY <1>5 DEF Chats!Poll
  <2> HIDE DEF r
  <2> QED
    BY <1>3, <2>1, <2>2
<1>6. CASE worker[s].at = "rows" /\ Chats!Goto(s, [worker[s] EXCEPT !.rows = Tail(@)])
  <2> DEFINE r == [worker[s] EXCEPT !.rows = Tail(@)]
  <2>1. r \in Worker({Tail(worker[s].rows)}) /\ r.msg = Chats!NoReq /\ r.at = "rows"
    BY <1>1, <1>6 DEF Worker, Ats, Holds
  <2>2. Chats!Goto(s, r)
    BY <1>6
  <2> HIDE DEF r
  <2> QED
    BY <1>3, <2>1, <2>2
<1>7. Chats!PollRow(s) => worker[s].at = "rows" /\ (Chats!Goto(s, Chats!Idle) \/ Chats!Goto(s, [worker[s] EXCEPT !.rows = Tail(@)]))
  BY DEF Chats!PollRow, Chats!Later
<1>8. Chats!Start(s) => Chats!Goto(s, Chats!Idle)
  BY DEF Chats!Start, Chats!Goto
<1> QED
  BY <1>4, <1>5, <1>6, <1>7, <1>8

\* A worker takes a waiting message, which is nobody else's.
LEMMA TakeKeeps ==
    ASSUME ChatInv, Chats!NoReq \notin Req, NEW s \in Server, NEW m \in Req, Chats!Take(s, m)
    PROVE  ChatInv'
<1> DEFINE r == [Chats!Idle EXCEPT !.at = "check", !.msg = m]
<1>1. r \in Worker({<<>>}) /\ r.at = "check" /\ r.msg = m
  BY IdleIs DEF Worker, Ats
<1> HIDE DEF r
<1>2. /\ Chats!Goto(s, r) /\ jobs[m] = "waiting" /\ jobs' = [jobs EXCEPT ![m] = "active"]
      /\ UNCHANGED <<processed, saved, again>> /\ ~Holds(s) /\ Types /\ WorkerTypes
  BY DEF Chats!Take, r, Chats!history, ChatInv, Holding, Types
<1>3. WorkerTypes' /\ Goes(s, r)
  BY <1>1, <1>2, GotoIs DEF Chats!Goto
<1>4. Types'
  BY <1>2, <1>3 DEF Types
<1>0. Grows({})
  BY <1>2, SameGrows
<1>5. \A t \in Server : worker[t].msg # m
  BY <1>2 DEF ChatInv, Holding, Holds
<1>6. \A t \in Server : Holding(t)'
  <2>1. Holding(s)'
    BY <1>1, <1>2, <1>3 DEF Holding, Holds, Goes, Types
  <2>2. ASSUME NEW t \in Server \ {s} PROVE Holding(t)'
    BY <1>2, <1>3, <1>5 DEF ChatInv, Holding, Holds, Goes, Types
  <2> QED
    BY <2>1, <2>2
<1>7. OneHolder'
  BY <1>1, <1>2, <1>3, <1>5 DEF ChatInv, OneHolder, Holds, Goes
<1>8. ASSUME NEW k \in Req PROVE Once(k)'
  <2>1. \A t \in Server : worker'[t] = worker[t] \/ (worker'[t].at = "check" /\ ~Holds(t))
    BY <1>1, <1>2, <1>3 DEF Goes
  <2> QED
    BY <1>0, <1>2, <2>1, OnceStays DEF ChatInv, Holds
<1> QED
  BY <1>4, <1>6, <1>7, <1>8 DEF ChatInv

\* The job of a finished message.
LEMMA CompleteIs ==
    ASSUME ChatInv, NEW s \in Server, NEW m \in Req, worker[s].msg = m, Chats!Complete(s)
    PROVE  Chats!Goto(s, Chats!Idle) /\ JobsGo(m)
BY JobForgotten DEF Chats!Complete, ChatInv

\* The steps of a job.
LEMMA WorkKeeps ==
    ASSUME ChatInv, Chats!NoReq \notin Req, NEW s \in Server, Chats!Check(s) \/ Chats!Generate(s) \/ Chats!Save(s) \/ Chats!Mark(s)
    PROVE  ChatInv'
<1>1. Holds(s) /\ Types /\ WorkerTypes
  BY DEF ChatInv, Holding, Types, Chats!Check, Chats!Generate, Chats!Save, Chats!Insert, Chats!Mark
<1>2. PICK m \in Req : m = worker[s].msg
  BY <1>1, WorkerIs DEF Holds
<1>3. /\ Once(m) /\ processed \subseteq Req /\ saved \in [Req -> Nat] /\ again \in [Req -> Nat]
      /\ \A t \in Server \ {s} : worker[t].msg # m
  BY <1>1, <1>2 DEF ChatInv, Types, OneHolder, Holds
<1>4. \A at \in Ats : Chats!Goto(s, [worker[s] EXCEPT !.at = at]) =>
         /\ worker'[s].msg = m /\ worker'[s].at = at
         /\ \A t \in Server \ {s} : worker'[t] = worker[t]
  <2> SUFFICES ASSUME NEW at \in Ats, Chats!Goto(s, [worker[s] EXCEPT !.at = at])
               PROVE  worker'[s].msg = m /\ worker'[s].at = at /\ \A t \in Server \ {s} : worker'[t] = worker[t]
    OBVIOUS
  <2> DEFINE r == [worker[s] EXCEPT !.at = at]
  <2>1. r \in Worker({worker[s].rows}) /\ r.at = at /\ r.msg = m
    <3>1. worker[s] \in Worker({worker[s].rows})
      BY <1>1, WorkerIs
    <3> QED
      BY <1>2, <3>1 DEF Worker
  <2> HIDE DEF r
  <2>2. Goes(s, r)
    BY <1>1, <2>1, GotoIs DEF Chats!Goto, r
  <2> QED
    BY <2>1, <2>2 DEF Goes
<1>5. ASSUME NEW more, Chats!Complete(s), Grows(more), processed \subseteq processed', processed' \subseteq Req,
             \/ saved' = saved /\ (worker[s].at = "mark" => m \in processed' \cup more)
             \/ worker[s].at = "save" /\ saved' = [saved EXCEPT ![m] = @ + 1] /\ m \in more
      PROVE  ChatInv'
  <2>1. Chats!Goto(s, Chats!Idle) /\ JobsGo(m)
    BY <1>2, <1>5, CompleteIs
  <2> QED
    BY <1>1, <1>2, <1>5, <2>1, IdleIs, DoneKeeps
<1>0. again' = again => Grows({})
  BY <1>1, SameGrows
<1>6. CASE Chats!Check(s)
  <2>1. CASE Chats!Complete(s) /\ again' = again
    <3>1. UNCHANGED <<processed, saved>> /\ worker[s].at = "check"
      BY <1>6 DEF Chats!Check
    <3> QED
      BY <1>0, <1>3, <1>5, <2>1, <3>1
  <2>2. CASE /\ Chats!Goto(s, [worker[s] EXCEPT !.at = "generate"]) /\ jobs' = jobs
             /\ IF m \in processed THEN Chats!Fault /\ Chats!Again({m}) ELSE UNCHANGED <<errors, again>>
    <3> DEFINE more == IF m \in processed THEN {m} ELSE {}
    <3>1. UNCHANGED <<processed, saved>> /\ Grows(more) /\ worker[s].at = "check"
      BY <1>0, <1>1, <1>2, <1>6, <2>2, AgainGrows DEF Chats!Check
    <3>2. saved'[m] <= again'[m] /\ again'[m] \in Nat
      <4>1. m \notin processed => saved[m] <= again[m]
        BY <1>2, <1>3, <3>1 DEF Once
      <4>2. saved[m] <= 1 + again[m] /\ saved[m] \in Nat /\ again[m] \in Nat
        BY <1>3 DEF Once
      <4>3. again'[m] \in Nat /\ again[m] <= again'[m] /\ (m \in processed => again[m] < again'[m])
        BY <3>1 DEF Grows
      <4> QED
        BY <3>1, <4>1, <4>2, <4>3
    <3>3. Once(m)'
      <4>1. saved'[m] \in Nat /\ saved'[m] <= 1 + again'[m] /\ ~(saved'[m] > again'[m])
        BY <1>3, <3>1, <3>2
      <4> QED
        BY <3>2, <4>1 DEF Once
    <3> QED
      BY <1>1, <1>2, <1>3, <2>2, <3>1, <3>3, HolderKeeps
  <2> QED
    BY <1>2, <1>6, <2>1, <2>2 DEF Chats!Check
<1>7. CASE Chats!Generate(s)
  <2>1. UNCHANGED <<processed, saved, again>> /\ worker[s].at = "generate"
    BY <1>7 DEF Chats!Generate
  <2>2. CASE Chats!Complete(s)
    BY <1>0, <1>3, <1>5, <2>1, <2>2
  <2>3. ASSUME NEW at \in {"save", "mark"}, Chats!Goto(s, [worker[s] EXCEPT !.at = at]), jobs' = jobs
        PROVE  ChatInv'
    <3>1. Once(m)'
      <4>1. saved[m] <= again[m] /\ saved[m] \in Nat /\ again[m] \in Nat
        BY <1>2, <1>3, <2>1 DEF Once
      <4>2. saved'[m] <= again'[m] /\ saved'[m] <= 1 + again'[m] /\ ~(saved'[m] > again'[m])
        BY <2>1, <4>1
      <4> QED
        BY <4>2 DEF Once
    <3> QED
      BY <1>0, <1>1, <1>2, <1>3, <2>1, <2>3, <3>1, HolderKeeps
  <2> QED
    BY <1>7, <2>2, <2>3 DEF Chats!Generate
<1>8. CASE Chats!Save(s)
  <2>1. processed' = processed /\ worker[s].at = "save"
    BY <1>8 DEF Chats!Save, Chats!Insert
  <2>2. CASE Chats!Complete(s) /\ UNCHANGED <<saved, again>>
    BY <1>0, <1>3, <1>5, <2>1, <2>2
  <2>3. CASE /\ saved' = [saved EXCEPT ![m] = @ + 1] /\ again' = again
             /\ Chats!Goto(s, [worker[s] EXCEPT !.at = "mark"]) /\ jobs' = jobs
    <3>1. saved' \in [Req -> Nat] /\ saved'[m] = saved[m] + 1 /\ \A k \in Req : k # m => saved'[k] = saved[k]
      BY <1>3, <2>3
    <3>2. saved[m] <= again[m] /\ saved[m] \in Nat /\ again[m] \in Nat
      BY <1>2, <1>3, <2>1 DEF Once
    <3>3. Once(m)'
      <4>1. saved'[m] <= 1 + again'[m]
        BY <2>3, <3>1, <3>2
      <4>2. worker'[s].msg = m /\ worker'[s].at = "mark" /\ \A t \in Server \ {s} : worker'[t].msg # m
        BY <1>3, <1>4, <2>3 DEF Ats
      <4> QED
        BY <4>1, <4>2 DEF Once
    <3> QED
      BY <1>0, <1>1, <1>2, <2>1, <2>3, <3>1, <3>3, HolderKeeps
  <2>4. CASE Chats!Complete(s) /\ saved' = [saved EXCEPT ![m] = @ + 1] /\ Chats!Again({m})
    <3>1. Grows({m})
      BY <1>1, <2>4, AgainGrows
    <3> QED
      BY <1>3, <1>5, <2>1, <2>4, <3>1
  <2> QED
    BY <1>2, <1>8, <2>2, <2>3, <2>4 DEF Chats!Save, Chats!Insert
<1>9. CASE Chats!Mark(s)
  <2>1. Chats!Complete(s) /\ saved' = saved
    BY <1>9 DEF Chats!Mark
  <2>2. CASE processed' = processed \cup {m} /\ again' = again
    BY <1>0, <1>3, <1>5, <2>1, <2>2
  <2>3. CASE processed' = processed /\ Chats!Again({m})
    <3>1. Grows({m})
      BY <1>1, <2>3, AgainGrows
    <3> QED
      BY <1>3, <1>5, <2>1, <2>3, <3>1
  <2> QED
    BY <1>2, <1>9, <2>2, <2>3 DEF Chats!Mark
<1> QED
  BY <1>6, <1>7, <1>8, <1>9

\* The queue runs or fails a job that no worker has.
LEMMA RecoverKeeps ==
    ASSUME ChatInv, Chats!NoReq \notin Req, NEW m \in Req \cup Conv, Chats!Recover(m)
    PROVE  ChatInv'
<1>1. /\ \A s \in Server : worker[s].msg # m
      /\ UNCHANGED <<worker, saved, again, processed>>
      /\ \E how \in {"waiting", "failed"} : jobs' = [jobs EXCEPT ![m] = how]
  BY DEF Chats!Recover, Chats!Running
<1>2. JobsGo(m)
  BY <1>1 DEF JobsGo, ChatInv, Types
<1>3. Grows({})
  BY <1>1, SameGrows DEF ChatInv
<1> QED
  BY <1>1, <1>2, <1>3, OthersKeep DEF ChatInv, Types

\* The set expires.
LEMMA ExpiryKeeps ==
    ASSUME ChatInv, Chats!NoReq \notin Req, Chats!ProcessedExpires
    PROVE  ChatInv'
<1>1. UNCHANGED <<worker, saved, jobs>> /\ processed' = {} /\ Grows(processed)
  BY AgainGrows DEF Chats!ProcessedExpires, ChatInv
<1>2. JobsGo(Chats!NoReq)
  BY <1>1 DEF JobsGo, ChatInv, Types
<1>3. \A s \in Server : Holds(s) => worker[s].msg # Chats!NoReq
  BY DEF Holds
<1> QED
  BY <1>1, <1>2, <1>3, OthersKeep

\* Summaries are about conversations, not messages.
LEMMA SummaryKeeps ==
    ASSUME ChatInv, Chats!ConversationsAssumption, NEW c \in Conv,
           Chats!PollConversation(c) \/ Chats!Read(c) \/ Chats!InsertSummary(c) \/ Chats!BuildContext(c)
    PROVE  ChatInv'
<1>1. /\ UNCHANGED <<worker, saved, processed, again>> /\ Chats!NoReq \notin Req /\ c \notin Req
      /\ \/ \E how \in {"waiting", "insert"} : jobs' = [jobs EXCEPT ![c] = how]
         \/ Chats!Forget(c, Conv)
         \/ jobs' = jobs
  BY DEF Chats!Add, Chats!PollConversation, Chats!Read, Chats!InsertSummary, Chats!BuildContext, Chats!memory, Chats!history, Chats!ConversationsAssumption
<1>2. JobsGo(c)
  <2>1. CASE Chats!Forget(c, Conv)
    BY <2>1, JobForgotten DEF ChatInv
  <2>2. CASE jobs' = jobs \/ \E how \in {"waiting", "insert"} : jobs' = [jobs EXCEPT ![c] = how]
    BY <2>2 DEF JobsGo, ChatInv, Types
  <2> QED
    BY <1>1, <2>1, <2>2
<1>3. \A s \in Server : Holds(s) => worker[s].msg # c
  BY <1>1, WorkerIs DEF ChatInv, Types, Holds
<1>4. Grows({})
  BY <1>1, SameGrows DEF ChatInv
<1> QED
  BY <1>1, <1>2, <1>3, <1>4, OthersKeep DEF ChatInv, Types

-----------------------------------------------------------------------------
\* The invariant holds at first and is kept by every step.
LEMMA InvariantStarts == ASSUME Chats!ConversationsAssumption, Chats!Init PROVE ChatInv
<1> DEFINE r == [Chats!Idle EXCEPT !.at = "down"]
<1>1. r \in Worker({<<>>}) /\ r.at = "down" /\ r.msg = Chats!NoReq /\ r.rows = <<>>
  BY IdleIs DEF Worker, Ats
<1> HIDE DEF r
<1>2. worker = [s \in Server |-> r]
  BY DEF Chats!Init, r
<1>3. WorkerTypes
  BY <1>1, <1>2 DEF WorkerTypes, Worker
<1>4. \A s \in Server : worker[s].at = "down" /\ worker[s].msg = Chats!NoReq
  BY <1>1, <1>2
<1> QED
  BY <1>3, <1>4 DEF Chats!Init, ChatInv, Types, Holding, Holds, OneHolder, Once, Chats!ConversationsAssumption

LEMMA InvariantKept == ASSUME Chats!ConversationsAssumption, ChatInv, [Chats!Next]_Chats!vars PROVE ChatInv'
<1>1. Chats!NoReq \notin Req
  BY DEF Chats!ConversationsAssumption
<1>2. CASE UNCHANGED Chats!vars
  BY <1>1, <1>2, RequestKeeps DEF Chats!vars, Chats!history
<1>3. ASSUME NEW q \in Req, Chats!Chat(q) \/ Chats!SaveUser(q) \/ Chats!SaveReply(q) PROVE ChatInv'
  BY <1>1, <1>3, RequestKeeps DEF Chats!Chat, Chats!SaveUser, Chats!SaveReply, Chats!history
<1>4. ASSUME NEW q \in Req, Chats!ReplyFails(q) PROVE ChatInv'
  <2>1. UNCHANGED <<stalls, processed, saved, handled>>
    BY <1>4 DEF Chats!ReplyFails
  <2>2. CASE UNCHANGED <<worker, Chats!history, jobs>>
    BY <1>1, <2>1, <2>2, RequestKeeps DEF Chats!memory, Chats!history
  <2>3. CASE \E s \in Chats!Up, qs \in SUBSET Chats!Served : Chats!Dies(s, qs \cup {q})
    BY <1>1, <2>1, <2>3, DiesKeeps DEF Chats!Up
  <2> QED
    BY <1>4, <2>2, <2>3 DEF Chats!ReplyFails
<1>5. ASSUME NEW c \in Conv, Chats!DropMessages(c) \/ Chats!DropConversation(c) PROVE ChatInv'
  BY <1>1, <1>5, RequestKeeps DEF Chats!DropMessages, Chats!DropConversation, Chats!history
<1>6. ASSUME NEW s \in Server, Chats!Start(s) \/ Chats!Crash(s) \/ Chats!Poll(s) \/ Chats!Work(s) PROVE ChatInv'
  <2>1. CASE Chats!Crash(s)
    BY <1>1, <2>1, DiesKeeps DEF Chats!Crash
  <2> QED
    BY <1>1, <1>6, <2>1, LookingKeeps, WorkKeeps DEF Chats!Work
<1>7. ASSUME NEW s \in Server, NEW m \in Req, Chats!Take(s, m) PROVE ChatInv'
  BY <1>1, <1>7, TakeKeeps
<1>8. ASSUME NEW m \in Req \cup Conv, Chats!Recover(m) PROVE ChatInv'
  BY <1>1, <1>8, RecoverKeeps
<1>9. CASE Chats!ProcessedExpires
  BY <1>1, <1>9, ExpiryKeeps
<1>10. ASSUME NEW c \in Conv, Chats!PollConversation(c) \/ Chats!Read(c) \/ Chats!InsertSummary(c) \/ Chats!BuildContext(c) PROVE ChatInv'
  BY <1>10, SummaryKeeps
<1> QED
  BY <1>2, <1>3, <1>4, <1>5, <1>6, <1>7, <1>8, <1>9, <1>10 DEF Chats!Next

\* A message gives its fact once, and once more at most for each fault between the
\* fact and its mark, although its job may be run again, jobs are forgotten and
\* servers die (scheduler.ts:296-322, extractor.ts:87-135, store.ts:16-40).
THEOREM FactsOnce ==
    ASSUME Chats!ConversationsAssumption
    PROVE  Chats!Spec => []Chats!SavedOnce
<1>1. Chats!Init => ChatInv
  BY InvariantStarts
<1>2. ChatInv /\ [Chats!Next]_Chats!vars => ChatInv'
  BY InvariantKept
<1>3. ChatInv => Chats!SavedOnce
  BY DEF ChatInv, Once, Chats!SavedOnce
<1> QED
  BY <1>1, <1>2, <1>3, PTL DEF Chats!Spec

-----------------------------------------------------------------------------
(* Multi-agent tasks: a complete plan was run, and the rows of task_plans live   *)
(* as PlanLife says.  The invariant has three parts: what each record of the     *)
(* loop is (Loops), what each row and client is (Rows), and which tests a task   *)
(* may rely on (Overlaps, Tests).                                                *)

CONSTANTS Task, PlannerPlans, MaxAttempts, MaxCalls
VARIABLES task, planStatus, planRows, answer, log, planFaults, fresh, beside
Plans == INSTANCE Agents WITH status <- planStatus, saved <- planRows, faults <- planFaults
Life == INSTANCE PlanLife WITH status <- planStatus

Record == [at : Plans!Places, steps : Seq(Plans!Step), idx : Nat, attempts : 0 .. MaxAttempts,
           calls : 0 .. MaxCalls + 1, shown : 0 .. MaxAttempts]

\* The steps before step k are completed, each after the one before it.
Behind(r, k) ==
    /\ \A i \in DOMAIN r.steps : i < k => /\ r.steps[i].status = "completed"
                                          /\ r.steps[i].run > 0
                                          /\ r.steps[i].run <= r.attempts
    /\ \A i, j \in DOMAIN r.steps : i < j /\ j < k => r.steps[i].run < r.steps[j].run

\* And none of them in the attempt that is being made.
Earlier(r) == \A i \in DOMAIN r.steps : i < r.idx => r.steps[i].run < r.attempts

\* A record as the loop finds it at its head, and as it leaves it.
Ready(r) == r \in Record /\ r.idx > 0 /\ Behind(r, r.idx)
AtStep(r) == Ready(r) /\ r.idx \in DOMAIN r.steps /\ r.attempts > 0 /\ Earlier(r)

\* Two records have the same agents.
Alike(r, s) == DOMAIN r.steps = DOMAIN s.steps /\ \A i \in DOMAIN s.steps : r.steps[i].agent = s.steps[i].agent

\* What is set of a step keeps it a step.
LEMMA StepSet ==
    ASSUME NEW steps \in Seq(Plans!Step), NEW i \in DOMAIN steps, NEW x \in Plans!Step, x.agent = steps[i].agent
    PROVE  /\ [steps EXCEPT ![i] = x] \in Seq(Plans!Step) /\ DOMAIN [steps EXCEPT ![i] = x] = DOMAIN steps
           /\ [steps EXCEPT ![i] = x][i] = x
           /\ \A j \in DOMAIN steps : j # i => [steps EXCEPT ![i] = x][j] = steps[j]
           /\ \A j \in DOMAIN steps : [steps EXCEPT ![i] = x][j].agent = steps[j].agent
<1>1. DOMAIN steps = 1 .. Len(steps)
  BY LenProperties
<1>2. i \in 1 .. Len(steps)
  BY <1>1
<1>3. [steps EXCEPT ![i] = x] \in Seq(Plans!Step)
  BY <1>2, ExceptSeq
<1> QED
  BY <1>3

\* Steps have an agent, and the number of their run.
LEMMA StepIs ==
    ASSUME Plans!AgentsAssumption, NEW steps \in Seq(Plans!Step), NEW i \in DOMAIN steps
    PROVE  steps[i] \in Plans!Step /\ steps[i].run \in 0 .. MaxAttempts /\ steps[i].run \in Nat
<1>1. steps[i] \in Plans!Step
  <2>1. i \in 1 .. Len(steps)
    BY LenProperties
  <2> QED
    BY <2>1, ElementOfSeq
<1>2. steps[i].run \in 0 .. MaxAttempts
  BY <1>1 DEF Plans!Step
<1>3. MaxAttempts \in Nat
  BY DEF Plans!AgentsAssumption
<1> QED
  BY <1>1, <1>2, <1>3

\* The head of the loop takes the next step, or the loop is over.
LEMMA LoopIsReady ==
    ASSUME Plans!AgentsAssumption, NEW r, Ready(r)
    PROVE  /\ Plans!Loop(r) \in Record /\ Plans!Loop(r).idx = r.idx /\ Alike(Plans!Loop(r), r)
           /\ \/ Plans!Loop(r).at = "save" /\ AtStep(Plans!Loop(r))
              \/ Plans!Loop(r).at = "complete" /\ Ready(Plans!Loop(r))
<1>1. r \in Record /\ r.idx \in Nat \ {0} /\ r.attempts \in 0 .. MaxAttempts /\ Behind(r, r.idx)
  BY DEF Ready, Record
<1>2. MaxAttempts \in Nat
  BY DEF Plans!AgentsAssumption
<1>3. r.steps \in Seq(Plans!Step) /\ DOMAIN r.steps = 1 .. Len(r.steps) /\ Len(r.steps) \in Nat
  BY LenProperties DEF Ready, Record
<1>4. CASE r.idx <= Len(r.steps) /\ r.attempts < MaxAttempts
  <2> DEFINE x == [r.steps[r.idx] EXCEPT !.status = "running"]
             s == [r.steps EXCEPT ![r.idx] = x]
             q == [r EXCEPT !.at = "save", !.attempts = r.attempts + 1, !.steps = s]
  <2>1. r.idx \in DOMAIN r.steps /\ r.steps[r.idx] \in Plans!Step
    BY <1>1, <1>3, <1>4, StepIs
  <2>2. x \in Plans!Step /\ x.agent = r.steps[r.idx].agent
    BY <2>1 DEF Plans!Step
  <2>3. /\ s \in Seq(Plans!Step) /\ DOMAIN s = DOMAIN r.steps
        /\ \A j \in DOMAIN r.steps : j # r.idx => s[j] = r.steps[j]
        /\ \A j \in DOMAIN r.steps : s[j].agent = r.steps[j].agent
    BY <1>3, <2>1, <2>2, StepSet
  <2>4. Plans!Loop(r) = q
    BY <1>1, <1>4 DEF Plans!Loop, Record
  <2> HIDE DEF x, s
  <2>5. /\ q \in Record /\ q.at = "save" /\ q.idx = r.idx /\ q.attempts = r.attempts + 1 /\ q.steps = s
    <3>1. r.attempts + 1 \in 0 .. MaxAttempts /\ "save" \in Plans!Places
      BY <1>1, <1>2, <1>4 DEF Plans!Places
    <3>2. s \in Seq(Plans!Step)
      BY <2>3
    <3> QED
      BY <1>1, <3>1, <3>2 DEF Record
  <2> HIDE DEF q
  <2>6. \A i \in DOMAIN s : i < r.idx => s[i] = r.steps[i]
    BY <1>1, <1>3, <2>3
  <2>7. Behind(q, q.idx)
    <3>1. \A i \in DOMAIN s : i < r.idx => /\ s[i].status = "completed" /\ s[i].run > 0
                                            /\ s[i].run <= q.attempts /\ s[i].run < q.attempts
      <4> SUFFICES ASSUME NEW i \in DOMAIN s, i < r.idx
                   PROVE  /\ s[i].status = "completed" /\ s[i].run > 0
                          /\ s[i].run <= q.attempts /\ s[i].run < q.attempts
        OBVIOUS
      <4>1. /\ r.steps[i].status = "completed" /\ r.steps[i].run > 0 /\ r.steps[i].run <= r.attempts
        BY <1>1, <2>3 DEF Behind
      <4>2. r.steps[i].run \in Nat
        BY <1>3, <2>3, StepIs
      <4> QED
        BY <1>1, <1>2, <2>5, <2>6, <4>1, <4>2
    <3>2. \A i, j \in DOMAIN s : i < j /\ j < r.idx => s[i].run < s[j].run
      <4> SUFFICES ASSUME NEW i \in DOMAIN s, NEW j \in DOMAIN s, i < j, j < r.idx PROVE s[i].run < s[j].run
        OBVIOUS
      <4>1. i < r.idx
        BY <1>1, <1>3, <2>3
      <4> QED
        BY <1>1, <2>3, <2>6, <4>1 DEF Behind
    <3> QED
      BY <2>5, <3>1, <3>2 DEF Behind
  <2>8. Earlier(q)
    <3> SUFFICES ASSUME NEW i \in DOMAIN s, i < r.idx PROVE s[i].run < q.attempts
      BY <2>5 DEF Earlier
    <3>1. r.steps[i].run <= r.attempts
      BY <1>1, <2>3 DEF Behind
    <3>2. r.steps[i].run \in Nat
      BY <1>3, <2>3, StepIs
    <3> QED
      BY <1>1, <1>2, <2>5, <2>6, <3>1, <3>2
  <2>9. q.idx \in DOMAIN q.steps /\ q.attempts > 0 /\ q.idx > 0
    BY <1>1, <2>1, <2>3, <2>5
  <2> QED
    BY <2>3, <2>4, <2>5, <2>7, <2>8, <2>9 DEF AtStep, Ready, Alike
<1>5. CASE ~(r.idx <= Len(r.steps) /\ r.attempts < MaxAttempts)
  <2>1. Plans!Loop(r) = [r EXCEPT !.at = "complete"]
    BY <1>5 DEF Plans!Loop
  <2> DEFINE q == [r EXCEPT !.at = "complete"]
  <2>2. /\ q \in Record /\ q.at = "complete" /\ q.idx = r.idx /\ q.attempts = r.attempts /\ q.steps = r.steps
    BY <1>1 DEF Record, Plans!Places
  <2> HIDE DEF q
  <2>3. Behind(q, q.idx)
    BY <1>1, <2>2 DEF Behind
  <2> QED
    BY <1>1, <2>1, <2>2, <2>3 DEF Ready, Alike, q
<1> QED
  BY <1>4, <1>5

\* What completion sets of a step.
LEMMA Marked ==
    ASSUME NEW e \in Plans!Step, NEW a
    PROVE  [agent |-> e.agent, status |-> "completed", run |-> a]
                = [[e EXCEPT !.status = "completed"] EXCEPT !.run = a]
<1> DEFINE u == [agent |-> e.agent, status |-> "completed", run |-> e.run]
<1>1. u = [e EXCEPT !.status = "completed"]
  BY DEF Plans!Step
<1>2. [agent |-> e.agent, status |-> "completed", run |-> a] = [u EXCEPT !.run = a]
  OBVIOUS
<1> QED
  BY <1>1, <1>2

\* A step that is done is behind, and the loop goes on.
LEMMA DoneIsReady ==
    ASSUME Plans!AgentsAssumption, NEW r, AtStep(r)
    PROVE  /\ Plans!Done(r) \in Record /\ Plans!Done(r).idx = r.idx + 1 /\ Alike(Plans!Done(r), r)
           /\ \/ Plans!Done(r).at = "save" /\ AtStep(Plans!Done(r))
              \/ Plans!Done(r).at = "complete" /\ Ready(Plans!Done(r))
<1>1. /\ r \in Record /\ r.idx \in Nat \ {0} /\ r.idx \in DOMAIN r.steps
      /\ r.attempts \in 0 .. MaxAttempts /\ r.attempts > 0
      /\ r.steps \in Seq(Plans!Step) /\ Behind(r, r.idx) /\ Earlier(r)
  BY DEF AtStep, Ready, Record
<1>2. MaxAttempts \in Nat /\ DOMAIN r.steps = 1 .. Len(r.steps) /\ Len(r.steps) \in Nat
  BY <1>1, LenProperties DEF Plans!AgentsAssumption
<1> DEFINE x == [agent |-> r.steps[r.idx].agent, status |-> "completed", run |-> r.attempts]
           s == [r.steps EXCEPT ![r.idx] = x]
           q == [r EXCEPT !.steps = s, !.idx = r.idx + 1]
<1>3. r.steps[r.idx] \in Plans!Step /\ x \in Plans!Step
  BY <1>1, StepIs DEF Plans!Step
<1>4. x = [[r.steps[r.idx] EXCEPT !.status = "completed"] EXCEPT !.run = r.attempts]
  BY <1>3, Marked
<1>7. x.status = "completed" /\ x.run = r.attempts /\ x.agent = r.steps[r.idx].agent
  OBVIOUS
<1> HIDE DEF x
<1>5. /\ s \in Seq(Plans!Step) /\ DOMAIN s = DOMAIN r.steps /\ s[r.idx] = x
      /\ \A j \in DOMAIN r.steps : j # r.idx => s[j] = r.steps[j]
      /\ \A j \in DOMAIN r.steps : s[j].agent = r.steps[j].agent
  BY <1>1, <1>3, <1>7, StepSet
<1>6. Plans!Done(r) = Plans!Loop(q)
  <2>1. [r EXCEPT !.steps[r.idx].status = "completed", !.steps[r.idx].run = r.attempts, !.idx = @ + 1] = q
    BY <1>1, <1>4 DEF Record
  <2> QED
    BY <2>1 DEF Plans!Done
<1> HIDE DEF s
<1>8. q \in Record /\ q.idx = r.idx + 1 /\ q.steps = s /\ q.attempts = r.attempts
  <2>1. r.idx + 1 \in Nat /\ s \in Seq(Plans!Step)
    BY <1>1, <1>5
  <2> QED
    BY <1>1, <2>1 DEF Record
<1> HIDE DEF q
<1>9. Behind(q, r.idx + 1)
  <2>1. \A i \in DOMAIN s : i < r.idx + 1 => i = r.idx \/ i < r.idx
    BY <1>1, <1>2, <1>5
  <2>2. \A i \in DOMAIN s : i < r.idx => /\ s[i] = r.steps[i]
                                          /\ s[i].status = "completed" /\ s[i].run > 0
                                          /\ s[i].run <= r.attempts /\ s[i].run < r.attempts
    <3> SUFFICES ASSUME NEW i \in DOMAIN s, i < r.idx
                 PROVE  /\ s[i] = r.steps[i]
                        /\ s[i].status = "completed" /\ s[i].run > 0
                        /\ s[i].run <= r.attempts /\ s[i].run < r.attempts
      OBVIOUS
    <3>1. s[i] = r.steps[i]
      BY <1>1, <1>2, <1>5
    <3> QED
      BY <1>1, <1>5, <3>1 DEF Behind, Earlier
  <2>3. \A i \in DOMAIN s : i < r.idx + 1 =>
            s[i].status = "completed" /\ s[i].run > 0 /\ s[i].run <= r.attempts
    BY <1>1, <1>2, <1>5, <1>7, <2>1, <2>2
  <2>4. \A i, j \in DOMAIN s : i < j /\ j < r.idx + 1 => s[i].run < s[j].run
    <3> SUFFICES ASSUME NEW i \in DOMAIN s, NEW j \in DOMAIN s, i < j, j < r.idx + 1 PROVE s[i].run < s[j].run
      OBVIOUS
    <3>1. i < r.idx
      BY <1>1, <1>2, <1>5
    <3>2. CASE j = r.idx
      BY <1>5, <1>7, <2>2, <3>1, <3>2
    <3>3. CASE j < r.idx
      BY <1>1, <1>5, <2>2, <3>1, <3>3 DEF Behind
    <3> QED
      BY <2>1, <3>2, <3>3
  <2> QED
    BY <1>8, <2>3, <2>4 DEF Behind
<1>10. Ready(q)
  BY <1>1, <1>8, <1>9 DEF Ready
<1> QED
  BY <1>5, <1>6, <1>8, <1>10, LoopIsReady DEF Alike

\* The last Coder before step i of a record, and what a rejection makes of it.
Coders(r, i) == {j \in 1 .. i - 1 : r.steps[j].agent = "Coder"}
LastOf(T) == IF T = {} THEN 0 ELSE CHOOSE j \in T : \A k \in T : k <= j
CoderIn(r, i) == LastOf(Coders(r, i))
Rejected(r) == [r EXCEPT !.at = "rewind", !.steps[CoderIn(r, r.idx)].status = "pending",
                         !.steps[r.idx].status = "completed", !.steps[r.idx].run = r.attempts]
Sent(r) == [r EXCEPT !.idx = CoderIn(r, r.idx)]

\* A set of numbers below a bound has a greatest one.
LEMMA Greatest ==
    ASSUME NEW n \in Nat, NEW T \in SUBSET (1 .. n), T # {}
    PROVE  \E j \in T : \A k \in T : k <= j
<1> DEFINE R == OpToRel(<, Nat)
           U == {n - j : j \in T}
<1>1. \A x, y \in Nat : <<x, y>> \in R <=> x < y
  BY DEF OpToRel
<1>2. U \subseteq Nat /\ U # {}
  <2>1. \A j \in T : n - j \in Nat
    OBVIOUS
  <2>2. PICK j \in T : TRUE
    OBVIOUS
  <2>3. n - j \in U
    OBVIOUS
  <2> QED
    BY <2>1, <2>3
<1>3. IsWellFoundedOn(R, Nat)
  BY NatLessThanWellFounded
<1> HIDE DEF R, U
<1>4. PICK m \in U : \A y \in U : ~ (<<y, m>> \in R)
  BY <1>2, <1>3, WFMin
<1>5. \A y \in U : m <= y
  <2> SUFFICES ASSUME NEW y \in U PROVE m <= y
    OBVIOUS
  <2>1. y \in Nat /\ m \in Nat
    BY <1>2
  <2>2. ~ (y < m)
    BY <1>1, <1>4, <2>1
  <2> QED
    BY <2>1, <2>2
<1>6. PICK j \in T : m = n - j
  BY <1>4 DEF U
<1>7. \A k \in T : n - k \in U
  BY DEF U
<1> QED
  BY <1>5, <1>6, <1>7

\* The last Coder before a step is a Coder before it.
LEMMA CoderIsBefore ==
    ASSUME NEW r \in Record, NEW i \in DOMAIN r.steps, CoderIn(r, i) # 0
    PROVE  /\ CoderIn(r, i) \in DOMAIN r.steps /\ CoderIn(r, i) < i
           /\ r.steps[CoderIn(r, i)].agent = "Coder"
<1> DEFINE coders == {j \in 1 .. i - 1 : r.steps[j].agent = "Coder"}
<1>1. DOMAIN r.steps = 1 .. Len(r.steps) /\ Len(r.steps) \in Nat
  BY LenProperties DEF Record
<1>2. coders # {} /\ coders \in SUBSET (1 .. i - 1) /\ i - 1 \in Nat
  BY <1>1 DEF CoderIn, LastOf, Coders
<1>3. \E j \in coders : \A k \in coders : k <= j
  BY <1>2, Greatest
<1>4. CoderIn(r, i) \in coders
  BY <1>2, <1>3 DEF CoderIn, LastOf, Coders
<1> QED
  BY <1>1, <1>4

\* A rejected step is completed, and what is before the Coder stays behind.
LEMMA RejectedIsBehind ==
    ASSUME Plans!AgentsAssumption, NEW r, AtStep(r), CoderIn(r, r.idx) # 0
    PROVE  /\ Rejected(r) \in Record /\ Rejected(r).at = "rewind"
           /\ Rejected(r).idx = r.idx /\ Alike(Rejected(r), r)
           /\ Behind(Rejected(r), CoderIn(r, r.idx))
<1> DEFINE c == CoderIn(r, r.idx)
<1>1. /\ r \in Record /\ r.idx \in Nat \ {0} /\ r.idx \in DOMAIN r.steps
      /\ r.attempts \in 0 .. MaxAttempts /\ r.attempts > 0
      /\ r.steps \in Seq(Plans!Step) /\ Behind(r, r.idx)
  BY DEF AtStep, Ready, Record
<1>2. DOMAIN r.steps = 1 .. Len(r.steps) /\ Len(r.steps) \in Nat
  BY <1>1, LenProperties
<1>3. c \in DOMAIN r.steps /\ c < r.idx
  BY <1>1, CoderIsBefore
<1> DEFINE x == [agent |-> r.steps[c].agent, status |-> "pending", run |-> r.steps[c].run]
           y == [agent |-> r.steps[r.idx].agent, status |-> "completed", run |-> r.attempts]
           s == [r.steps EXCEPT ![c] = x]
           z == [s EXCEPT ![r.idx] = y]
           q == [r EXCEPT !.at = "rewind", !.steps = z]
<1>4. r.steps[c] \in Plans!Step /\ r.steps[r.idx] \in Plans!Step /\ x \in Plans!Step /\ y \in Plans!Step
  <2>1. r.steps[c] \in Plans!Step /\ r.steps[r.idx] \in Plans!Step
    BY <1>1, <1>3, StepIs
  <2> QED
    BY <1>1, <2>1 DEF Plans!Step
<1>5. x = [r.steps[c] EXCEPT !.status = "pending"] /\ x.agent = r.steps[c].agent
  BY <1>4 DEF Plans!Step
<1>14. y.agent = r.steps[r.idx].agent /\ y.status = "completed" /\ y.run = r.attempts
  OBVIOUS
<1> HIDE DEF x
<1>6. /\ s \in Seq(Plans!Step) /\ DOMAIN s = DOMAIN r.steps
      /\ \A j \in DOMAIN r.steps : j # c => s[j] = r.steps[j]
      /\ \A j \in DOMAIN r.steps : s[j].agent = r.steps[j].agent
  BY <1>1, <1>3, <1>4, <1>5, StepSet
<1> HIDE DEF s
<1>7. s[r.idx] = r.steps[r.idx]
  BY <1>1, <1>2, <1>3, <1>6
<1>8. /\ z \in Seq(Plans!Step) /\ DOMAIN z = DOMAIN s
      /\ \A j \in DOMAIN s : j # r.idx => z[j] = s[j]
      /\ \A j \in DOMAIN s : z[j].agent = s[j].agent
  <2> HIDE DEF y
  <2> QED
    BY <1>1, <1>4, <1>6, <1>7, <1>14, StepSet
<1>9. y = [[s[r.idx] EXCEPT !.status = "completed"] EXCEPT !.run = r.attempts]
  BY <1>4, <1>7, <1>14 DEF Plans!Step
<1>10. Rejected(r) = q
  <2> DEFINE s1 == [r.steps EXCEPT ![c] = [@ EXCEPT !.status = "pending"]]
             s2 == [s EXCEPT ![r.idx] = [@ EXCEPT !.status = "completed"]]
             s3 == [s2 EXCEPT ![r.idx] = [@ EXCEPT !.run = r.attempts]]
  <2>1. s1 = s
    BY <1>5 DEF s
  <2>2. s3 = z
    BY <1>1, <1>6, <1>9
  <2>3. Rejected(r) = [r EXCEPT !.at = "rewind", !.steps = [[s1 EXCEPT ![r.idx] = [@ EXCEPT !.status = "completed"]]
                                                            EXCEPT ![r.idx] = [@ EXCEPT !.run = r.attempts]]]
    BY <1>1 DEF Rejected, Record
  <2> QED
    BY <2>1, <2>2, <2>3
<1> HIDE DEF c, y, z
<1>11. q \in Record /\ q.at = "rewind" /\ q.idx = r.idx /\ q.attempts = r.attempts /\ q.steps = z
  BY <1>1, <1>8 DEF Record, Plans!Places
<1> HIDE DEF q
<1>12. \A j \in DOMAIN z : j < c => z[j] = r.steps[j]
  BY <1>1, <1>2, <1>3, <1>6, <1>8
<1>13. Behind(q, c)
  <2>1. \A i \in DOMAIN z : i < c => i \in DOMAIN r.steps /\ i < r.idx
    BY <1>1, <1>2, <1>3, <1>6, <1>8
  <2>2. \A i \in DOMAIN z : i < c => z[i].status = "completed" /\ z[i].run > 0 /\ z[i].run <= q.attempts
    BY <1>1, <1>11, <1>12, <2>1 DEF Behind
  <2>3. \A i, j \in DOMAIN z : i < j /\ j < c => z[i].run < z[j].run
    <3> SUFFICES ASSUME NEW i \in DOMAIN z, NEW j \in DOMAIN z, i < j, j < c PROVE z[i].run < z[j].run
      OBVIOUS
    <3>1. i < c
      BY <1>2, <1>3, <1>6, <1>8
    <3> QED
      BY <1>1, <1>12, <2>1, <3>1 DEF Behind
  <2> QED
    BY <1>11, <2>2, <2>3 DEF Behind
<1> QED
  BY <1>6, <1>8, <1>10, <1>11, <1>13 DEF Alike, c

-----------------------------------------------------------------------------
\* Tests came after the last Coder and are behind.
Tested(r) == \E p \in DOMAIN r.steps : /\ p < r.idx /\ r.steps[p].agent = "Tester"
                                     /\ \A j \in DOMAIN r.steps : r.steps[j].agent = "Coder" => j < p
Testing(r) == r.at = "tool" /\ r.steps[r.idx].agent = "Tester"
Due(r) == Tested(r) \/ Testing(r)

\* What the loop has in memory at each of its places.
TaskOk(r) ==
    /\ r \in Record
    /\ r.at \in {"insert", "complete", "reply"} => Ready(r)
    /\ r.at \in {"save", "agent", "tool"} => AtStep(r)
    /\ r.at = "tool" => r.calls > 0 /\ r.steps[r.idx].agent \in {"Coder", "Tester"}
    /\ r.at = "rewind" => CoderIn(r, r.idx) # 0 /\ Behind(r, CoderIn(r, r.idx))
    /\ r.at \in {"rewind", "fail"} => r.idx \in DOMAIN r.steps

\* What a task's row and its client can be at each of its places.
RowOk(at, s, a) ==
    /\ a = "waiting" <=> at # "idle"
    /\ a = "unasked" => s = "none"
    /\ at = "insert" => s = "none"
    /\ at \in {"save", "agent", "tool", "rewind", "fail", "complete"} => s = "running"
    /\ at = "reply" => s = "completed"

Loops == \A t \in Task : TaskOk(task[t])
Rows == \A t \in Task : RowOk(task[t].at, planStatus[t], answer[t])
Overlaps == \A t, u \in Task : t # u /\ Plans!Live(t) /\ Plans!Live(u) => t \in beside
Tests == \A t \in Task : Plans!Live(t) /\ Due(task[t]) => t \in beside \/ t \in fresh
Shapes ==
    /\ task \in [Task -> Record]
    /\ planStatus \in [Task -> {"none", "running", "completed", "failed"}]
    /\ planRows \in [Task -> Seq(Plans!Step)]
    /\ answer \in [Task -> {"unasked", "waiting", "ok", "error", "lost"}]
    /\ log \subseteq BOOLEAN /\ planFaults \in 0 .. MaxFaults /\ fresh \subseteq Task /\ beside \subseteq Task
PlanInv == Shapes /\ Loops /\ Rows /\ Overlaps /\ Tests

\* A record that only moves to another place keeps what is behind it.
LEMMA Moved ==
    ASSUME NEW r \in Record, NEW q \in Record,
           q.steps = r.steps, q.idx = r.idx, q.attempts = r.attempts
    PROVE  /\ Ready(r) => Ready(q)
           /\ AtStep(r) => AtStep(q)
           /\ Tested(q) <=> Tested(r)
<1>1. \A k : Behind(r, k) => Behind(q, k)
  BY DEF Behind
<1> QED
  BY <1>1 DEF Ready, AtStep, Earlier, Tested

\* Agents are what they were, so tests that are behind still are.
LEMMA PastAlike ==
    ASSUME NEW r, NEW q, Alike(q, r), q.idx = r.idx
    PROVE  Tested(q) <=> Tested(r)
BY DEF Tested, Alike

\* With a Coder at hand, no tests behind came after the last Coder.
LEMMA PastNoCoder ==
    ASSUME NEW r \in Record, r.idx \in DOMAIN r.steps, r.steps[r.idx].agent = "Coder"
    PROVE  ~Tested(r)
<1>1. DOMAIN r.steps = 1 .. Len(r.steps) /\ Len(r.steps) \in Nat
  BY LenProperties DEF Record
<1> SUFFICES ASSUME NEW p \in DOMAIN r.steps, p < r.idx,
                    \A j \in DOMAIN r.steps : r.steps[j].agent = "Coder" => j < p
             PROVE  FALSE
  BY DEF Tested
<1> QED
  BY <1>1

\* Tests behind a step that was just done were behind it before, or are it.
LEMMA PastDone ==
    ASSUME Plans!AgentsAssumption, NEW r, AtStep(r), Tested(Plans!Done(r))
    PROVE  Tested(r) \/ r.steps[r.idx].agent = "Tester"
<1>1. Plans!Done(r).idx = r.idx + 1 /\ Alike(Plans!Done(r), r)
  BY DoneIsReady
<1>2. r \in Record /\ r.idx \in Nat
  BY DEF AtStep, Ready, Record
<1>3. DOMAIN r.steps = 1 .. Len(r.steps) /\ Len(r.steps) \in Nat
  BY <1>2, LenProperties DEF Record
<1>4. PICK p \in DOMAIN r.steps : /\ p < r.idx + 1 /\ r.steps[p].agent = "Tester"
                                  /\ \A j \in DOMAIN r.steps : r.steps[j].agent = "Coder" => j < p
  BY <1>1 DEF Tested, Alike
<1>5. p < r.idx \/ p = r.idx
  BY <1>2, <1>3, <1>4
<1> QED
  BY <1>4, <1>5 DEF Tested

\* After a step that was not the Tester's, or whose tests were due, nothing
\* new is due.
LEMMA DoneIsOk ==
    ASSUME Plans!AgentsAssumption, NEW r, AtStep(r)
    PROVE  /\ TaskOk(Plans!Done(r)) /\ Plans!Done(r).at \in {"save", "complete"}
           /\ Due(Plans!Done(r)) => Tested(r) \/ r.steps[r.idx].agent = "Tester"
<1>1. /\ Plans!Done(r) \in Record
      /\ \/ Plans!Done(r).at = "save" /\ AtStep(Plans!Done(r))
         \/ Plans!Done(r).at = "complete" /\ Ready(Plans!Done(r))
  BY DoneIsReady
<1>2. Tested(Plans!Done(r)) => Tested(r) \/ r.steps[r.idx].agent = "Tester"
  BY PastDone
<1> HIDE DEF Plans!Done
<1> QED
  BY <1>1, <1>2 DEF TaskOk, Due, Testing

\* The head of the loop, where the loop is left at its head.
LEMMA LoopIsOk ==
    ASSUME Plans!AgentsAssumption, NEW r, Ready(r)
    PROVE  /\ TaskOk(Plans!Loop(r)) /\ Plans!Loop(r).at \in {"save", "complete"}
           /\ Due(Plans!Loop(r)) => Tested(r)
<1>1. /\ Plans!Loop(r) \in Record /\ Plans!Loop(r).idx = r.idx /\ Alike(Plans!Loop(r), r)
      /\ \/ Plans!Loop(r).at = "save" /\ AtStep(Plans!Loop(r))
         \/ Plans!Loop(r).at = "complete" /\ Ready(Plans!Loop(r))
  BY LoopIsReady
<1>2. Tested(Plans!Loop(r)) <=> Tested(r)
  BY <1>1, PastAlike
<1> QED
  BY <1>1, <1>2 DEF TaskOk, Due, Testing

\* A rejection leaves the record where Rewind takes it from, and Rewind takes
\* the loop back to a Coder with no tests behind it.
LEMMA RejectedIsOk ==
    ASSUME Plans!AgentsAssumption, NEW r, AtStep(r), CoderIn(r, r.idx) # 0
    PROVE  TaskOk(Rejected(r)) /\ Rejected(r).at = "rewind" /\ (Due(Rejected(r)) => Tested(r))
<1> DEFINE q == Rejected(r)
<1>1. /\ q \in Record /\ q.at = "rewind" /\ q.idx = r.idx /\ Alike(q, r)
      /\ Behind(q, CoderIn(r, r.idx))
  BY RejectedIsBehind
<1>2. r \in Record /\ r.idx \in DOMAIN r.steps /\ r.idx \in Nat
  BY DEF AtStep, Ready, Record
<1>3. DOMAIN r.steps = 1 .. Len(r.steps) /\ Len(r.steps) \in Nat
  BY <1>2, LenProperties DEF Record
<1> HIDE DEF q
<1>4. CoderIn(q, q.idx) = CoderIn(r, r.idx)
  <2>1. \A j \in 1 .. r.idx - 1 : j \in DOMAIN r.steps
    BY <1>2, <1>3
  <2>2. Coders(q, q.idx) = Coders(r, r.idx)
    BY <1>1, <2>1 DEF Alike, Coders
  <2> QED
    BY <2>2 DEF CoderIn
<1>5. Tested(q) <=> Tested(r)
  BY <1>1, PastAlike
<1>6. q.idx \in DOMAIN q.steps
  BY <1>1, <1>2 DEF Alike
<1> QED
  BY <1>1, <1>4, <1>5, <1>6 DEF TaskOk, Due, Testing, q

\* Back at its Coder, a rejected task is where the loop expects it, its tests ahead.
LEMMA SentIsReady ==
    ASSUME NEW r, TaskOk(r), r.at = "rewind"
    PROVE  Ready(Sent(r)) /\ ~Tested(Sent(r))
<1> DEFINE c == CoderIn(r, r.idx)
<1>1. r \in Record /\ r.idx \in DOMAIN r.steps /\ c # 0 /\ Behind(r, c)
  BY DEF TaskOk
<1>2. DOMAIN r.steps = 1 .. Len(r.steps) /\ Len(r.steps) \in Nat
  BY <1>1, LenProperties DEF Record
<1>3. c \in DOMAIN r.steps /\ r.steps[c].agent = "Coder"
  BY <1>1, CoderIsBefore
<1> HIDE DEF c
<1>4. c \in Nat \ {0}
  BY <1>2, <1>3
<1> DEFINE q == [r EXCEPT !.idx = c]
<1>5. q \in Record /\ q.idx = c /\ q.steps = r.steps /\ q.attempts = r.attempts
  BY <1>1, <1>4 DEF Record
<1>6. Sent(r) = q
  BY DEF Sent, c
<1> HIDE DEF q
<1>7. Behind(q, c)
  BY <1>1, <1>5 DEF Behind
<1>8. ~Tested(q)
  BY <1>3, <1>5, PastNoCoder
<1> QED
  BY <1>4, <1>5, <1>6, <1>7, <1>8 DEF Ready

-----------------------------------------------------------------------------
\* With no task begun the invariant holds.
LEMMA PlanInvInit ==
    ASSUME Plans!AgentsAssumption
    PROVE  Plans!Init => PlanInv
<1> SUFFICES ASSUME Plans!Init PROVE PlanInv
  OBVIOUS
<1>1. <<>> \in Seq(Plans!Step) /\ MaxAttempts \in Nat /\ MaxCalls \in Nat /\ MaxFaults \in Nat
  BY EmptySeq DEF Plans!AgentsAssumption
<1>2. Plans!Idle \in Record /\ Plans!Idle.at = "idle"
  BY <1>1 DEF Plans!Idle, Record, Plans!Places
<1>3. TaskOk(Plans!Idle)
  BY <1>2 DEF TaskOk
<1>4. RowOk("idle", "none", "unasked")
  BY DEF RowOk
<1> HIDE DEF Plans!Idle
<1>5. Shapes
  BY <1>1, <1>2 DEF Plans!Init, Shapes
<1> QED
  BY <1>2, <1>3, <1>4, <1>5 DEF Plans!Init, PlanInv, Loops, Rows, Overlaps, Tests, Plans!Live

\* One task moves to the record q, its row to s, its client to a.
LEMMA OneMoves ==
    ASSUME PlanInv, NEW t \in Task, NEW q, NEW s, NEW a,
           task' = [task EXCEPT ![t] = q], TaskOk(q), RowOk(q.at, s, a),
           planStatus' = [planStatus EXCEPT ![t] = s], answer' = [answer EXCEPT ![t] = a],
           Shapes', Plans!Live(t), beside' = beside,
           q.at # "idle" /\ Due(q) => t \in beside \/ t \in fresh'
    PROVE  PlanInv'
<1>1. /\ task'[t] = q /\ planStatus'[t] = s /\ answer'[t] = a
      /\ \A u \in Task \ {t} : task'[u] = task[u] /\ planStatus'[u] = planStatus[u] /\ answer'[u] = answer[u]
  BY DEF PlanInv, Shapes
<1>2. Loops'
  BY <1>1 DEF PlanInv, Loops
<1>3. Rows'
  BY <1>1 DEF PlanInv, Rows
<1>4. \A u \in Task \ {t} : Plans!Live(u) => u \in beside
  BY DEF PlanInv, Overlaps
<1>5. \A u \in Task \ {t} : Plans!Live(u)' <=> Plans!Live(u)
  BY <1>1 DEF Plans!Live
<1>6. Overlaps'
  <2> SUFFICES ASSUME NEW u \in Task, NEW v \in Task, u # v, Plans!Live(u)', Plans!Live(v)' PROVE u \in beside
    BY DEF Overlaps
  <2> QED
    BY <1>4, <1>5 DEF PlanInv, Overlaps
<1>7. Tests'
  <2> SUFFICES ASSUME NEW u \in Task, Plans!Live(u)', Due(task[u])' PROVE u \in beside \/ u \in fresh'
    BY DEF Tests
  <2>1. CASE u = t
    BY <1>1, <2>1 DEF Plans!Live
  <2>2. CASE u # t
    BY <1>4, <1>5, <2>2
  <2> QED
    BY <2>1, <2>2
<1> QED
  BY <1>2, <1>3, <1>6, <1>7 DEF PlanInv
\* A task that goes on, its row at s.
LEMMA OneStep ==
    ASSUME PlanInv, NEW t \in Task, NEW q, NEW s \in {"none", "running", "completed", "failed"},
           Plans!Set(t, q), TaskOk(q), q.at # "idle", RowOk(q.at, s, "waiting"), Plans!Live(t),
           Due(q) => t \in beside \/ t \in fresh',
           planStatus' = [planStatus EXCEPT ![t] = s], planRows' \in [Task -> Seq(Plans!Step)], answer' = answer,
           log' \subseteq BOOLEAN, planFaults' \in 0 .. MaxFaults, fresh' \subseteq Task, beside' = beside
    PROVE  PlanInv'
<1>1. answer[t] = "waiting" /\ answer' = [answer EXCEPT ![t] = "waiting"]
  BY DEF PlanInv, Shapes, Rows, RowOk, Plans!Live
<1>2. task' = [task EXCEPT ![t] = q] /\ q \in Record
  BY DEF Plans!Set, TaskOk
<1>3. Shapes'
  BY <1>2 DEF PlanInv, Shapes
<1> QED
  BY <1>1, <1>2, <1>3, OneMoves

\* The same when the row stays as it is.
LEMMA OneStepInMemory ==
    ASSUME PlanInv, NEW t \in Task, NEW q,
           Plans!Set(t, q), TaskOk(q), q.at # "idle", RowOk(q.at, planStatus[t], "waiting"), Plans!Live(t),
           Due(q) => t \in beside \/ t \in fresh',
           UNCHANGED <<planStatus, planRows, answer>>,
           log' \subseteq BOOLEAN, planFaults' \in 0 .. MaxFaults, fresh' \subseteq Task, beside' = beside
    PROVE  PlanInv'
<1>1. planStatus' = [planStatus EXCEPT ![t] = planStatus[t]] /\ planRows' \in [Task -> Seq(Plans!Step)]
      /\ planStatus[t] \in {"none", "running", "completed", "failed"}
  BY DEF PlanInv, Shapes
<1> QED
  BY <1>1, OneStep

\* A task that throws, or is to be answered, waits for its answer only.
LEMMA ThrowIsOk ==
    ASSUME NEW r \in Record
    PROVE  LET q == [r EXCEPT !.at = "throw"]
           IN TaskOk(q) /\ q.at = "throw" /\ (Due(q) => Tested(r)) /\ \A s : RowOk("throw", s, "waiting")
<1> DEFINE q == [r EXCEPT !.at = "throw"]
<1>1. /\ q \in Record /\ q.at = "throw" /\ q.steps = r.steps /\ q.idx = r.idx /\ q.attempts = r.attempts
  BY DEF Record, Plans!Places
<1> HIDE DEF q
<1>2. Tested(q) <=> Tested(r)
  BY <1>1, Moved
<1>3. TaskOk(q) /\ (Due(q) => Tested(r)) /\ \A s : RowOk("throw", s, "waiting")
  BY <1>1, <1>2 DEF TaskOk, Due, Testing, RowOk
<1> QED
  BY <1>1, <1>3 DEF q

\* The step that is at hand fails, and the plan with it.
Failed(r) == [r EXCEPT !.at = "fail", !.steps[r.idx].status = "failed"]

\* A failed step leaves its record where FailPlan takes it from, nothing new due.
LEMMA FailedIsOk ==
    ASSUME Plans!AgentsAssumption, NEW r \in Record, r.idx \in DOMAIN r.steps
    PROVE  TaskOk(Failed(r)) /\ Failed(r).at = "fail" /\ (Due(Failed(r)) => Tested(r))
<1> DEFINE x == [r.steps[r.idx] EXCEPT !.status = "failed"]
           s == [r.steps EXCEPT ![r.idx] = x]
           q == [r EXCEPT !.at = "fail", !.steps = s]
<1>1. r.steps \in Seq(Plans!Step) /\ r.steps[r.idx] \in Plans!Step
  BY StepIs DEF Record
<1>2. x \in Plans!Step /\ x.agent = r.steps[r.idx].agent
  BY <1>1 DEF Plans!Step
<1>3. /\ s \in Seq(Plans!Step) /\ DOMAIN s = DOMAIN r.steps
      /\ \A j \in DOMAIN r.steps : s[j].agent = r.steps[j].agent
  BY <1>1, <1>2, StepSet
<1>4. Failed(r) = q
  BY DEF Failed, Record
<1> HIDE DEF s
<1>5. q \in Record /\ q.at = "fail" /\ q.idx = r.idx /\ q.steps = s
  BY <1>3 DEF Record, Plans!Places
<1> HIDE DEF q
<1>6. Alike(q, r)
  BY <1>3, <1>5 DEF Alike
<1>7. Tested(q) <=> Tested(r)
  BY <1>5, <1>6, PastAlike
<1> QED
  BY <1>3, <1>4, <1>5, <1>7 DEF TaskOk, Due, Testing

\* What an action may take for granted of a live task, and of a statement.
LEMMA Given ==
    ASSUME Plans!AgentsAssumption, PlanInv, NEW t \in Task, Plans!Live(t)
    PROVE  /\ TaskOk(task[t]) /\ task[t] \in Record /\ RowOk(task[t].at, planStatus[t], "waiting")
           /\ answer[t] = "waiting"
           /\ Tested(task[t]) \/ Testing(task[t]) => t \in beside \/ t \in fresh
           /\ task[t].steps \in Seq(Plans!Step)
           /\ log \subseteq BOOLEAN /\ planFaults \in 0 .. MaxFaults /\ fresh \subseteq Task
           /\ Plans!Fault => planFaults' \in 0 .. MaxFaults
           /\ \A s : Plans!UpdatePlan(t, s) => /\ planStatus' = [planStatus EXCEPT ![t] = s]
                                          /\ planRows' \in [Task -> Seq(Plans!Step)]
<1>1. TaskOk(task[t]) /\ task[t] \in Record /\ task[t].steps \in Seq(Plans!Step)
  BY DEF PlanInv, Loops, TaskOk, Record
<1>2. RowOk(task[t].at, planStatus[t], answer[t]) /\ answer[t] = "waiting"
  BY DEF PlanInv, Rows, RowOk, Plans!Live
<1>3. Tested(task[t]) \/ Testing(task[t]) => t \in beside \/ t \in fresh
  BY DEF PlanInv, Tests, Due
<1>4. log \subseteq BOOLEAN /\ planFaults \in 0 .. MaxFaults /\ fresh \subseteq Task
  BY DEF PlanInv, Shapes
<1>5. Plans!Fault => planFaults' \in 0 .. MaxFaults
  BY <1>4 DEF Plans!AgentsAssumption, Plans!Fault
<1>6. \A s : Plans!UpdatePlan(t, s) => planStatus' = [planStatus EXCEPT ![t] = s] /\ planRows' \in [Task -> Seq(Plans!Step)]
  BY <1>1 DEF Plans!UpdatePlan, PlanInv, Shapes
<1> QED
  BY <1>1, <1>2, <1>3, <1>4, <1>5, <1>6

\* A task whose statement throws, with its row at s or as it was.
LEMMA Throws ==
    ASSUME Plans!AgentsAssumption,
           PlanInv, NEW t \in Task, Plans!Live(t), NEW s \in {"none", "running", "completed", "failed"},
           Plans!Fault, Plans!Goto(t, "throw"), Plans!UpdatePlan(t, s) \/ UNCHANGED <<planStatus, planRows>>,
           UNCHANGED <<answer, Plans!rest>>
    PROVE  PlanInv'
<1> DEFINE q == [task[t] EXCEPT !.at = "throw"]
<1>1. /\ TaskOk(q) /\ q.at = "throw" /\ (Due(q) => Tested(task[t])) /\ \A u : RowOk("throw", u, "waiting")
  BY Given, ThrowIsOk
<1>2. Plans!Set(t, q) /\ planFaults' \in 0 .. MaxFaults
  BY Given DEF Plans!Goto
<1> HIDE DEF q
<1>3. Due(q) => t \in beside \/ t \in fresh'
  BY <1>1, Given DEF Plans!rest
<1>4. log' \subseteq BOOLEAN /\ fresh' \subseteq Task /\ beside' = beside /\ answer' = answer
  BY Given DEF Plans!rest
<1>5. CASE Plans!UpdatePlan(t, s)
  <2>1. planStatus' = [planStatus EXCEPT ![t] = s] /\ planRows' \in [Task -> Seq(Plans!Step)]
    BY <1>5, Given
  <2> QED
    BY <1>1, <1>2, <1>3, <1>4, <2>1, OneStep
<1>6. CASE UNCHANGED <<planStatus, planRows>>
  BY <1>1, <1>2, <1>3, <1>4, <1>6, OneStepInMemory
<1> QED
  BY <1>5, <1>6
-----------------------------------------------------------------------------
(* Each action keeps the invariant *)

\* A new task has nothing behind it, and all that are live at once are beside.
LEMMA ExecuteKeeps == ASSUME Plans!AgentsAssumption, PlanInv, NEW t \in Task, Plans!Execute(t) PROVE PlanInv'
<1>1. PICK plan \in PlannerPlans \cup {Plans!DefaultPlan} :
          Plans!Set(t, [Plans!Idle EXCEPT !.at = "insert", !.idx = 1, !.steps = [i \in DOMAIN plan |-> Plans!NewStep(plan[i])]])
  BY DEF Plans!Execute, Plans!GeneratePlan
<1> DEFINE s == [i \in DOMAIN plan |-> Plans!NewStep(plan[i])]
           q == [Plans!Idle EXCEPT !.at = "insert", !.idx = 1, !.steps = s]
<1>2. MaxAttempts \in Nat /\ MaxCalls \in Nat
  BY DEF Plans!AgentsAssumption
<1>3. plan \in Seq(Plans!Agent)
  <2>1. Plans!DefaultPlan \in Seq(Plans!Agent)
    BY DEF Plans!DefaultPlan, Plans!Agent
  <2> QED
    BY <2>1 DEF Plans!AgentsAssumption
<1>4. s \in Seq(Plans!Step)
  <2>1. DOMAIN plan = 1 .. Len(plan) /\ Len(plan) \in Nat
    BY <1>3, LenProperties
  <2>2. \A i \in 1 .. Len(plan) : plan[i] \in Plans!Agent
    BY <1>3, ElementOfSeq
  <2>3. \A i \in 1 .. Len(plan) : Plans!NewStep(plan[i]) \in Plans!Step
    BY <1>2, <2>2 DEF Plans!NewStep, Plans!Step
  <2>4. s \in [1 .. Len(plan) -> Plans!Step]
    BY <2>1, <2>3
  <2> QED
    BY <2>1, <2>4, SeqDef
<1> HIDE DEF s
<1>5. /\ q \in Record /\ q.at = "insert" /\ q.idx = 1 /\ q.steps = s /\ q.attempts = 0
  <2>1. Plans!Idle \in Record /\ Plans!Idle.attempts = 0
    BY <1>2, EmptySeq DEF Plans!Idle, Record, Plans!Places
  <2>2. "insert" \in Plans!Places /\ 1 \in Nat
    BY DEF Plans!Places
  <2> HIDE DEF Plans!Idle
  <2> QED
    BY <1>4, <2>1, <2>2 DEF Record
<1> HIDE DEF q
<1>6. DOMAIN s = 1 .. Len(s) /\ Len(s) \in Nat
  BY <1>4, LenProperties
<1>7. Ready(q) /\ ~Tested(q)
  BY <1>5, <1>6 DEF Ready, Behind, Tested
<1>8. TaskOk(q) /\ ~Due(q)
  BY <1>5, <1>7 DEF TaskOk, Due, Testing
<1>9. answer[t] = "unasked" /\ ~Plans!Live(t) /\ planStatus[t] = "none"
  BY DEF Plans!Execute, PlanInv, Rows, RowOk, Plans!Live
<1>10. task' = [task EXCEPT ![t] = q] /\ answer' = [answer EXCEPT ![t] = "waiting"]
       /\ UNCHANGED <<planStatus, planRows, log, planFaults, fresh>>
  BY <1>1 DEF Plans!Execute, Plans!Set, q, s
<1> DEFINE others == {u \in Task : Plans!Live(u)}
<1>11. /\ others = {} => beside' = beside
       /\ others # {} => beside' = beside \cup others \cup {t}
  BY DEF Plans!Execute
<1>12. Shapes'
  BY <1>5, <1>10, <1>11 DEF PlanInv, Shapes
<1>13. /\ task'[t] = q /\ answer'[t] = "waiting"
       /\ \A u \in Task \ {t} : task'[u] = task[u] /\ answer'[u] = answer[u] /\ (Plans!Live(u)' <=> Plans!Live(u))
  BY <1>10 DEF PlanInv, Shapes, Plans!Live
<1>14. Loops'
  BY <1>8, <1>13 DEF PlanInv, Loops
<1>15. Rows'
  <2>1. RowOk("insert", "none", "waiting")
    BY DEF RowOk
  <2> QED
    BY <1>5, <1>9, <1>10, <1>13, <2>1 DEF PlanInv, Rows
<1>16. Overlaps'
  <2> SUFFICES ASSUME NEW u \in Task, NEW v \in Task, u # v, Plans!Live(u)', Plans!Live(v)' PROVE u \in beside'
    BY DEF Overlaps
  <2>1. Plans!Live(u) \/ Plans!Live(v)
    BY <1>13
  <2>2. u \in others \cup {t} /\ others # {}
    BY <1>13, <2>1
  <2> QED
    BY <1>11, <2>2
<1>17. Tests'
  <2> SUFFICES ASSUME NEW u \in Task, Plans!Live(u)', Due(task[u])' PROVE (u \in beside \/ u \in fresh)'
    BY DEF Tests
  <2>1. u # t
    BY <1>8, <1>13
  <2>2. u \in beside \/ u \in fresh
    BY <1>13, <2>1 DEF PlanInv, Tests
  <2> QED
    BY <1>10, <1>11, <2>2
<1> QED
  BY <1>12, <1>14, <1>15, <1>16, <1>17 DEF PlanInv

\* Once the plan is recorded, its row runs with the loop.
LEMMA InsertPlanKeeps ==
    ASSUME Plans!AgentsAssumption, PlanInv, NEW t \in Task, Plans!InsertPlan(t)
    PROVE  PlanInv'
<1>1. Plans!Live(t) /\ task[t].at = "insert" /\ UNCHANGED <<answer, Plans!rest>>
  BY DEF Plans!InsertPlan, Plans!Live
<1>2. CASE Plans!UpdatePlan(t, "running") /\ Plans!Set(t, Plans!Loop(task[t])) /\ UNCHANGED planFaults
  <2> DEFINE q == Plans!Loop(task[t])
  <2>1. Ready(task[t])
    BY <1>1, Given DEF TaskOk
  <2>2. TaskOk(q) /\ q.at \in {"save", "complete"} /\ (Due(q) => Tested(task[t]))
    BY <2>1, LoopIsOk
  <2> HIDE DEF q
  <2>3. RowOk(q.at, "running", "waiting")
    BY <2>2 DEF RowOk
  <2>4. Due(q) => t \in beside \/ t \in fresh'
    BY <1>1, <2>2, Given DEF Plans!rest
  <2>5. planStatus' = [planStatus EXCEPT ![t] = "running"] /\ planRows' \in [Task -> Seq(Plans!Step)]
    BY <1>1, <1>2, Given
  <2>6. log' \subseteq BOOLEAN /\ planFaults' \in 0 .. MaxFaults /\ fresh' \subseteq Task /\ beside' = beside /\ answer' = answer
    BY <1>1, <1>2, Given DEF Plans!rest
  <2>7. Plans!Set(t, q)
    BY <1>2 DEF q
  <2> QED
    BY <1>1, <2>2, <2>3, <2>4, <2>5, <2>6, <2>7, OneStep
<1>3. CASE Plans!Fault /\ Plans!Goto(t, "throw") /\ (Plans!UpdatePlan(t, "running") \/ UNCHANGED <<planStatus, planRows>>)
  BY <1>1, <1>3, Throws
<1> QED
  BY <1>2, <1>3 DEF Plans!InsertPlan

\* Saving a plan moves its task to the agent and changes nothing behind it.
LEMMA SaveKeeps == ASSUME Plans!AgentsAssumption, PlanInv, NEW t \in Task, Plans!SavePlan(t) PROVE PlanInv'
<1>1. Plans!Live(t) /\ task[t].at = "save" /\ UNCHANGED <<answer, Plans!rest>>
  BY DEF Plans!SavePlan, Plans!Live
<1>2. CASE Plans!UpdatePlan(t, "running") /\ Plans!Goto(t, "agent") /\ UNCHANGED planFaults
  <2> DEFINE q == [task[t] EXCEPT !.at = "agent"]
  <2>1. task[t] \in Record /\ AtStep(task[t])
    BY <1>1, Given DEF TaskOk
  <2>2. /\ q \in Record /\ q.at = "agent" /\ q.steps = task[t].steps /\ q.idx = task[t].idx
        /\ q.attempts = task[t].attempts
    BY <2>1 DEF Record, Plans!Places
  <2> HIDE DEF q
  <2>3. AtStep(q) /\ (Tested(q) <=> Tested(task[t]))
    BY <2>1, <2>2, Moved
  <2>4. TaskOk(q) /\ (Due(q) => Tested(task[t])) /\ RowOk(q.at, "running", "waiting")
    BY <2>2, <2>3 DEF TaskOk, Due, Testing, RowOk
  <2>5. Due(q) => t \in beside \/ t \in fresh'
    BY <1>1, <2>4, Given DEF Plans!rest
  <2>6. planStatus' = [planStatus EXCEPT ![t] = "running"] /\ planRows' \in [Task -> Seq(Plans!Step)]
    BY <1>1, <1>2, Given
  <2>7. log' \subseteq BOOLEAN /\ planFaults' \in 0 .. MaxFaults /\ fresh' \subseteq Task /\ beside' = beside /\ answer' = answer
    BY <1>1, <1>2, Given DEF Plans!rest
  <2>8. Plans!Set(t, q)
    BY <1>2 DEF q, Plans!Goto
  <2> QED
    BY <1>1, <2>2, <2>4, <2>5, <2>6, <2>7, <2>8, OneStep
<1>3. CASE Plans!Fault /\ Plans!Goto(t, "throw") /\ (Plans!UpdatePlan(t, "running") \/ UNCHANGED <<planStatus, planRows>>)
  BY <1>1, <1>3, Throws
<1> QED
  BY <1>2, <1>3 DEF Plans!SavePlan, Plans!Statement

\* The step at hand is done, its row as it was: by what is at hand, not the
\* Tester, or the Tester when its tests have run.
LEMMA StepDoneKeeps ==
    ASSUME Plans!AgentsAssumption,
           PlanInv, NEW t \in Task, Plans!Live(t), NEW r, r.steps = task[t].steps,
           AtStep(r), planStatus[t] = "running", Plans!Set(t, Plans!Done(r)),
           Tested(r) \/ r.steps[r.idx].agent = "Tester" => t \in beside \/ t \in fresh',
           UNCHANGED Plans!db, log' \subseteq BOOLEAN, planFaults' \in 0 .. MaxFaults, fresh' \subseteq Task, beside' = beside
    PROVE  PlanInv'
<1> DEFINE q == Plans!Done(r)
<1>1. TaskOk(q) /\ q.at \in {"save", "complete"} /\ (Due(q) => Tested(r) \/ r.steps[r.idx].agent = "Tester")
  BY DoneIsOk
<1>2. Plans!Set(t, q)
  OBVIOUS
<1> HIDE DEF q
<1>3. RowOk(q.at, planStatus[t], "waiting")
  BY <1>1 DEF RowOk
<1> QED
  BY <1>1, <1>2, <1>3, OneStepInMemory DEF Plans!db
\* An agent that is not the Tester is done.
LEMMA AgentDone ==
    ASSUME Plans!AgentsAssumption,
           PlanInv, NEW t \in Task, task[t].at = "agent", Plans!Current(t).agent # "Tester", Plans!Set(t, Plans!Done(task[t])),
           UNCHANGED Plans!db, UNCHANGED Plans!rest, planFaults' = planFaults
    PROVE  PlanInv'
<1>1. Plans!Live(t)
  BY DEF Plans!Live
<1>2. AtStep(task[t]) /\ planStatus[t] = "running"
  BY <1>1, Given DEF TaskOk, RowOk
<1>3. Tested(task[t]) \/ task[t].steps[task[t].idx].agent = "Tester" => t \in beside \/ t \in fresh'
  BY <1>1, Given DEF Plans!Current, Plans!rest
<1>4. log' \subseteq BOOLEAN /\ planFaults' \in 0 .. MaxFaults /\ fresh' \subseteq Task /\ beside' = beside
  BY <1>1, Given DEF Plans!rest
<1> QED
  BY <1>1, <1>2, <1>3, <1>4, StepDoneKeeps

\* Research is done, or its step and its plan fail.
LEMMA ResearchKeeps ==
    ASSUME Plans!AgentsAssumption, PlanInv, NEW t \in Task, Plans!Research(t)
    PROVE  PlanInv'
<1>1. /\ Plans!Live(t) /\ task[t].at = "agent" /\ Plans!Current(t).agent # "Tester"
      /\ UNCHANGED Plans!db /\ UNCHANGED Plans!rest
  BY DEF Plans!Research, Plans!Running, Plans!Live
<1>2. CASE Plans!Set(t, Plans!Done(task[t])) /\ UNCHANGED planFaults
  BY <1>1, <1>2, AgentDone
<1>3. CASE Plans!Fault /\ Plans!Set(t, Failed(task[t]))
  <2> DEFINE q == Failed(task[t])
  <2>1. task[t] \in Record /\ task[t].idx \in DOMAIN task[t].steps /\ planStatus[t] = "running"
    BY <1>1, Given DEF TaskOk, AtStep, RowOk
  <2>2. TaskOk(q) /\ q.at = "fail" /\ (Due(q) => Tested(task[t]))
    BY <2>1, FailedIsOk
  <2>3. Plans!Set(t, q)
    BY <1>3
  <2> HIDE DEF q
  <2>4. RowOk(q.at, planStatus[t], "waiting")
    BY <2>1, <2>2 DEF RowOk
  <2>5. Due(q) => t \in beside \/ t \in fresh'
    BY <1>1, <2>2, Given DEF Plans!rest
  <2>6. /\ log' \subseteq BOOLEAN /\ planFaults' \in 0 .. MaxFaults /\ fresh' \subseteq Task /\ beside' = beside
        /\ UNCHANGED <<planStatus, planRows, answer>>
    BY <1>1, <1>3, Given DEF Plans!rest, Plans!db
  <2> QED
    BY <1>1, <2>2, <2>3, <2>4, <2>5, <2>6, OneStepInMemory
<1> QED
  BY <1>2, <1>3 DEF Plans!Research, Failed

\* An agent without a handler is done.
LEMMA OtherAgentKeeps ==
    ASSUME Plans!AgentsAssumption, PlanInv, NEW t \in Task, Plans!OtherAgent(t)
    PROVE  PlanInv'
<1>1. task[t].at = "agent" /\ Plans!Current(t).agent # "Tester" /\ Plans!Set(t, Plans!Done(task[t]))
  BY DEF Plans!OtherAgent, Plans!Running
<1> QED
  BY <1>1, AgentDone DEF Plans!OtherAgent, Plans!db, Plans!rest

\* A Reviewer that approves is done.
LEMMA ApproveKeeps == ASSUME Plans!AgentsAssumption, PlanInv, NEW t \in Task, Plans!Approve(t) PROVE PlanInv'
<1>1. task[t].at = "agent" /\ Plans!Current(t).agent # "Tester" /\ Plans!Set(t, Plans!Done(task[t]))
  BY DEF Plans!Approve, Plans!Running
<1> QED
  BY <1>1, AgentDone DEF Plans!Approve, Plans!db, Plans!rest

\* The Coder, or the Tester, has tools to call.
LEMMA CallsKeep ==
    ASSUME Plans!AgentsAssumption,
           PlanInv, NEW t \in Task, task[t].at = "agent", Plans!Current(t).agent \in {"Coder", "Tester"},
           NEW n \in 1 .. MaxCalls + 1, NEW k \in 0 .. MaxAttempts,
           Plans!Set(t, [task[t] EXCEPT !.at = "tool", !.calls = n, !.shown = k]),
           Plans!Current(t).agent = "Tester" => t \in fresh', fresh \subseteq fresh', fresh' \subseteq Task,
           UNCHANGED Plans!db, log' = log, planFaults' = planFaults, beside' = beside
    PROVE  PlanInv'
<1> DEFINE r == task[t]
           q == [r EXCEPT !.at = "tool", !.calls = n, !.shown = k]
<1>1. Plans!Live(t)
  BY DEF Plans!Live
<1>2. r \in Record /\ AtStep(r) /\ planStatus[t] = "running"
  BY <1>1, Given DEF TaskOk, RowOk
<1>3. MaxCalls \in Nat
  BY DEF Plans!AgentsAssumption
<1>4. /\ q \in Record /\ q.at = "tool" /\ q.calls > 0 /\ q.steps = r.steps /\ q.idx = r.idx
      /\ q.attempts = r.attempts
  <2>1. r \in Record
    BY <1>2
  <2>2. "tool" \in Plans!Places /\ n \in 0 .. MaxCalls + 1 /\ n > 0
    BY <1>3 DEF Plans!Places
  <2> HIDE DEF r
  <2> QED
    BY <2>1, <2>2 DEF Record
<1>5. Plans!Set(t, q)
  OBVIOUS
<1> HIDE DEF q
<1>6. AtStep(q) /\ (Tested(q) <=> Tested(r))
  BY <1>2, <1>4, Moved
<1>7. TaskOk(q) /\ RowOk(q.at, planStatus[t], "waiting")
  BY <1>2, <1>4, <1>6 DEF TaskOk, RowOk, Plans!Current
<1>8. Due(q) => t \in beside \/ t \in fresh'
  BY <1>1, <1>4, <1>6, Given DEF Due, Testing, Plans!Current
<1>9. /\ log' \subseteq BOOLEAN /\ planFaults' \in 0 .. MaxFaults /\ UNCHANGED <<planStatus, planRows, answer>>
  BY <1>1, Given DEF Plans!db
<1> QED
  BY <1>1, <1>4, <1>5, <1>7, <1>8, <1>9, OneStepInMemory

\* A Coder may have calls only where no tests are behind it.
LEMMA CoderKeeps == ASSUME Plans!AgentsAssumption, PlanInv, NEW t \in Task, Plans!Coder(t) PROVE PlanInv'
<1>1. /\ task[t].at = "agent" /\ Plans!Current(t).agent = "Coder"
      /\ UNCHANGED Plans!db /\ log' = log /\ planFaults' = planFaults /\ beside' = beside /\ fresh' = fresh
  BY DEF Plans!Coder, Plans!Running, Plans!rest
<1>2. Plans!Live(t)
  BY <1>1 DEF Plans!Live
<1>3. /\ task[t] \in Record /\ task[t].attempts \in 0 .. MaxAttempts /\ task[t].shown \in 0 .. MaxAttempts
      /\ MaxCalls \in Nat /\ fresh \subseteq Task
  BY <1>2, Given DEF Plans!AgentsAssumption, Record
<1>4. CASE \E n \in 1 .. MaxCalls : Plans!Set(t, [task[t] EXCEPT !.at = "tool", !.calls = n, !.shown = task[t].attempts])
  <2>1. PICK n \in 1 .. MaxCalls : Plans!Set(t, [task[t] EXCEPT !.at = "tool", !.calls = n, !.shown = task[t].attempts])
    BY <1>4
  <2>2. n \in 1 .. MaxCalls + 1
    BY <1>3
  <2> QED
    BY <1>1, <1>3, <2>1, <2>2, CallsKeep
<1>5. CASE Plans!Set(t, [task[t] EXCEPT !.at = "tool", !.calls = MaxCalls + 1])
  <2>1. [task[t] EXCEPT !.at = "tool", !.calls = MaxCalls + 1]
            = [task[t] EXCEPT !.at = "tool", !.calls = MaxCalls + 1, !.shown = task[t].shown]
    BY <1>3 DEF Record
  <2>2. MaxCalls + 1 \in 1 .. MaxCalls + 1
    BY <1>3
  <2>3. Plans!Set(t, [task[t] EXCEPT !.at = "tool", !.calls = MaxCalls + 1, !.shown = task[t].shown])
    BY <1>5, <2>1
  <2> QED
    BY <1>1, <1>3, <2>2, <2>3, CallsKeep
<1> QED
  BY <1>4, <1>5 DEF Plans!Coder

\* The Tester's call sees the workspace as it is.
LEMMA TesterKeeps == ASSUME Plans!AgentsAssumption, PlanInv, NEW t \in Task, Plans!Tester(t) PROVE PlanInv'
<1>1. /\ task[t].at = "agent" /\ Plans!Current(t).agent = "Tester"
      /\ UNCHANGED Plans!db /\ log' = log /\ planFaults' = planFaults /\ beside' = beside /\ fresh' = fresh \cup {t}
      /\ Plans!Set(t, [task[t] EXCEPT !.at = "tool", !.calls = 1])
  BY DEF Plans!Tester, Plans!Running
<1>2. Plans!Live(t)
  BY <1>1 DEF Plans!Live
<1>3. /\ task[t] \in Record /\ task[t].shown \in 0 .. MaxAttempts
      /\ MaxCalls \in Nat /\ fresh \subseteq Task
  BY <1>2, Given DEF Plans!AgentsAssumption, Record
<1>4. [task[t] EXCEPT !.at = "tool", !.calls = 1] = [task[t] EXCEPT !.at = "tool", !.calls = 1, !.shown = task[t].shown]
  BY <1>3 DEF Record
<1>5. Plans!Set(t, [task[t] EXCEPT !.at = "tool", !.calls = 1, !.shown = task[t].shown])
  BY <1>1, <1>4
<1>6. 1 \in 1 .. MaxCalls + 1
  BY <1>3
<1> QED
  BY <1>1, <1>3, <1>5, <1>6, CallsKeep
\* A rejection counts as done, or waits for its Rewind.
LEMMA RejectKeeps == ASSUME Plans!AgentsAssumption, PlanInv, NEW t \in Task, Plans!Reject(t) PROVE PlanInv'
<1> DEFINE coder == Plans!CoderBefore(t, task[t].idx)
<1>1. /\ task[t].at = "agent" /\ Plans!Current(t).agent # "Tester" /\ Plans!Live(t)
      /\ UNCHANGED Plans!db /\ UNCHANGED Plans!rest /\ planFaults' = planFaults
  BY DEF Plans!Reject, Plans!Running, Plans!Live, Plans!db, Plans!rest
<1>2. coder = CoderIn(task[t], task[t].idx)
  BY DEF Plans!CoderBefore, CoderIn, LastOf, Coders
<1>3. CASE coder = 0
  BY <1>1, <1>3, AgentDone DEF Plans!Reject
<1>4. CASE coder # 0
  <2> DEFINE q == Rejected(task[t])
  <2>1. Plans!Set(t, q)
    BY <1>2, <1>4 DEF Plans!Reject, Rejected
  <2>2. AtStep(task[t]) /\ planStatus[t] = "running"
    BY <1>1, Given DEF TaskOk, RowOk
  <2>3. TaskOk(q) /\ q.at = "rewind" /\ (Due(q) => Tested(task[t]))
    BY <1>2, <1>4, <2>2, RejectedIsOk
  <2> HIDE DEF q
  <2>4. RowOk(q.at, planStatus[t], "waiting")
    BY <2>2, <2>3 DEF RowOk
  <2>5. Due(q) => t \in beside \/ t \in fresh'
    BY <1>1, <2>3, Given DEF Plans!rest
  <2>6. /\ log' \subseteq BOOLEAN /\ planFaults' \in 0 .. MaxFaults /\ fresh' \subseteq Task /\ beside' = beside
        /\ UNCHANGED <<planStatus, planRows, answer>>
    BY <1>1, Given DEF Plans!rest, Plans!db
  <2> QED
    BY <1>1, <2>1, <2>3, <2>4, <2>5, <2>6, OneStepInMemory
<1> QED
  BY <1>3, <1>4

\* Back to the Coder, or failed: either way what is behind stays so.
LEMMA RewindKeeps == ASSUME Plans!AgentsAssumption, PlanInv, NEW t \in Task, Plans!Rewind(t) PROVE PlanInv'
<1>1. /\ task[t].at = "rewind" /\ Plans!Live(t) /\ UNCHANGED <<answer, Plans!rest>>
      /\ TaskOk(task[t]) /\ task[t] \in Record /\ planStatus[t] = "running"
  <2>1. task[t].at = "rewind" /\ Plans!Live(t) /\ UNCHANGED <<answer, Plans!rest>>
    BY DEF Plans!Rewind, Plans!Live
  <2> QED
    BY <2>1, Given DEF RowOk
<1>2. beside' = beside /\ answer' = answer /\ fresh' = fresh /\ log' = log /\ log \subseteq BOOLEAN /\ fresh \subseteq Task
  BY <1>1, Given DEF Plans!rest
<1>3. CASE /\ Plans!UpdatePlan(t, "running") /\ UNCHANGED planFaults
           /\ Plans!Set(t, Plans!Loop([task[t] EXCEPT !.idx = Plans!CoderBefore(t, task[t].idx)]))
  <2> DEFINE q == Plans!Loop(Sent(task[t]))
  <2>1. Ready(Sent(task[t])) /\ ~Tested(Sent(task[t]))
    BY <1>1, SentIsReady
  <2>2. TaskOk(q) /\ q.at \in {"save", "complete"} /\ ~Due(q)
    BY <2>1, LoopIsOk
  <2>3. Plans!Set(t, q)
    <3>1. Plans!CoderBefore(t, task[t].idx) = CoderIn(task[t], task[t].idx)
      BY DEF Plans!CoderBefore, CoderIn, LastOf, Coders
    <3> QED
      BY <1>3, <3>1 DEF Sent
  <2> HIDE DEF q
  <2>4. RowOk(q.at, "running", "waiting")
    BY <2>2 DEF RowOk
  <2>5. planStatus' = [planStatus EXCEPT ![t] = "running"] /\ planRows' \in [Task -> Seq(Plans!Step)] /\ planFaults' \in 0 .. MaxFaults
    BY <1>1, <1>3, Given
  <2> QED
    BY <1>1, <1>2, <2>2, <2>3, <2>4, <2>5, OneStep
<1>4. CASE Plans!Fault /\ (Plans!UpdatePlan(t, "running") \/ UNCHANGED <<planStatus, planRows>>) /\ Plans!Set(t, Failed(task[t]))
  <2> DEFINE q == Failed(task[t])
  <2>1. task[t].idx \in DOMAIN task[t].steps
    BY <1>1 DEF TaskOk
  <2>2. TaskOk(q) /\ q.at = "fail" /\ (Due(q) => Tested(task[t]))
    BY <1>1, <2>1, FailedIsOk
  <2>3. Plans!Set(t, q)
    BY <1>4
  <2> HIDE DEF q
  <2>4. RowOk(q.at, "running", "waiting") /\ RowOk(q.at, planStatus[t], "waiting")
    BY <1>1, <2>2 DEF RowOk
  <2>5. (Due(q) => t \in beside \/ t \in fresh') /\ planFaults' \in 0 .. MaxFaults
    BY <1>1, <1>2, <1>4, <2>2, Given
  <2>6. CASE Plans!UpdatePlan(t, "running")
    <3>1. planStatus' = [planStatus EXCEPT ![t] = "running"] /\ planRows' \in [Task -> Seq(Plans!Step)]
      BY <1>1, <2>6, Given
    <3> QED
      BY <1>1, <1>2, <2>2, <2>3, <2>4, <2>5, <3>1, OneStep
  <2>7. CASE UNCHANGED <<planStatus, planRows>>
    BY <1>1, <1>2, <2>2, <2>3, <2>4, <2>5, <2>7, OneStepInMemory
  <2> QED
    BY <1>4, <2>6, <2>7
<1> QED
  BY <1>3, <1>4 DEF Plans!Rewind, Failed

\* A plan that failed is only to be answered.
LEMMA FailPlanKeeps ==
    ASSUME Plans!AgentsAssumption, PlanInv, NEW t \in Task, Plans!FailPlan(t)
    PROVE  PlanInv'
<1>1. /\ task[t].at = "fail" /\ Plans!Live(t) /\ UNCHANGED <<answer, Plans!rest>>
  BY DEF Plans!FailPlan, Plans!Live
<1>2. CASE Plans!UpdatePlan(t, "failed") /\ Plans!Goto(t, "throw") /\ UNCHANGED planFaults
  <2> DEFINE q == [task[t] EXCEPT !.at = "throw"]
  <2>1. TaskOk(q) /\ q.at = "throw" /\ (Due(q) => Tested(task[t])) /\ RowOk("throw", "failed", "waiting")
    BY <1>1, Given, ThrowIsOk
  <2>2. Plans!Set(t, q)
    BY <1>2 DEF Plans!Goto
  <2> HIDE DEF q
  <2>3. Due(q) => t \in beside \/ t \in fresh'
    BY <1>1, <2>1, Given DEF Plans!rest
  <2>4. planStatus' = [planStatus EXCEPT ![t] = "failed"] /\ planRows' \in [Task -> Seq(Plans!Step)]
    BY <1>1, <1>2, Given
  <2>5. log' \subseteq BOOLEAN /\ planFaults' \in 0 .. MaxFaults /\ fresh' \subseteq Task /\ beside' = beside /\ answer' = answer
    BY <1>1, <1>2, Given DEF Plans!rest
  <2> QED
    BY <1>1, <2>1, <2>2, <2>3, <2>4, <2>5, OneStep
<1>3. CASE Plans!Fault /\ Plans!Goto(t, "throw") /\ (Plans!UpdatePlan(t, "failed") \/ UNCHANGED <<planStatus, planRows>>)
  BY <1>1, <1>3, Throws
<1> QED
  BY <1>2, <1>3 DEF Plans!FailPlan, Plans!Statement

\* A plan that is over is answered, if its row could be completed.
LEMMA CompleteKeeps ==
    ASSUME Plans!AgentsAssumption, PlanInv, NEW t \in Task, Plans!CompletePlan(t)
    PROVE  PlanInv'
<1>1. /\ task[t].at = "complete" /\ Plans!Live(t) /\ UNCHANGED <<answer, Plans!rest>>
  BY DEF Plans!CompletePlan, Plans!Live
<1>2. CASE Plans!UpdatePlan(t, "completed") /\ Plans!Goto(t, "reply") /\ UNCHANGED planFaults
  <2> DEFINE q == [task[t] EXCEPT !.at = "reply"]
  <2>1. task[t] \in Record /\ Ready(task[t])
    BY <1>1, Given DEF TaskOk
  <2>2. /\ q \in Record /\ q.at = "reply" /\ q.steps = task[t].steps /\ q.idx = task[t].idx
        /\ q.attempts = task[t].attempts
    BY <2>1 DEF Record, Plans!Places
  <2>3. Plans!Set(t, q)
    BY <1>2 DEF Plans!Goto
  <2> HIDE DEF q
  <2>4. Ready(q) /\ (Tested(q) <=> Tested(task[t]))
    BY <2>1, <2>2, Moved
  <2>5. TaskOk(q) /\ (Due(q) => Tested(task[t])) /\ RowOk(q.at, "completed", "waiting")
    BY <2>2, <2>4 DEF TaskOk, Due, Testing, RowOk
  <2>6. Due(q) => t \in beside \/ t \in fresh'
    BY <1>1, <2>5, Given DEF Plans!rest
  <2>7. planStatus' = [planStatus EXCEPT ![t] = "completed"] /\ planRows' \in [Task -> Seq(Plans!Step)]
    BY <1>1, <1>2, Given
  <2>8. log' \subseteq BOOLEAN /\ planFaults' \in 0 .. MaxFaults /\ fresh' \subseteq Task /\ beside' = beside /\ answer' = answer
    BY <1>1, <1>2, Given DEF Plans!rest
  <2> QED
    BY <1>1, <2>2, <2>3, <2>5, <2>6, <2>7, <2>8, OneStep
<1>3. CASE Plans!Fault /\ Plans!Goto(t, "throw") /\ (Plans!UpdatePlan(t, "completed") \/ UNCHANGED <<planStatus, planRows>>)
  BY <1>1, <1>3, Throws
<1> QED
  BY <1>2, <1>3 DEF Plans!CompletePlan, Plans!Statement
\* Every handler's outcome is logged as a success or an error.
LEMMA OutcomeIs == \A tool \in Plans!Tool : \A o \in Plans!Handler[tool] : o.good \in BOOLEAN
<1>1. \A tool \in Plans!Tool : Plans!Handler[tool] \subseteq {Plans!Good, Plans!GoodWrite, Plans!Bad, Plans!BadWrite}
  <2>1. /\ Plans!Handler["read_file"] = Plans!ReadFile /\ Plans!Handler["write_file"] = Plans!WriteFile
        /\ Plans!Handler["search_files"] = Plans!SearchFiles /\ Plans!Handler["run_terminal"] = Plans!RunTerminal
        /\ Plans!Handler["git_status"] = Plans!GitStatus /\ Plans!Handler["git_diff"] = Plans!GitDiff
    BY DEF Plans!Handler
  <2>2. /\ Plans!Handler["run_tests"] = Plans!RunTests /\ Plans!Handler["list_directory"] = Plans!ListDirectory
        /\ Plans!Handler["http_request"] = Plans!HttpRequest /\ Plans!Handler["install_package"] = Plans!InstallPackage
        /\ Plans!Handler["unregistered"] = Plans!Unregistered
    BY DEF Plans!Handler
  <2> QED
    BY <2>1, <2>2 DEF Plans!Tool, Plans!ReadFile, Plans!WriteFile, Plans!SearchFiles, Plans!RunTerminal, Plans!GitStatus, Plans!GitDiff, Plans!RunTests,
                      Plans!ListDirectory, Plans!HttpRequest, Plans!InstallPackage, Plans!Unregistered
<1>2. \A o \in {Plans!Good, Plans!GoodWrite, Plans!Bad, Plans!BadWrite} : o.good \in BOOLEAN
  <2>1. Plans!Good.good = TRUE /\ Plans!GoodWrite.good = TRUE
    BY Zenon DEF Plans!Good, Plans!GoodWrite
  <2>2. Plans!Bad.good = FALSE /\ Plans!BadWrite.good = FALSE
    BY Zenon DEF Plans!Bad, Plans!BadWrite
  <2> QED
    BY <2>1, <2>2
<1> QED
  BY <1>1, <1>2

\* The Tester's call writes nothing, and one that the Coder makes can only
\* spoil tests that are not due.
LEMMA RunToolKeeps == ASSUME Plans!AgentsAssumption, PlanInv, NEW t \in Task, Plans!RunTool(t) PROVE PlanInv'
<1> DEFINE c == IF task[t].calls = MaxCalls + 1 THEN 0 ELSE task[t].calls - 1
           r == [task[t] EXCEPT !.calls = c]
<1>1. /\ task[t].at = "tool" /\ Plans!Live(t) /\ UNCHANGED Plans!db /\ beside' = beside
      /\ Plans!Set(t, IF r.calls = 0 THEN Plans!Done(r) ELSE r)
  BY DEF Plans!RunTool, Plans!Live
<1>2. PICK o \in UNION {Plans!Handler[tool] : tool \in Plans!Called(t)} : Plans!Ran(o)
  BY DEF Plans!RunTool
<1>3. /\ TaskOk(task[t]) /\ task[t] \in Record /\ AtStep(task[t]) /\ planStatus[t] = "running"
      /\ task[t].calls > 0 /\ Plans!Current(t).agent \in {"Coder", "Tester"}
      /\ task[t].idx \in DOMAIN task[t].steps
  BY <1>1, Given DEF TaskOk, RowOk, Plans!Current, AtStep
<1>4. MaxCalls \in Nat /\ task[t].calls \in 0 .. MaxCalls + 1 /\ c \in 0 .. MaxCalls + 1
  BY <1>3 DEF Plans!AgentsAssumption, Record
<1> HIDE DEF c
<1>5. /\ r \in Record /\ r.at = "tool" /\ r.calls = c /\ r.steps = task[t].steps /\ r.idx = task[t].idx
      /\ r.attempts = task[t].attempts
  BY <1>1, <1>3, <1>4 DEF Record
<1> HIDE DEF r
<1>6. AtStep(r) /\ (Tested(r) <=> Tested(task[t])) /\ (Testing(r) <=> Testing(task[t]))
  <2>1. AtStep(r) /\ (Tested(r) <=> Tested(task[t]))
    BY <1>3, <1>5, Moved
  <2>2. Testing(r) <=> Testing(task[t])
    BY <1>1, <1>5 DEF Testing
  <2> QED
    BY <2>1, <2>2
<1>7. Plans!Current(t).agent = "Tester" => fresh' = fresh
  <2> SUFFICES ASSUME Plans!Current(t).agent = "Tester" PROVE fresh' = fresh
    OBVIOUS
  <2>1. Plans!Called(t) = {"run_tests"}
    BY DEF Plans!Called
  <2>2. Plans!Handler["run_tests"] = {Plans!Good}
    BY DEF Plans!Handler, Plans!RunTests
  <2>3. o = Plans!Good
    BY <1>2, <2>1, <2>2
  <2> QED
    BY <1>2, <2>3 DEF Plans!Ran, Plans!Good
<1>8. Plans!Current(t).agent = "Coder" => ~Tested(task[t]) /\ r.steps[r.idx].agent # "Tester"
  BY <1>3, <1>5, PastNoCoder DEF Plans!Current
<1>9. Tested(r) \/ r.steps[r.idx].agent = "Tester" => t \in beside \/ t \in fresh'
  <2>1. CASE Plans!Current(t).agent = "Coder"
    BY <1>6, <1>8, <2>1
  <2>2. CASE Plans!Current(t).agent = "Tester"
    BY <1>1, <1>7, <2>2, Given DEF Testing, Plans!Current
  <2> QED
    BY <1>3, <2>1, <2>2
<1>10. /\ log' \subseteq BOOLEAN /\ planFaults' \in 0 .. MaxFaults /\ fresh' \subseteq Task
  <2>1. o.good \in BOOLEAN
    <3>1. PICK tool \in Plans!Called(t) : o \in Plans!Handler[tool]
      BY <1>2
    <3>2. tool \in Plans!Tool
      BY DEF Plans!Called, Plans!Tool
    <3> QED
      BY <3>1, <3>2, OutcomeIs
  <2>2. log \subseteq BOOLEAN /\ planFaults \in 0 .. MaxFaults /\ fresh \subseteq Task /\ (Plans!Fault => planFaults' \in 0 .. MaxFaults)
    BY <1>1, Given
  <2> QED
    BY <1>2, <2>1, <2>2 DEF Plans!Ran
<1>11. CASE r.calls = 0
  <2>1. Plans!Set(t, Plans!Done(r))
    BY <1>1, <1>11
  <2> QED
    BY <1>1, <1>3, <1>5, <1>6, <1>9, <1>10, <2>1, StepDoneKeeps
<1>12. CASE r.calls # 0
  <2>1. Plans!Set(t, r) /\ r.calls > 0
    BY <1>1, <1>4, <1>5, <1>12
  <2>2. TaskOk(r) /\ RowOk(r.at, planStatus[t], "waiting")
    BY <1>3, <1>5, <1>6, <2>1 DEF TaskOk, RowOk, Plans!Current
  <2>3. Due(r) => t \in beside \/ t \in fresh'
    BY <1>9 DEF Due, Testing
  <2> QED
    BY <1>1, <1>5, <1>10, <2>1, <2>2, <2>3, OneStepInMemory DEF Plans!db
<1> QED
  BY <1>11, <1>12

\* An answered task is gone from memory.
LEMMA RespondKeeps == ASSUME Plans!AgentsAssumption, PlanInv, NEW t \in Task, Plans!Respond(t) PROVE PlanInv'
<1> DEFINE a == IF task[t].at = "reply" THEN "ok" ELSE "error"
<1>1. /\ Plans!Live(t) /\ UNCHANGED <<planStatus, planRows, planFaults, Plans!rest>>
      /\ answer' = [answer EXCEPT ![t] = a] /\ task' = [task EXCEPT ![t] = Plans!Idle]
  BY DEF Plans!Respond, Plans!Live, Plans!Set
<1>2. MaxAttempts \in Nat /\ MaxCalls \in Nat
  BY DEF Plans!AgentsAssumption
<1>3. Plans!Idle \in Record /\ Plans!Idle.at = "idle"
  BY <1>2, EmptySeq DEF Plans!Idle, Record, Plans!Places
<1> HIDE DEF Plans!Idle
<1>4. TaskOk(Plans!Idle) /\ RowOk(Plans!Idle.at, planStatus[t], a)
  BY <1>3 DEF TaskOk, RowOk
<1>5. Shapes' /\ beside' = beside /\ planStatus' = [planStatus EXCEPT ![t] = planStatus[t]]
  BY <1>1, <1>3 DEF PlanInv, Shapes, Plans!rest
<1> HIDE DEF a
<1> QED
  BY <1>1, <1>3, <1>4, <1>5, OneMoves

\* After a crash no task is live.
LEMMA PlanCrashKeeps == ASSUME Plans!AgentsAssumption, PlanInv, Plans!Crash PROVE PlanInv'
<1>1. MaxAttempts \in Nat /\ MaxCalls \in Nat /\ MaxFaults \in Nat
  BY DEF Plans!AgentsAssumption
<1>2. Plans!Idle \in Record /\ Plans!Idle.at = "idle"
  BY <1>1, EmptySeq DEF Plans!Idle, Record, Plans!Places
<1> HIDE DEF Plans!Idle
<1>3. TaskOk(Plans!Idle)
  BY <1>2 DEF TaskOk
<1>4. Shapes'
  BY <1>1, <1>2 DEF Plans!Crash, Plans!Fault, PlanInv, Shapes, Plans!rest
<1>5. \A t \in Task : TaskOk(task[t])' /\ task'[t].at = "idle"
  BY <1>2, <1>3 DEF Plans!Crash, PlanInv, Loops, Plans!Live
<1>6. \A t \in Task : RowOk("idle", planStatus[t], answer'[t])
  <2> SUFFICES ASSUME NEW t \in Task PROVE RowOk("idle", planStatus[t], answer'[t])
    OBVIOUS
  <2>1. CASE Plans!Live(t)
    <3>1. answer'[t] = "lost"
      BY <2>1 DEF Plans!Crash
    <3> QED
      BY <3>1 DEF RowOk
  <2>2. CASE ~Plans!Live(t)
    <3>1. answer'[t] = answer[t] /\ RowOk("idle", planStatus[t], answer[t])
      BY <2>2 DEF Plans!Crash, Plans!Live, PlanInv, Rows
    <3> QED
      BY <3>1
  <2> QED
    BY <2>1, <2>2
<1>7. Rows'
  BY <1>5, <1>6 DEF Plans!Crash, Rows
<1> QED
  BY <1>4, <1>5, <1>7 DEF PlanInv, Loops, Overlaps, Tests, Plans!Live

\* Tools called beside the tasks spoil the tests only of tasks that count as overlapped.
LEMMA ExecuteToolsKeeps == ASSUME Plans!AgentsAssumption, PlanInv, Plans!ExecuteTools PROVE PlanInv'
<1>1. PICK o \in UNION {Plans!Handler[tool] : tool \in Plans!Tool} : Plans!Ran(o)
  BY DEF Plans!ExecuteTools
<1>2. o.good \in BOOLEAN
  <2>1. PICK tool \in Plans!Tool : o \in Plans!Handler[tool]
    BY <1>1
  <2> QED
    BY <2>1, OutcomeIs
<1>3. beside' = beside \cup {t \in Task : Plans!Live(t)} /\ UNCHANGED <<task, planStatus, planRows, answer>>
  BY DEF Plans!ExecuteTools, Plans!db
<1>4. Shapes'
  BY <1>1, <1>2, <1>3 DEF Plans!AgentsAssumption, Plans!Ran, Plans!Fault, PlanInv, Shapes
<1>5. \A t \in Task : Plans!Live(t)' => t \in beside'
  BY <1>3 DEF Plans!Live
<1> QED
  BY <1>3, <1>4, <1>5 DEF PlanInv, Loops, Rows, Overlaps, Tests

\* Every step keeps the invariant.
LEMMA PlanInvNext ==
    ASSUME Plans!AgentsAssumption
    PROVE  PlanInv /\ [Plans!Next]_Plans!vars => PlanInv'
<1> SUFFICES ASSUME PlanInv, [Plans!Next]_Plans!vars PROVE PlanInv'
  OBVIOUS
<1>1. CASE UNCHANGED Plans!vars
  BY <1>1 DEF Plans!vars, PlanInv, Shapes, Loops, Rows, Overlaps, Tests, Plans!Live
<1>2. CASE Plans!Crash
  BY <1>2, PlanCrashKeeps
<1>3. CASE Plans!ExecuteTools
  BY <1>3, ExecuteToolsKeeps
<1>4. ASSUME NEW t \in Task, Plans!Execute(t) PROVE PlanInv'
  BY <1>4, ExecuteKeeps
<1>5. ASSUME NEW t \in Task, Plans!Progress(t) PROVE PlanInv'
  BY <1>5, InsertPlanKeeps, SaveKeeps, ResearchKeeps, OtherAgentKeeps, CoderKeeps, TesterKeeps, ApproveKeeps,
     RejectKeeps, RunToolKeeps, RewindKeeps, FailPlanKeeps, CompleteKeeps, RespondKeeps DEF Plans!Progress
<1> QED
  BY <1>1, <1>2, <1>3, <1>4, <1>5 DEF Plans!Next

\* The invariant holds in every behaviour.
LEMMA PlanInductive ==
    ASSUME Plans!AgentsAssumption
    PROVE  Plans!Spec => []PlanInv
<1>1. Plans!Init => PlanInv
  BY PlanInvInit
<1>2. PlanInv /\ [Plans!Next]_Plans!vars => PlanInv'
  BY PlanInvNext
<1> QED
  BY <1>1, <1>2, PTL DEF Plans!Spec

-----------------------------------------------------------------------------
\* The invariant is stronger than the type invariant.
LEMMA PlanInvIsTyped == PlanInv => Plans!TypeOK
BY DEF PlanInv, Shapes, Loops, TaskOk, AtStep, Plans!TypeOK, Record

\* A complete task has run its steps in order, and tested what it leaves.
LEMMA PlanInvIsRun ==
    ASSUME Plans!AgentsAssumption
    PROVE  PlanInv => Plans!PlanIsRun
<1> SUFFICES ASSUME PlanInv PROVE Plans!PlanIsRun
  OBVIOUS
<1>1. \A t \in Task : Plans!Complete(t) =>
          /\ task[t] \in Record /\ Behind(task[t], task[t].idx) /\ Plans!Live(t)
          /\ \A i \in DOMAIN task[t].steps : i < task[t].idx
  <2> SUFFICES ASSUME NEW t \in Task, Plans!Complete(t)
               PROVE  /\ task[t] \in Record /\ Behind(task[t], task[t].idx) /\ Plans!Live(t)
                      /\ \A i \in DOMAIN task[t].steps : i < task[t].idx
    OBVIOUS
  <2>1. task[t] \in Record /\ Ready(task[t]) /\ task[t].idx > Len(task[t].steps) /\ Plans!Live(t)
    BY DEF Plans!Complete, PlanInv, Loops, TaskOk, Plans!Live
  <2>2. task[t].idx \in Nat /\ DOMAIN task[t].steps = 1 .. Len(task[t].steps) /\ Len(task[t].steps) \in Nat
    BY <2>1, LenProperties DEF Record
  <2> QED
    BY <2>1, <2>2 DEF Ready
<1>2. Plans!StepsInOrder
  BY <1>1 DEF Plans!StepsInOrder, Behind
<1>3. Plans!TestsSeeResult
  <2> SUFFICES ASSUME NEW t \in Task, Plans!Complete(t), t \notin beside,
                      NEW i \in DOMAIN task[t].steps, task[t].steps[i].agent = "Tester",
                      \A j \in DOMAIN task[t].steps : task[t].steps[j].agent = "Coder" => j < i
               PROVE  t \in fresh
    BY DEF Plans!TestsSeeResult
  <2>1. Tested(task[t]) /\ Plans!Live(t)
    BY <1>1 DEF Tested
  <2> QED
    BY <2>1, Given
<1> QED
  BY <1>2, <1>3 DEF Plans!PlanIsRun

\* Memory, rows and counters keep their shape (orchestrator.ts:60-184).
THEOREM PlanTypes ==
    ASSUME Plans!AgentsAssumption
    PROVE  Plans!Spec => []Plans!TypeOK
<1>1. Plans!Spec => []PlanInv
  BY PlanInductive
<1> QED
  BY <1>1, PlanInvIsTyped, PTL

\* Whatever the plans, the rejections and the overlaps, a task that ran to the
\* end of its plan has run every step, each after the one before it, and, when
\* no other overlapped it, tested the workspace that it leaves
\* (orchestrator.ts:118-159, 304-323).
THEOREM PlansAreRun ==
    ASSUME Plans!AgentsAssumption
    PROVE  Plans!Spec => []Plans!PlanIsRun
<1>1. Plans!Spec => []PlanInv
  BY PlanInductive
<1>2. PlanInv => Plans!PlanIsRun
  BY PlanInvIsRun
<1> QED
  BY <1>1, <1>2, PTL
-----------------------------------------------------------------------------
(* The rows and the clients live as PlanLife says *)

\* A statement on a row that is not there yet records it, one on a row that
\* runs leaves it running or concludes it.
LEMMA StatementIsLife ==
    ASSUME Plans!AgentsAssumption, PlanInv, NEW t \in Task, Plans!Live(t), answer' = answer,
           NEW s \in {"running", "completed", "failed"},
           planStatus[t] = "running" \/ (planStatus[t] = "none" /\ s = "running"),
           Plans!UpdatePlan(t, s) \/ UNCHANGED <<planStatus, planRows>>
    PROVE  [Life!Next]_(Life!vars)
<1>1. answer[t] = "waiting" /\ planStatus \in [Task -> {"none", "running", "completed", "failed"}]
  BY Given DEF PlanInv, Shapes
<1>2. CASE UNCHANGED <<planStatus, planRows>>
  BY <1>2 DEF Life!vars
<1>3. CASE Plans!UpdatePlan(t, s)
  <2>1. planStatus' = [planStatus EXCEPT ![t] = s]
    BY <1>3 DEF Plans!UpdatePlan
  <2>2. CASE planStatus[t] = "none" /\ s = "running"
    BY <1>1, <2>1, <2>2 DEF Life!Next, Life!Record
  <2>3. CASE planStatus[t] = "running" /\ s = "running"
    <3>1. planStatus' = planStatus
      BY <1>1, <2>1, <2>3
    <3> QED
      BY <3>1 DEF Life!vars
  <2>4. CASE planStatus[t] = "running" /\ s # "running"
    <3>1. Life!Conclude(t, s) /\ s \in {"completed", "failed"}
      BY <1>1, <2>1, <2>4 DEF Life!Conclude
    <3> QED
      BY <3>1 DEF Life!Next
  <2> QED
    BY <2>2, <2>3, <2>4
<1> QED
  BY <1>2, <1>3

\* Each step of a task is one of PlanLife's, or none.
LEMMA ProgressIsLife ==
    ASSUME Plans!AgentsAssumption, PlanInv, NEW t \in Task, Plans!Progress(t)
    PROVE  [Life!Next]_(Life!vars)
<1>1. ASSUME UNCHANGED <<planStatus, answer>> PROVE [Life!Next]_(Life!vars)
  BY <1>1 DEF Life!vars
<1>2. CASE Plans!Research(t) \/ Plans!OtherAgent(t) \/ Plans!Coder(t) \/ Plans!Tester(t) \/ Plans!Approve(t) \/ Plans!Reject(t) \/ Plans!RunTool(t)
  <2>1. UNCHANGED Plans!db
    BY <1>2 DEF Plans!Research, Plans!OtherAgent, Plans!Coder, Plans!Tester, Plans!Approve, Plans!Reject, Plans!RunTool
  <2> QED
    BY <1>1, <2>1 DEF Plans!db
<1>3. CASE Plans!InsertPlan(t)
  <2>1. Plans!Live(t) /\ answer' = answer /\ task[t].at = "insert"
    BY <1>3 DEF Plans!InsertPlan, Plans!Live
  <2>2. planStatus[t] = "none" /\ (Plans!UpdatePlan(t, "running") \/ UNCHANGED <<planStatus, planRows>>)
    BY <1>3, <2>1, Given DEF Plans!InsertPlan, RowOk
  <2> QED
    BY <2>1, <2>2, StatementIsLife
<1>4. CASE Plans!SavePlan(t) \/ Plans!Rewind(t)
  <2>1. Plans!Live(t) /\ answer' = answer /\ task[t].at \in {"save", "rewind"}
    BY <1>4 DEF Plans!SavePlan, Plans!Rewind, Plans!Live
  <2>2. planStatus[t] = "running" /\ (Plans!UpdatePlan(t, "running") \/ UNCHANGED <<planStatus, planRows>>)
    BY <1>4, <2>1, Given DEF Plans!SavePlan, Plans!Rewind, Plans!Statement, RowOk
  <2> QED
    BY <2>1, <2>2, StatementIsLife
<1>5. CASE Plans!FailPlan(t)
  <2>1. Plans!Live(t) /\ answer' = answer /\ task[t].at = "fail"
    BY <1>5 DEF Plans!FailPlan, Plans!Live
  <2>2. planStatus[t] = "running" /\ (Plans!UpdatePlan(t, "failed") \/ UNCHANGED <<planStatus, planRows>>)
    BY <1>5, <2>1, Given DEF Plans!FailPlan, Plans!Statement, RowOk
  <2> QED
    BY <2>1, <2>2, StatementIsLife
<1>6. CASE Plans!CompletePlan(t)
  <2>1. Plans!Live(t) /\ answer' = answer /\ task[t].at = "complete"
    BY <1>6 DEF Plans!CompletePlan, Plans!Live
  <2>2. planStatus[t] = "running" /\ (Plans!UpdatePlan(t, "completed") \/ UNCHANGED <<planStatus, planRows>>)
    BY <1>6, <2>1, Given DEF Plans!CompletePlan, Plans!Statement, RowOk
  <2> QED
    BY <2>1, <2>2, StatementIsLife
<1>7. CASE Plans!Respond(t)
  <2> DEFINE a == IF task[t].at = "reply" THEN "ok" ELSE "error"
  <2>1. Plans!Live(t) /\ planStatus' = planStatus /\ answer' = [answer EXCEPT ![t] = a]
    BY <1>7 DEF Plans!Respond, Plans!Live
  <2>2. answer[t] = "waiting" /\ (a = "ok" => planStatus[t] = "completed") /\ a \in {"ok", "error"}
    BY <2>1, Given DEF RowOk
  <2> HIDE DEF a
  <2>3. Life!Reply(t, a)
    BY <2>1, <2>2 DEF Life!Reply
  <2> QED
    BY <2>2, <2>3 DEF Life!Next
<1> QED
  BY <1>2, <1>3, <1>4, <1>5, <1>6, <1>7 DEF Plans!Progress

\* So is every step of the system.
LEMMA NextIsLife ==
    ASSUME Plans!AgentsAssumption
    PROVE  PlanInv /\ [Plans!Next]_Plans!vars => [Life!Next]_(Life!vars)
<1> SUFFICES ASSUME PlanInv, [Plans!Next]_Plans!vars PROVE [Life!Next]_(Life!vars)
  OBVIOUS
<1>1. CASE UNCHANGED Plans!vars \/ Plans!ExecuteTools
  BY <1>1 DEF Plans!vars, Plans!ExecuteTools, Plans!db, Life!vars
<1>2. CASE Plans!Crash
  <2> DEFINE those == {t \in Task : Plans!Live(t)}
  <2>1. \A t \in those : answer[t] = "waiting"
    BY Given
  <2>2. answer' = [t \in Task |-> IF t \in those THEN "lost" ELSE answer[t]] /\ planStatus' = planStatus
    BY <1>2 DEF Plans!Crash
  <2>3. Life!Lose(those) /\ those \in SUBSET Task
    BY <2>1, <2>2 DEF Life!Lose
  <2> QED
    BY <2>3 DEF Life!Next
<1>3. ASSUME NEW t \in Task, Plans!Execute(t) PROVE [Life!Next]_(Life!vars)
  <2>1. Life!Ask(t)
    BY <1>3 DEF Plans!Execute, Life!Ask
  <2> QED
    BY <2>1 DEF Life!Next
<1>4. ASSUME NEW t \in Task, Plans!Progress(t) PROVE [Life!Next]_(Life!vars)
  BY <1>4, ProgressIsLife
<1> QED
  BY <1>1, <1>2, <1>3, <1>4 DEF Plans!Next

\* The orchestrator keeps to the life of a row: recorded once, concluded once
\* and before the answer, success answered only of a completed row, and no row
\* written after its answer (orchestrator.ts:64-72, 165-184,
\* orchestrator-routes.ts:32-48).
THEOREM PlanLifeKept ==
    ASSUME Plans!AgentsAssumption
    PROVE  Plans!Spec => Life!Safe
<1>1. Plans!Init => Life!Init
  BY DEF Plans!Init, Life!Init
<1>2. Plans!Spec => []PlanInv
  BY PlanInductive
<1>3. PlanInv /\ [Plans!Next]_Plans!vars => [Life!Next]_(Life!vars)
  BY NextIsLife
<1> QED
  BY <1>1, <1>2, <1>3, PTL DEF Plans!Spec, Life!Safe
===============================================================================
