--------------------------------- MODULE Prompt ---------------------------------
(***************************************************************************)
(* Searching and building a prompt (tenant-api: services/search/           *)
(* vector-search.ts, services/memory/retriever.ts, services/context/       *)
(* context-builder.ts and token-budget.ts, api/routes/search.ts, memory.ts *)
(* and context.ts), for one user and one conversation.                     *)
(*                                                                         *)
(* A search takes the nearest code chunks and memories, joins chunks that  *)
(* follow each other in a file and ranks what it has.  A prompt is built   *)
(* from rules, memories, code, the conversation, the open file and the     *)
(* question, each cut to a budget of tokens.  A text is a sequence of      *)
(* units of four characters, which is what the cut takes one token to be;  *)
(* a unit may cost more.  Nearness and keyword hits are given.             *)
(***************************************************************************)
EXTENDS Integers, Sequences, FiniteSets, SequencesExt

CONSTANTS
    Request,
    Chunks,         \* rows of file_chunks, [id, path, no, words, near, hits]
    Facts,          \* rows of memories, [id, words, near, hits]
    TopCode, TopFacts,  \* 20 and 5
    Cap,            \* words of a joined passage (2000)
    Budget,         \* tokens of system, rules, memories, code, user and tools
    Window,         \* tokens of the model (128000)
    FileCap,        \* tokens of the open file (4000)
    Keep,           \* messages a summary leaves alone (20)
    Input,          \* what a build is asked with, [rules, file, user : texts]
    Says,           \* messages somebody may write, as texts
    MaxMessages,    \* bound: messages of the conversation
    MaxFaults       \* bound: calls that fail

Sizes == {"system", "rules", "memories", "code", "user", "tools"}
ASSUME PromptAssumption ==
    /\ Budget \in [Sizes -> Nat] /\ Window \in Nat /\ FileCap = Budget.tools
    /\ TopCode \in Nat /\ TopFacts \in Nat /\ Cap \in Nat /\ Keep \in Nat
    /\ MaxMessages \in Nat /\ MaxFaults \in Nat

VARIABLES
    chunks, facts,  \* the two tables
    msgs,           \* the conversation
    summary,        \* up to which message its latest summary goes, 0: none
    req,            \* the requests
    faults

vars == <<chunks, facts, msgs, summary, req, faults>>
tables == <<chunks, facts>>

NoPrompt == [rules |-> <<>>, memories |-> <<>>, code |-> <<>>, history |-> <<>>, file |-> <<>>, user |-> <<>>]
New == [at |-> "new", kind |-> "none", input |-> NoPrompt, found |-> <<>>, results |-> <<>>, memories |-> <<>>,
        read |-> 0, covered |-> 0, history |-> <<>>, prompt |-> NoPrompt]

Init ==
    /\ chunks \in SUBSET Chunks /\ facts \in SUBSET Facts
    /\ msgs = <<>> /\ summary = 0
    /\ req = [r \in Request |-> New]
    /\ faults = 0

Fault == faults < MaxFaults /\ faults' = faults + 1
Set(r, q) == req' = [req EXCEPT ![r] = q]

-----------------------------------------------------------------------------
(* VectorSearchService.search *)

\* ORDER BY embedding <=> $1 LIMIT k
Nearest(rows, k) ==
    LET s == SetToSortSeq(rows, LAMBDA a, b : a.near > b.near)
    IN SubSeq(s, 1, IF Len(s) < k THEN Len(s) ELSE k)

\* Array.prototype.sort, which is stable, by the keys of the elements.
Stable(s, key) ==
    LET order == SetToSortSeq(DOMAIN s, LAMBDA i, j : key[i] < key[j] \/ (key[i] = key[j] /\ i < j))
    IN [i \in DOMAIN s |-> s[order[i]]]

\* Similarity for seven parts, the share of keywords for three.
Score(row) == 7 * row.near + 3 * row.hits
Alone(row, no) == [rows |-> <<row>>, last |-> no, words |-> row.words, score |-> Score(row)]

\* Mutant: the joined passage keeps its first chunk's number.
BugJoin(ps, c) ==
    LET p == ps[Len(ps)] IN
    IF ps # <<>> /\ c.no = p.last + 1 /\ p.words + c.words < Cap
    THEN [ps EXCEPT ![Len(ps)] = [p EXCEPT !.rows = Append(@, c), !.words = @ + c.words + 1,
                                           !.score = IF Score(c) > @ THEN Score(c) ELSE @]]
    ELSE Append(ps, Alone(c, c.no))

\* A chunk joins the passage before it when it follows it in the file and the
\* two, with the dots between them, are not too long.
Join(ps, c) ==
    LET p == ps[Len(ps)] IN
    IF ps # <<>> /\ c.no = p.last + 1 /\ p.words + c.words < Cap
    THEN [ps EXCEPT ![Len(ps)] = [rows |-> Append(p.rows, c), last |-> c.no, words |-> p.words + c.words + 1,
                                  score |-> IF Score(c) > p.score THEN Score(c) ELSE p.score]]
    ELSE Append(ps, Alone(c, c.no))

PassagesOf(found, path) ==
    LET s == SelectSeq(found, LAMBDA c : c.path = path)
    IN FoldLeft(Join, <<>>, Stable(s, [i \in DOMAIN s |-> s[i].no]))

\* The files in the order in which they turn up.
Paths(found) == FoldLeft(LAMBDA ps, c : IF Contains(ps, c.path) THEN ps ELSE Append(ps, c.path), <<>>, found)

MergeAdjacentChunks(found) ==
    LET paths == Paths(found)
    IN FlattenSeq([i \in DOMAIN paths |-> PassagesOf(found, paths[i])])

Ranked(found, memories) ==
    LET s == MergeAdjacentChunks(found) \o [i \in DOMAIN memories |-> Alone(memories[i], 0)]
    IN Stable(s, [i \in DOMAIN s |-> -s[i].score])

WantsCode == {"search", "code", "build"}
WantsFacts == {"search", "memory"}

-----------------------------------------------------------------------------
(* TokenBudgetManager *)

\* countExactTokens
Tokens(text) == FoldLeft(LAMBDA n, u : n + u.cost, 0, text)
HistoryBudget ==
    LET reserved == Budget.system + Budget.rules + Budget.memories + Budget.code + Budget.user + Budget.tools
    IN IF Window > reserved THEN Window - reserved ELSE 0

Shorter(text, n) == IF Len(text) < n THEN Len(text) ELSE n
TruncateFromEnd(text, max) ==
    IF Tokens(text) <= max THEN text ELSE SubSeq(text, 1, Shorter(text, max))
TruncateFromStart(text, max) ==
    IF Tokens(text) <= max THEN text ELSE SubSeq(text, Len(text) - Shorter(text, max) + 1, Len(text))

-----------------------------------------------------------------------------
(* Requests *)

\* POST /search, /search/code-only, /search/memory-only and /context/build.
Ask(r) ==
    /\ req[r].at = "new"
    /\ \E kind \in WantsCode \cup WantsFacts :
        IF kind = "build"
        THEN \E input \in Input : Set(r, [New EXCEPT !.at = "memories", !.kind = kind, !.input = input])
        ELSE Set(r, [New EXCEPT !.at = "search", !.kind = kind])
    /\ UNCHANGED <<tables, msgs, summary, faults>>

\* The store's search: by distance, of one user's memories.
SearchVector(n) == Nearest(facts, n)

\* MemoryRetriever.retrieve has no memories when it fails; that it looks for
\* keywords when the user has none changes nothing.
Retrieve(r) ==
    /\ req[r].at = "memories"
    /\ \/ Set(r, [req[r] EXCEPT !.at = "search", !.memories = SearchVector(TopFacts)]) /\ UNCHANGED faults
       \/ Fault /\ Set(r, [req[r] EXCEPT !.at = "search"])
    /\ UNCHANGED <<tables, msgs, summary>>

\* Chunks of some file types, or of all.  A search that fails is a 500; a build
\* goes on without code.
Search(r) ==
    /\ req[r].at = "search"
    /\ LET q == req[r]
           next == IF q.kind = "build" THEN "history" ELSE "done"
       IN \/ /\ \E paths \in IF q.kind \in {"search", "code"} THEN SUBSET {c.path : c \in Chunks}
                             ELSE {{c.path : c \in Chunks}} :
                LET code == IF q.kind \in WantsCode THEN Nearest({c \in chunks : c.path \in paths}, TopCode) ELSE <<>>
                    memories == IF q.kind \in WantsFacts THEN Nearest(facts, TopFacts) ELSE <<>>
                IN Set(r, [q EXCEPT !.at = next, !.found = code \o memories, !.results = Ranked(code, memories)])
             /\ UNCHANGED faults
          \/ Fault /\ Set(r, [q EXCEPT !.at = next])
    /\ UNCHANGED <<tables, msgs, summary>>

Text(i, n) == [k \in 1 .. n |-> [of |-> i, cost |-> 1]]
MessagesText(first, last) ==
    FlattenSeq([i \in 1 .. last - first + 1 |->
        LET m == msgs[first + i - 1] IN [k \in DOMAIN m |-> [of |-> first + i - 1, cost |-> m[k].cost]]])
SummaryText(to) == IF to = 0 THEN <<>> ELSE Text(0, 1)

\* More than 60 % of the budget, and more messages than are kept.
Summarizes(n) == n > Keep /\ 10 * Tokens(MessagesText(1, n)) > 6 * HistoryBudget

\* What fails from here on to the INSERT is logged: the prompt has no history.
WithoutHistory(r) == Fault /\ Set(r, [req[r] EXCEPT !.at = "assemble", !.read = 0])

\* A build may be for no conversation.
ReadHistory(r) ==
    /\ req[r].at = "history"
    /\ \/ Set(r, [req[r] EXCEPT !.at = IF Summarizes(Len(msgs)) THEN "insert" ELSE "latest", !.read = Len(msgs)])
          /\ UNCHANGED faults
       \/ Set(r, [req[r] EXCEPT !.at = "assemble"]) /\ UNCHANGED faults
       \/ WithoutHistory(r)
    /\ UNCHANGED <<tables, msgs, summary>>

\* Mutant: an off-by-one in the slice that is kept.
BugInsertSummary(r) ==
    /\ req[r].at = "insert"
    /\ LET n == req[r].read IN
       /\ summary' = n - Keep
       /\ Set(r, [req[r] EXCEPT !.at = "assemble", !.covered = n - Keep,
                                !.history = SummaryText(n - Keep) \o MessagesText(n - Keep + 2, n)])
    /\ UNCHANGED <<tables, msgs, faults>>

\* The model is told the older messages and its answer inserted.
InsertSummary(r) ==
    /\ req[r].at = "insert"
    /\ LET n == req[r].read IN
       \/ /\ summary' = n - Keep
          /\ Set(r, [req[r] EXCEPT !.at = "assemble", !.covered = n - Keep,
                                   !.history = SummaryText(n - Keep) \o MessagesText(n - Keep + 1, n)])
          /\ UNCHANGED faults
       \/ WithoutHistory(r) /\ summary' \in {summary, n - Keep}
    /\ UNCHANGED <<tables, msgs>>

\* With the latest summary, if there is one, before all messages.
LatestSummary(r) ==
    /\ req[r].at = "latest"
    /\ \/ /\ Set(r, [req[r] EXCEPT !.at = "assemble", !.covered = summary,
                                   !.history = SummaryText(summary) \o MessagesText(1, req[r].read)])
          /\ UNCHANGED faults
       \/ WithoutHistory(r)
    /\ UNCHANGED <<tables, msgs, summary>>

\* The parts of a prompt, each cut to its budget; the open file has none and
\* takes the cap.
RowsText(rows) == FlattenSeq([i \in DOMAIN rows |-> Text("row", rows[i].words)])
RulesPart(q) == TruncateFromEnd(q.input.rules, Budget.rules)
UserPart(q) == TruncateFromEnd(q.input.user, Budget.user)
MemoriesPart(q) == TruncateFromEnd(RowsText(q.memories), Budget.memories)
CodePart(q) == TruncateFromEnd(RowsText(q.results), Budget.code)
FilePart(q) == TruncateFromEnd(q.input.file, FileCap)
HistoryPart(q) == TruncateFromStart(q.history, HistoryBudget)

Assemble(r) ==
    /\ req[r].at = "assemble"
    /\ LET q == req[r] IN
       Set(r, [q EXCEPT !.at = "done", !.prompt =
          [rules |-> RulesPart(q), memories |-> MemoriesPart(q), code |-> CodePart(q),
           history |-> HistoryPart(q), file |-> FilePart(q), user |-> UserPart(q)]])
    /\ UNCHANGED <<tables, msgs, summary, faults>>

\* A fact taken from what the user said.
SaveFact(f) ==
    /\ f \in Facts \ facts /\ facts' = facts \cup {f}
    /\ UNCHANGED <<chunks, msgs, summary, req, faults>>

\* DELETE /memory/:id
ForgetFact(f) ==
    /\ f \in facts /\ facts' = facts \ {f}
    /\ UNCHANGED <<chunks, msgs, summary, req, faults>>

\* The conversation goes on.
Say ==
    /\ Len(msgs) < MaxMessages
    /\ \E m \in Says : msgs' = Append(msgs, m)
    /\ UNCHANGED <<tables, summary, req, faults>>

Next ==
    \/ \E r \in Request :
        \/ Ask(r) \/ Retrieve(r) \/ Search(r) \/ ReadHistory(r)
        \/ InsertSummary(r) \/ LatestSummary(r) \/ Assemble(r)
    \/ \E f \in Facts : SaveFact(f) \/ ForgetFact(f)
    \/ Say

Spec == Init /\ [][Next]_vars

-----------------------------------------------------------------------------
Rows(ps) == FlattenSeq([i \in DOMAIN ps |-> ps[i].rows])
Times(s, x) == Cardinality({i \in DOMAIN s : s[i] = x})

\* A search loses, repeats and mixes nothing: every row it found is in exactly
\* one result, a passage is chunks of one file in their order without a gap and
\* not too long, and the results are ranked by the best they have.  If no chunk
\* is stored twice, passages that could still be joined are (vector-search.ts:182-240).
PassagesExact == \A r \in Request :
    LET q == req[r]
        ps == q.results
        code == {i \in DOMAIN ps : ps[i].rows[1] \in Chunks}
    IN  /\ \A x \in Chunks \cup Facts : Times(Rows(ps), x) = Times(q.found, x)
        /\ \A i \in code : LET rows == ps[i].rows IN
             /\ \A k \in 1 .. Len(rows) - 1 : rows[k + 1].path = rows[k].path /\ rows[k + 1].no = rows[k].no + 1
             /\ Len(rows) > 1 => ps[i].words <= Cap
        /\ \A i, j \in DOMAIN ps : i < j => ps[i].score >= ps[j].score
        /\ \A i \in DOMAIN ps : /\ \E k \in DOMAIN ps[i].rows : Score(ps[i].rows[k]) = ps[i].score
                                /\ \A k \in DOMAIN ps[i].rows : Score(ps[i].rows[k]) <= ps[i].score
        /\ (\A c, d \in chunks : c.path = d.path /\ c.no = d.no => c = d) =>
             \A i, j \in code :
                LET a == ps[i].rows[Len(ps[i].rows)]
                    b == ps[j].rows[1]
                IN a.path = b.path /\ b.no = a.no + 1 => ps[i].words + b.words + 1 > Cap

Built(r) == req[r].at = "done" /\ req[r].kind = "build"
Total(p) == Budget.system + Tokens(p.rules) + Tokens(p.memories) + Tokens(p.code) + Tokens(p.history)
                + Tokens(p.file) + Tokens(p.user)
\* Nothing costs more than a token for four characters.
Plain(p) == \A part \in DOMAIN p : \A i \in DOMAIN p[part] : p[part][i].cost <= 1

\* The parts fit the window together, although the open file has no budget of
\* its own - it takes what is reserved for tools - if no text is denser than
\* the cut takes it to be (token-budget.ts:21-66, context-builder.ts:194-324).
FitsWindow == \A r \in Request : Built(r) /\ Plain(req[r].prompt) => Total(req[r].prompt) <= Window

\* Nothing of the conversation is left out in the middle: what the prompt does
\* not have word by word is in its summary, or older than all it has, and then
\* the budget is used up (context-builder.ts:199-301).
HistoryWhole == \A r \in Request : Built(r) =>
    LET q == req[r]
        h == q.prompt.history
        has == {h[k].of : k \in DOMAIN h}
        whole == {i \in 1 .. q.read : Cardinality({k \in DOMAIN h : h[k].of = i}) = Len(msgs[i])}
    IN  /\ Len(h) < HistoryBudget =>
                \A i \in 1 .. q.read : i \in whole \/ (0 \in has /\ i <= q.covered)
        /\ \A i, j \in 1 .. q.read : i < j /\ i \in has => j \in whole

\* What the model is given fits and has no holes.
PromptFits == FitsWindow /\ HistoryWhole

\* "(variable max)", "(fixed)" (token-budget.ts:3-11): no part takes more than
\* its budget.
PartsKeepBudgets == \A r \in Request : Built(r) => Tokens(req[r].prompt.history) <= HistoryBudget
================================================================================
