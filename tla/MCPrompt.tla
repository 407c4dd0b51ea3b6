-------------------------------- MODULE MCPrompt --------------------------------
(* Prompt for TLC: a file of three chunks, too long to be joined all, the    *)
(* second one stored twice; another file; texts within and over their         *)
(* budgets, one of them twice as dense as a token for four characters.        *)
EXTENDS Prompt

Chunk(id, path, no, words, near, hits) ==
    [id |-> id, path |-> path, no |-> no, words |-> words, near |-> near, hits |-> hits]
MCChunks == {Chunk(1, "a", 0, 1, 3, 0), Chunk(2, "a", 1, 1, 5, 0), Chunk(3, "a", 2, 3, 1, 3),
             Chunk(4, "a", 1, 1, 2, 0), Chunk(5, "b", 1, 1, 4, 0)}
MCFacts == {[id |-> 1, words |-> 1, near |-> 3, hits |-> 0], [id |-> 2, words |-> 2, near |-> 2, hits |-> 3]}
MCBudget == [system |-> 1, rules |-> 1, memories |-> 2, code |-> 3, user |-> 1, tools |-> 1]

Units(n, c) == [k \in 1 .. n |-> [of |-> "input", cost |-> c]]
MCInput == {[rules |-> Units(2, 1), file |-> Units(2, 1), user |-> Units(2, 1)],
            [rules |-> Units(1, 1), file |-> <<>>, user |-> Units(1, 2)]}
MCSays == {Units(1, 1), Units(3, 1), Units(2, 2)}
================================================================================
