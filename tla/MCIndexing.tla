------------------------------- MODULE MCIndexing -------------------------------
(* Indexing for TLC: a content of two chunks and one of a single chunk. *)
EXTENDS Indexing, TLC

CONSTANTS a, b

MCContent == {a, b}
MCWords == (a :> 4) @@ (b :> 2)
MCSymmetry == Permutations(Proc)
================================================================================
