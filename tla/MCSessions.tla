------------------------------- MODULE MCSessions -------------------------------
(* Sessions for TLC. *)
EXTENDS Sessions, TLC

CONSTANTS u1, d1, d2, p1, p2, s1, s2

MCUser == {u1}
MCDevice == {d1, d2}
MCProc == {p1, p2}
MCSecret == {s1, s2}
Symmetry == Permutations(MCDevice) \cup Permutations(MCProc) \cup Permutations(MCSecret)
================================================================================
