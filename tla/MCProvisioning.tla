---------------------------- MODULE MCProvisioning ----------------------------
(* Two users whose addresses give the same instance name, one other name that   *)
(* the administrator may choose, two requests at a time.                        *)
EXTENDS Provisioning, TLC

CONSTANTS u1, u2, n1, n2, p1, p2

Users == {u1, u2}
OneUser == {u1}
Names == {n1, n2}
NameOfUsers == [u \in {u1, u2} |-> n1]
NameOfOne == [u \in {u1} |-> n1]
TwoProcs == {p1, p2}
OneProc == {p1}
AppSets == {{"n8n", "ai"}, {"n8n"}, {"ai"}, {}}
BothApps == {{"n8n", "ai"}}
AiOnly == {{"ai"}}

Symmetry == Permutations({u1, u2}) \cup Permutations({p1, p2})
=============================================================================
