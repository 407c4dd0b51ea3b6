------------------------------- MODULE MCHosting --------------------------------
(* Hosting for TLC: two users, each with an instance. *)
EXTENDS Hosting, TLC
CONSTANTS u1, u2, i1, i2
MCOwner == (i1 :> u1) @@ (i2 :> u2)
MCScaled == {MB(1024), [n |-> 2, unit |-> "g"]}
MCPlanOf == (u1 :> "BUSINESS") @@ (u2 :> "ENTERPRISE")
================================================================================
