------------------------------ MODULE MCPlanChange ------------------------------
(* PlanChange for TLC: prices that do not divide by the days of the period. *)
EXTENDS PlanChange, TLC

CONSTANTS starter, pro, enterprise

MCPlan == {starter, pro, enterprise}
MCPrice == [p \in MCPlan |-> CASE p = starter -> 0 [] p = pro -> 100 [] OTHER -> 250]
MCSymmetry == Permutations(Proc)
================================================================================
