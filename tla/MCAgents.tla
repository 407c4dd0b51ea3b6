-------------------------------- MODULE MCAgents --------------------------------
(* Agents for TLC: besides the default plan one with tests before the review, *)
(* one without Coder and with an unknown agent, and one without steps.        *)
EXTENDS Agents

MCPlans == {<<>>, <<"Coder", "Tester", "Reviewer">>, <<"Reviewer", "other">>}
================================================================================
