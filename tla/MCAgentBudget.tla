---------------------------- MODULE MCAgentBudget ----------------------------
(* Runs of AgentBudget with small budgets. *)
EXTENDS AgentBudget, TLC

MCAmounts == 0..3
MCBudgets == {3, 4}
Symmetric == Permutations(Calls) \cup Permutations(Names)
=============================================================================
