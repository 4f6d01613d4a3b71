----------------------------- MODULE MCAgentTurn -----------------------------
(* Instances of AgentTurn.                                                  *)
EXTENDS AgentTurn, TLC

\* All subagents are of one type, so that their Starting runs can be confused.
MCTypeOf == [a \in Subagents |-> CHOOSE t \in Types : TRUE]

MCSymmetry == Permutations(Subagents)
=============================================================================
