------------------------------ MODULE MCAgentTurn ------------------------------
(***************************************************************************)
(* Instances of AgentTurn in which agents may be exchanged: no definition  *)
(* and no invariant of it tells one agent from another.                    *)
(***************************************************************************)
EXTENDS AgentTurn, TLC

Exchanges == Permutations(Agents)
===============================================================================
