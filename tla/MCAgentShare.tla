--------------------------- MODULE MCAgentShare ---------------------------
(* AgentShare for TLC: two agents, a pane the user has, and one they open. *)
EXTENDS AgentShare, TLC

Alike == Permutations(Agents)   \* no definition tells one agent from another
===========================================================================
