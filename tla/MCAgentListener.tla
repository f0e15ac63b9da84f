--------------------------- MODULE MCAgentListener ---------------------------
(* An instance of AgentListener for TLC. *)
EXTENDS AgentListener

CONSTANTS a1, a2, a3, a4

FourAgents == {a1, a2, a3, a4}

=============================================================================
