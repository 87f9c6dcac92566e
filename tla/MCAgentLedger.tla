---------------------------- MODULE MCAgentLedger ----------------------------
(* Three agents with at most two mishaps over two turns.                     *)
EXTENDS AgentLedger

CONSTANTS a1, a2, a3

MCAgent == {a1, a2, a3}
MCUnnamed(a) == <<a>>
==============================================================================
