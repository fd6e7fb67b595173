---------------------------- MODULE MCAgentChain ----------------------------
(* Small instances of AgentChain for TLC.                                     *)
EXTENDS AgentChain

CONSTANTS a1, a2

TwoAgents == <<a1, a2>>
=============================================================================
