---------------------------- MODULE MCTurnKernel ----------------------------
(* Small instances of TurnKernel for TLC.                                     *)
EXTENDS TurnKernel, TLC

CONSTANTS a, p

\* A call, and a ParallelToolCall that makes it.
MCTool == (a :> "HAControl") @@ (p :> Parallel)
MCSpecs == (a :> {}) @@ (p :> {a})
=============================================================================
