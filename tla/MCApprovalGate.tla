---------------------------- MODULE MCApprovalGate ----------------------------
(* Small instances of ApprovalGate for TLC.                                   *)
EXTENDS ApprovalGate, TLC

CONSTANTS u1, u2, t0, t2, t3

\* An owner and a member; a reversible, a system-changing and a destructive tool.
MCRisk == (t0 :> 1) @@ (t2 :> 2) @@ (t3 :> 3)

Symmetry == Permutations(Calls) \cup Permutations(Threads) \cup Permutations(Ids)
===============================================================================
