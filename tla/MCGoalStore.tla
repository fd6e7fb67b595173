----------------------------- MODULE MCGoalStore -----------------------------
(* Small instances of GoalStore for TLC.                                      *)
EXTENDS GoalStore, TLC

OpSymmetry == Permutations(Ops)
===============================================================================
