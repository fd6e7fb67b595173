------------------------------ MODULE MCGoalLoop ------------------------------
(* Small instances of GoalLoop for TLC.                                       *)
EXTENDS GoalLoop, TLC

RunSymmetry == Permutations(Runs)
Symmetry == Permutations(Runs) \cup Permutations(Ids)
===============================================================================
