----------------------------- MODULE MCLearning -----------------------------
(* Small instances of Learning for TLC.                                       *)
EXTENDS Learning, TLC

CONSTANTS early, late

\* Two habits at different hours of the day.
TwoHours == (early :> "07") @@ (late :> "08")
Symmetry == Permutations(Calls)
=============================================================================
