----------------------------- MODULE MCProjects -----------------------------
(* Instances of Projects for TLC: interchangeable turns.                   *)
EXTENDS Projects, TLC

TurnSymmetry == Permutations(Turns)
=============================================================================
