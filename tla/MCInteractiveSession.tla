------------------------ MODULE MCInteractiveSession ------------------------
(* Instances of InteractiveSession for TLC: interchangeable turns.         *)
EXTENDS InteractiveSession, TLC

TurnSymmetry == Permutations(Turns)
=============================================================================
