----------------------------- MODULE MCHandover -----------------------------
(* Instances of Handover for TLC: an update and a message after it.        *)
EXTENDS Handover

TwoMessages == 1..2
UpdateThenText == [m \in TwoMessages |-> IF m = 1 THEN "update" ELSE "text"]
FourProcesses == 1..4
=============================================================================
