----------------------------- MODULE MCDispatch -----------------------------
(* Instances of Dispatch for TLC: an interactive conversation with three   *)
(* messages and another that competes with it for the only slot.           *)
EXTENDS Dispatch

CONSTANTS tg, w1, a1, a2, a3, b1

LanesOfFour == [m \in {a1, a2, a3, b1} |-> IF m = b1 THEN tg ELSE w1]
=============================================================================
