----------------------- MODULE MCDispatchRefinement ------------------------
(* An instance of DispatchRefinement for TLC.                              *)
EXTENDS DispatchRefinement

ASSUME ServiceAssumption

CONSTANTS tg, w1, w2, a1, a2, b1, c1

LanesOfFour == [m \in {a1, a2, b1, c1} |->
                 IF m \in {a1, a2} THEN tg ELSE IF m = b1 THEN w1 ELSE w2]
=============================================================================
