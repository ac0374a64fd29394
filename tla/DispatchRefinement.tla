------------------------ MODULE DispatchRefinement -------------------------
(* The lane dispatcher implements ConversationService when no conversation *)
(* is interactive.                                                         *)
EXTENDS Dispatch

CONSTANT Slots   \* a bound no reload raises cfg.MaxWorkers above

(* What the refinement assumes; the service knows no interactive turns.    *)
ServiceAssumption ==
    /\ Steerable = {}
    /\ Slots \in Nat
    /\ \A c \in Caps : c <= Slots

(* A turn counts as begun once it has registered its cancel function.      *)
answeredIn == [k \in Lanes |-> Len(log[k]) - Len(queue[k])]
serving == {k \in Lanes : \E m \in Msgs : LaneOf[m] = k /\ turn[m] = "active"}

Service == INSTANCE ConversationService
           WITH Conversations <- Lanes, ConversationOf <- LaneOf,
                received <- log, answered <- answeredIn

(* Lanes, slots, ready list and chaining serve each conversation in order, *)
(* one turn at a time, within the cap, and starve none.                    *)
ImplementsService == Service!Spec

(* The safety part: every step of the dispatcher receives a request, begins*)
(* or answers the next turn of one conversation, or changes nothing seen.  *)
ImplementsSafely == Service!SafeSpec
=============================================================================
