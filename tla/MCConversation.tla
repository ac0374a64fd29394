--------------------------- MODULE MCConversation ---------------------------
(* Instances of Conversation for TLC: turns of the telegram stream and of  *)
(* one web conversation.                                                   *)
EXTENDS Conversation

CONSTANTS tg, a1, a2, b1, b2

StreamAndWeb == [t \in Turns |-> IF t \in {a1, a2} THEN tg ELSE 1]
=============================================================================
