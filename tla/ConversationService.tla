------------------------ MODULE ConversationService ------------------------
(***************************************************************************)
(* What the dispatcher promises, without lanes, ready lists or counters:   *)
(* the messages of a conversation are answered one at a time in the order  *)
(* they came, at most Slots conversations at once, and none waits for ever.*)
(***************************************************************************)
EXTENDS Naturals, Sequences, FiniteSets

CONSTANTS Msgs, Conversations, ConversationOf, Slots

VARIABLES
    received,   \* each conversation's messages in arrival order
    answered,   \* how many of them are answered
    serving     \* conversations with a turn running

vars == <<received, answered, serving>>

Init ==
    /\ received = [c \in Conversations |-> <<>>]
    /\ answered = [c \in Conversations |-> 0]
    /\ serving = {}

Receive(m) ==
    /\ received' = [received EXCEPT ![ConversationOf[m]] = Append(@, m)]
    /\ UNCHANGED <<answered, serving>>

Begin(c) ==
    /\ c \notin serving
    /\ answered[c] < Len(received[c])
    /\ Cardinality(serving) < Slots
    /\ serving' = serving \cup {c}
    /\ UNCHANGED <<received, answered>>

Answer(c) ==
    /\ c \in serving
    /\ serving' = serving \ {c}
    /\ answered' = [answered EXCEPT ![c] = @ + 1]
    /\ UNCHANGED received

Next ==
    \/ \E m \in Msgs : Receive(m)
    \/ \E c \in Conversations : Begin(c) \/ Answer(c)

(* A conversation waiting for a slot gets one although others compete.     *)
Fairness == \A c \in Conversations : SF_vars(Begin(c)) /\ WF_vars(Answer(c))

SafeSpec == Init /\ [][Next]_vars
Spec == SafeSpec /\ Fairness
=============================================================================
