----------------------------- MODULE MCChannels -----------------------------
(* Instances of Channels for TLC: a turn of the telegram stream and one of *)
(* a web topic.                                                            *)
EXTENDS Channels, TLC

CONSTANTS t1, t2, tg, w1

StreamAndTopic == (t1 :> tg) @@ (t2 :> w1)
TwoConns == 1..2
=============================================================================
