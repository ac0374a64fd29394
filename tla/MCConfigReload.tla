--------------------------- MODULE MCConfigReload ---------------------------
(* Instances of ConfigReload for TLC: tokens of their own, and one that    *)
(* two services share; the screen kept awake or not.                       *)
EXTENDS ConfigReload

CONSTANTS s1, s2

Tokens(w, c, a) ==
    [k \in Keys |-> IF k = "web_chat" THEN w ELSE IF k = "chat_control" THEN c ELSE a]
FewConfigs ==
    {[screen |-> b, backend |-> "claude", secret |-> t] :
        b \in BOOLEAN, t \in {Tokens(s1, s2, s1), Tokens(NoSecret, s1, s1)}}
=============================================================================
