----------------------------- MODULE MCIrcBots -----------------------------
(* Two bots, whose hashes order them one way for one kind of reply and the *)
(* other way for the other.                                                *)
EXTENDS IrcBots

CONSTANTS b1, b2

MCHash(k, b) == IF k[1] = "validated" THEN (IF b = b1 THEN 1 ELSE 2)
                ELSE (IF b = b1 THEN 2 ELSE 1)

(* All know each other, or nobody knows anybody else.                      *)
MCAcquainted == {[b \in Bots |-> Bots], [b \in Bots |-> {b}]}
=============================================================================
