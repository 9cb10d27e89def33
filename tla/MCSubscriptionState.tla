------------------------ MODULE MCSubscriptionState ------------------------
(* Topics of up to two bytes and messages of up to three, over two bytes. *)
EXTENDS SubscriptionState

MCByte == {0, 1}
SeqUpTo(n) == UNION {[1 .. k -> MCByte] : k \in 0 .. n}
MCTopic == SeqUpTo(2)
MCData == SeqUpTo(3)
=============================================================================
