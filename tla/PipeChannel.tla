---------------------------- MODULE PipeChannel -----------------------------
(***************************************************************************)
(* What a pipe promises its reader: everything whose write succeeded       *)
(* comes out in the order it was written, each by a read of its own,       *)
(* except what a newer item superseded while the pipe was conflating;      *)
(* after the writer ended the pipe the reader gets what was written before *)
(* and then the end, and nothing is accepted any more.                     *)
(***************************************************************************)
EXTENDS Sequences

CONSTANT Items

VARIABLES
    pending,   \* what the reader has still to get
    fate,      \* "open", "ending" (the end is still to be read) or "closed"
    conflate,  \* does a write supersede what is pending?
    wrote,     \* flips with every write that succeeds
    took       \* flips with every read that returns something

chvars == <<pending, fate, conflate, wrote, took>>

Init == pending = <<>> /\ fate = "open" /\ conflate = FALSE /\ wrote = FALSE /\ took = FALSE

Switch(on) ==
    /\ conflate' = on
    /\ UNCHANGED <<pending, fate, wrote, took>>

Accept(x) ==
    /\ fate = "open"
    /\ pending' = IF conflate THEN <<x>> ELSE Append(pending, x)
    /\ wrote' = ~wrote
    /\ UNCHANGED <<fate, conflate, took>>

Deliver ==
    /\ pending # <<>>
    /\ pending' = Tail(pending)
    /\ took' = ~took
    /\ UNCHANGED <<fate, conflate, wrote>>

End ==
    /\ fate = "open"
    /\ fate' = "ending"
    /\ UNCHANGED <<pending, conflate, wrote, took>>

DeliverEnd ==
    /\ fate = "ending" /\ pending = <<>>
    /\ fate' = "closed"
    /\ took' = ~took
    /\ UNCHANGED <<pending, conflate, wrote>>

(* Either side may give up; what was not read is gone. *)
Abandon ==
    /\ pending' = <<>> /\ fate' = "closed"
    /\ UNCHANGED <<conflate, wrote, took>>

Next ==
    \/ (\E on \in BOOLEAN : Switch(on)) \/ (\E x \in Items : Accept(x))
    \/ Deliver \/ End \/ DeliverEnd \/ Abandon

Spec == Init /\ [][Next]_chvars
=============================================================================
