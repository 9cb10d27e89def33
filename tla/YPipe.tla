-------------------------------- MODULE YPipe -------------------------------
(***************************************************************************)
(* The pipe of libzmq-core/src/pipe.rs: a queue with a high-water mark     *)
(* that may be switched to keep only the latest item, ended in band by a   *)
(* delimiter or dropped by terminate.                                      *)
(***************************************************************************)
EXTENDS Integers, Sequences

CONSTANTS
    Items,     \* what is written
    Hwm,       \* the high-water mark; 0 is no limit
    MaxQueue   \* bound: frames in a pipe without a limit

ASSUME HwmAssumption == Hwm \in Nat /\ MaxQueue \in Nat /\ Hwm <= MaxQueue

VARIABLES
    queue,       \* PipeFrame<T>: items and the delimiter
    conflate,
    terminated,
    wrote,       \* history: flips with every write that succeeds
    took         \* history: flips with every read that returns a frame

yvars == <<queue, conflate, terminated, wrote, took>>

CONSTANT Delimiter
ASSUME DelimiterAssumption == Delimiter \notin Items

Init ==
    /\ queue = <<>>
    /\ conflate = FALSE
    /\ terminated = FALSE
    /\ wrote = FALSE /\ took = FALSE

SetConflate(on) ==
    /\ conflate' = on
    /\ UNCHANGED <<queue, terminated, wrote, took>>

Full == ~conflate /\ Hwm > 0 /\ Len(queue) >= Hwm

(* Mutant: a conflating pipe puts the newest first. *)
WrittenFirst(x) == <<x>> \o queue
Written(x) == IF conflate THEN <<x>> ELSE Append(queue, x)

(* write and write_item: EAGAIN when full, and an error once terminated. *)
Write(x) ==
    /\ ~terminated /\ ~Full
    /\ conflate \/ Len(queue) < MaxQueue
    /\ queue' = Written(x)
    /\ wrote' = ~wrote
    /\ UNCHANGED <<conflate, terminated, took>>

(* The delimiter heeds neither the mark nor conflation. *)
WriteDelimiter ==
    /\ ~terminated
    /\ queue' = Append(queue, Delimiter)
    /\ terminated' = TRUE
    /\ UNCHANGED <<conflate, wrote, took>>

Read ==
    /\ queue # <<>>
    /\ queue' = Tail(queue)
    /\ took' = ~took
    /\ UNCHANGED <<conflate, terminated, wrote>>

Terminate ==
    /\ terminated' = TRUE
    /\ queue' = <<>>
    /\ UNCHANGED <<conflate, wrote, took>>

Next ==
    \/ \E on \in BOOLEAN : SetConflate(on)
    \/ \E x \in Items : Write(x)
    \/ WriteDelimiter \/ Read \/ Terminate

Spec == Init /\ [][Next]_yvars

-----------------------------------------------------------------------------
(* Properties *)

(* The queue holds frames. *)
TypeOK ==
    /\ queue \in Seq(Items \cup {Delimiter})
    /\ conflate \in BOOLEAN /\ terminated \in BOOLEAN
    /\ wrote \in BOOLEAN /\ took \in BOOLEAN

Ending == queue # <<>> /\ queue[Len(queue)] = Delimiter
Unread == IF Ending THEN SubSeq(queue, 1, Len(queue) - 1) ELSE queue

(* Nothing comes after the delimiter, and a pipe that has one takes no more.  *)
DelimiterIsLast ==
    \A i \in 1..Len(queue) : queue[i] = Delimiter => i = Len(queue) /\ terminated

(* However the high-water mark, conflation being switched on and off and the  *)
(* delimiter combine, a pipe with a mark holds no more items than the mark.   *)
WithinHwm == Hwm > 0 => Len(Unread) <= Hwm

Channel == INSTANCE PipeChannel WITH
    pending <- Unread,
    fate <- IF ~terminated THEN "open" ELSE IF Ending THEN "ending" ELSE "closed"

(* A pipe is a channel: the delimiter that travels in the queue gives the     *)
(* reader everything written before it and then the end, and nothing whose    *)
(* write succeeded is lost but what a write to a conflating pipe supersedes   *)
(* or terminate drops (YPipe::write, read, write_delimiter, terminate).       *)
ImplementsChannel == Channel!Spec
=============================================================================
