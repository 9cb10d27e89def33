----------------------------- MODULE FfiMessage -----------------------------
(***************************************************************************)
(* The zmq_msg_t of the C ABI (libzmq-ffi/src/lib.rs): a message owns its  *)
(* bytes or shares a buffer of the application, whose free function must   *)
(* run when the last message that shares it is closed.  Copies, moves,     *)
(* receives into a message that is in use, and the core messages a message *)
(* is turned into when it is sent.                                         *)
(***************************************************************************)
EXTENDS Integers, Sequences, FiniteSets

CONSTANTS
    Msgs,       \* zmq_msg_t variables of the application
    Buffers,    \* buffers handed to zmq_msg_init_data
    MaxQueue,   \* bound: core messages in the socket's queue
    MaxLeaks    \* bound: messages overwritten while they hold a buffer

VARIABLES
    slot,     \* what each zmq_msg_t points to
    given,    \* buffers that were handed over
    arc,      \* per buffer: strong count of its Arc<ExternalMessage>
    freed,    \* per buffer: runs of its free function
    leaked,   \* per buffer: boxes overwritten without being dropped
    queue     \* core messages on their way to a recv

mvars == <<slot, given, arc, freed, leaked, queue>>

NoMetadata == -1
Closed == [kind |-> "closed"]

(* FfiMessageInner; a routing id of 0 is "not set", and metadata is the value *)
(* of Routing-Id in it (0 stands for an identity that is not a number).  The   *)
(* group goes wherever the routing id goes, and is left out.                   *)
Owned(data) == [kind |-> "owned", data |-> data, more |-> FALSE, routing_id |-> 0,
                metadata |-> NoMetadata]
External(b) == [Owned(b) EXCEPT !.kind = "external"]
Empty == Owned("")

Init ==
    /\ slot = [m \in Msgs |-> Closed]
    /\ given = {}
    /\ arc = [b \in Buffers |-> 0]
    /\ freed = [b \in Buffers |-> 0]
    /\ leaked = [b \in Buffers |-> 0]
    /\ queue = <<>>

Holds(c) == IF c.kind = "external" THEN {c.data} ELSE {}

-----------------------------------------------------------------------------
(* ExternalMessage::drop: the free function runs with the last reference.     *)
Dropped(c) ==
    /\ arc' = [b \in Buffers |-> IF b \in Holds(c) THEN arc[b] - 1 ELSE arc[b]]
    /\ freed' = [b \in Buffers |-> IF b \in Holds(c) /\ arc[b] = 1
                                   THEN freed[b] + 1 ELSE freed[b]]

(* zmq_msg_init, zmq_msg_init_size and zmq_msg_init_buffer write over whatever *)
(* the variable held: it must be closed or new.                                *)
MsgInit(m) ==
    /\ slot[m] = Closed
    /\ \E data \in {"", "bytes"} : slot' = [slot EXCEPT ![m] = Owned(data)]
    /\ UNCHANGED <<given, arc, freed, leaked, queue>>

MsgInitData(m) ==
    /\ slot[m] = Closed
    /\ \E b \in Buffers \ given :
        /\ slot' = [slot EXCEPT ![m] = External(b)]
        /\ given' = given \cup {b}
        /\ arc' = [arc EXCEPT ![b] = 1]
    /\ UNCHANGED <<freed, leaked, queue>>

(* Closing a closed message does nothing. *)
MsgClose(m) ==
    /\ slot' = [slot EXCEPT ![m] = Closed]
    /\ Dropped(slot[m])
    /\ UNCHANGED <<given, leaked, queue>>

(* What a write over the box of m forgets. *)
Forget(m) ==
    leaked' = [b \in Buffers |-> IF b \in Holds(slot[m]) THEN leaked[b] + 1 ELSE leaked[b]]
MayForget(m) == \A b \in Holds(slot[m]) : leaked[b] < MaxLeaks

(* zmq_msg_move: the box of dest is overwritten, and src gets a new one.  A   *)
(* message moved onto itself loses its box.                                   *)
MsgMove(dest, src) ==
    /\ MayForget(dest)
    /\ slot' = IF dest = src THEN [slot EXCEPT ![src] = Empty]
               ELSE [slot EXCEPT ![dest] = slot[src], ![src] = Empty]
    /\ Forget(dest)
    /\ UNCHANGED <<given, arc, freed, queue>>

NotCloned(c) == arc   \* mutant: the reference is not counted
(* copy_message: owned bytes are copied, a buffer gets one more reference.    *)
Cloned(c) == [b \in Buffers |-> IF b \in Holds(c) THEN arc[b] + 1 ELSE arc[b]]

MsgCopy(dest, src) ==
    /\ slot[src] # Closed /\ MayForget(dest)
    /\ slot' = [slot EXCEPT ![dest] = slot[src]]
    /\ arc' = Cloned(slot[src])
    /\ Forget(dest)
    /\ UNCHANGED <<given, freed, queue>>

-----------------------------------------------------------------------------
(* set_metadata replaces a value that is there already. *)
MsgSetRoutingId(m, r) ==
    /\ slot[m] # Closed
    /\ slot' = [slot EXCEPT ![m].routing_id = r, ![m].metadata = r]
    /\ UNCHANGED <<given, arc, freed, leaked, queue>>

(* to_core_message copies the bytes and keeps all but the metadata; the       *)
(* message itself stays as it is, sent or not.                                *)
ToCore(c) == [data |-> IF c.kind = "external" THEN "bytes" ELSE c.data, more |-> c.more,
              routing_id |-> c.routing_id, metadata |-> NoMetadata]

MsgSend(m) ==
    /\ slot[m] # Closed /\ Len(queue) < MaxQueue
    /\ \E sndmore \in BOOLEAN :
        LET core == ToCore(slot[m]) IN
        queue' = Append(queue, [core EXCEPT !.more = @ \/ sndmore])
    /\ UNCHANGED <<slot, given, arc, freed, leaked>>

(* zmq_send and zmq_send_const, and zmq_sendiov: every entry but the last goes *)
(* out with the caller's flags, and the first that fails (the queue is full)  *)
(* ends the call with the entries before it sent.                             *)
Bytes(more) == [ToCore(Owned("bytes")) EXCEPT !.more = more]
SendIov(count, sndmore) ==
    LET parts == [i \in 1..count |-> Bytes(sndmore /\ i < count)]
        room == MaxQueue - Len(queue)
    IN  /\ room > 0
        /\ queue' = queue \o SubSeq(parts, 1, IF count < room THEN count ELSE room)
        /\ UNCHANGED <<slot, given, arc, freed, leaked>>

(* A message from another transport: apply_peer_identity_metadata sets the    *)
(* metadata of any identity and the routing id of a numeric one.              *)
Arrive ==
    /\ Len(queue) < MaxQueue
    /\ \E r \in 0..1, more \in BOOLEAN :
        queue' = Append(queue, [data |-> "bytes", more |-> more, routing_id |-> r,
                                metadata |-> r])
    /\ UNCHANGED <<slot, given, arc, freed, leaked>>

(* from_core_message: the metadata of the transport, or else the routing id.  *)
MetadataOf(core) ==
    IF core.metadata # NoMetadata \/ core.routing_id = 0
    THEN core.metadata ELSE core.routing_id

FromCore(core) == [kind |-> "owned", data |-> core.data, more |-> core.more,
                   routing_id |-> core.routing_id, metadata |-> MetadataOf(core)]

Replace(m) == Dropped(slot[m])

MsgRecv(m) ==
    /\ queue # <<>>
    /\ Replace(m)
    /\ slot' = [slot EXCEPT ![m] = FromCore(Head(queue))]
    /\ queue' = Tail(queue)
    /\ UNCHANGED <<given, leaked>>

(* zmq_recviov fills entries up to the end of the message or of the vector;   *)
(* what is left of the message is for the next call, and what was read of a   *)
(* message whose next part is not there is gone with EAGAIN.  zmq_recv is the *)
(* same with one entry.                                                       *)
RecvIov(count) ==
    LET ends == {i \in 1..Len(queue) : ~queue[i].more \/ i \in {count, Len(queue)}}
        read == CHOOSE i \in ends : \A j \in ends : i <= j
    IN  /\ queue # <<>>
        /\ queue' = SubSeq(queue, read + 1, Len(queue))
        /\ UNCHANGED <<slot, given, arc, freed, leaked>>

Next ==
    \/ \E m \in Msgs :
        \/ MsgInit(m) \/ MsgInitData(m) \/ MsgClose(m) \/ MsgSend(m) \/ MsgRecv(m)
        \/ \E r \in 1..2 : MsgSetRoutingId(m, r)
    \/ \E dest, src \in Msgs : MsgMove(dest, src) \/ MsgCopy(dest, src)
    \/ \E count \in 1..2 : RecvIov(count) \/ \E sndmore \in BOOLEAN : SendIov(count, sndmore)
    \/ Arrive

Spec == Init /\ [][Next]_mvars

-----------------------------------------------------------------------------
(* Properties *)

(* The variables have their types. *)
TypeOK ==
    /\ \A m \in Msgs : slot[m].kind \in {"closed", "owned", "external"}
    /\ \A b \in Buffers : arc[b] \in 0..(Cardinality(Msgs) + MaxLeaks) /\ freed[b] \in 0..1
    /\ \A i \in 1..Len(queue) : queue[i].data \in {"", "bytes"}

Holders(b) == {m \in Msgs : b \in Holds(slot[m])}

(* The free function of a buffer has not run while a message still points to *)
(* it, however it was copied, moved, sent and received over (the Arc of      *)
(* MessageStorage::External).                                                *)
NotFreedInUse == \A b \in Buffers : Holders(b) # {} => freed[b] = 0

(* Once no message points to a buffer its free function has run, unless a    *)
(* message that pointed to it was the destination of a move or a copy, or    *)
(* was moved onto itself: those overwrite the box without dropping it.       *)
FreedAtLast ==
    \A b \in given : Holders(b) = {} => freed[b] = 1 \/ leaked[b] > 0

(* The routing id and the Routing-Id property tell the same number, for any  *)
(* message that has both, whether it was set by the application, copied,     *)
(* sent and received over inproc or stamped by a stream transport.           *)
RoutingIdsAgree ==
    \A m \in Msgs : slot[m] # Closed /\ slot[m].routing_id # 0
        => slot[m].metadata = slot[m].routing_id
=============================================================================
