----------------------------- MODULE FfiPoller ------------------------------
(***************************************************************************)
(* zmq_poll and the zmq_poller_* objects of the C ABI                      *)
(* (libzmq-ffi/src/lib.rs).  Threads register sockets and descriptors with *)
(* one poller and wait on it while messages arrive at the sockets and are  *)
(* read from them.  A wait holds the poller's lock while it asks one entry *)
(* after the other, and sleeps, without it, only when nothing was ready.   *)
(***************************************************************************)
EXTENDS Integers, Sequences, FiniteSets

CONSTANTS
    PollThreads,  \* threads that use the poller
    PollSockets,  \* sockets, by pointer
    PollFds       \* file descriptors

VARIABLES
    entries,   \* the poller's PollerEntry vector
    holder,    \* the thread that holds the entries lock, or none
    call,      \* per thread: the wait or poll it is in
    inbox,     \* sockets with a message in their inbox
    rose       \* history: per thread, sockets that became ready while it looked

pvars == <<entries, holder, call, inbox, rose>>

Nobody == "nobody"
Events == {"in", "out"}
NotCalling == [op |-> "none"]

Init ==
    /\ entries = <<>>
    /\ holder = Nobody
    /\ call = [t \in PollThreads |-> NotCalling]
    /\ inbox = {}
    /\ rose = [t \in PollThreads |-> {}]

IsFd(x) == x \in PollFds
Registered == {entries[i].what : i \in 1..Len(entries)}
Free(t) == call[t] = NotCalling

CanLock(t) == holder = Nobody

-----------------------------------------------------------------------------
(* zmq_poller_add and zmq_poller_add_fd refuse what is there already. *)
MayAdd(x) == x \notin Registered

PollerAdd(t, x, events) ==
    /\ Free(t) /\ CanLock(t) /\ MayAdd(x)
    /\ Len(entries) < Cardinality(PollSockets \cup PollFds)
    /\ entries' = Append(entries, [what |-> x, events |-> events])
    /\ UNCHANGED <<holder, call, inbox, rose>>

PollerModify(t, x, events) ==
    /\ Free(t) /\ CanLock(t) /\ x \in Registered
    /\ entries' = [i \in 1..Len(entries) |-> IF entries[i].what = x
                     THEN [entries[i] EXCEPT !.events = events] ELSE entries[i]]
    /\ UNCHANGED <<holder, call, inbox, rose>>

(* Vec::retain: every entry but those of x, in their order. *)
Retain(x) ==
    LET kept == {i \in 1..Len(entries) : entries[i].what # x} IN
    \E from \in [1..Cardinality(kept) -> kept] :
        /\ \A i, j \in 1..Cardinality(kept) : i < j => from[i] < from[j]
        /\ entries' = [i \in 1..Cardinality(kept) |-> entries[from[i]]]

PollerRemove(t, x) ==
    /\ Free(t) /\ CanLock(t) /\ x \in Registered
    /\ Retain(x)
    /\ UNCHANGED <<holder, call, inbox, rose>>

-----------------------------------------------------------------------------
(* Socket::events; the sockets have a peer to send to. *)
SocketEvents(s) == {"out"} \cup (IF s \in inbox THEN {"in"} ELSE {})

(* socket_revents keeps what was asked for; a descriptor is never ready.      *)
Revents(e) == IF IsFd(e.what) THEN {} ELSE SocketEvents(e.what) \cap e.events

(* zmq_poller_wait_all; zmq_poller_wait is the same for one event.            *)
PollerWait(t) ==
    /\ Free(t) /\ CanLock(t)
    /\ holder' = t
    /\ call' = [call EXCEPT ![t] = [op |-> "wait", look |-> entries, next |-> 1,
                                    ready |-> <<>>]]
    /\ UNCHANGED <<entries, inbox, rose>>

(* zmq_poll and zmq_ppoll look at the caller's own array. *)
Poll(t, events) ==
    /\ Free(t)
    /\ \E items \in {i \in PollSockets \X PollSockets : i[1] # i[2]} :
        call' = [call EXCEPT ![t] = [op |-> "poll", next |-> 1, ready |-> <<>>,
                   look |-> [i \in 1..2 |-> [what |-> items[i], events |-> events]]]]
    /\ UNCHANGED <<entries, holder, inbox, rose>>

InCall(t) == call[t].op \in {"wait", "poll"}
Looking(t) == InCall(t) /\ call[t].next <= Len(call[t].look)

Look(t) ==
    /\ Looking(t)
    /\ LET i == call[t].next
           e == call[t].look[i]
       IN  call' = [call EXCEPT ![t].next = i + 1,
                      ![t].ready = IF Revents(e) = {} THEN @
                                   ELSE Append(@, [what |-> e.what, events |-> Revents(e)])]
    /\ UNCHANGED <<entries, holder, inbox, rose>>

LookedAlmost(t) == InCall(t) /\ call[t].next >= Len(call[t].look)   \* mutant: one is left
Looked(t) == InCall(t) /\ call[t].next > Len(call[t].look)
Unlock(t) == IF holder = t THEN Nobody ELSE holder

(* Something was ready, or the timeout is 0: the first events, as many as the *)
(* caller has room for, are copied and the lock goes.  No event is EAGAIN for *)
(* a poller and 0 for zmq_poll.                                               *)
Returns(t) ==
    /\ Looked(t)
    /\ call' = [call EXCEPT ![t] = NotCalling]
    /\ holder' = Unlock(t)
    /\ rose' = [rose EXCEPT ![t] = {}]
    /\ UNCHANGED <<entries, inbox>>

(* The whole timeout is slept, without the lock and without another look.     *)
Sleeps(t) ==
    /\ Looked(t) /\ call[t].ready = <<>>
    /\ call' = [call EXCEPT ![t] = [op |-> "asleep"]]
    /\ holder' = Unlock(t)
    /\ rose' = [rose EXCEPT ![t] = {}]
    /\ UNCHANGED <<entries, inbox>>

Wakes(t) ==
    /\ call[t].op = "asleep"
    /\ call' = [call EXCEPT ![t] = NotCalling]
    /\ UNCHANGED <<entries, holder, inbox, rose>>

-----------------------------------------------------------------------------
(* What peers and other threads do to the sockets meanwhile. *)
Rise(s) == rose' = [t \in PollThreads |-> IF InCall(t) THEN rose[t] \cup {s} ELSE {}]

MessageArrives(s) ==
    /\ s \notin inbox
    /\ inbox' = inbox \cup {s}
    /\ Rise(s)
    /\ UNCHANGED <<entries, holder, call>>

MessageRead(s) ==
    /\ s \in inbox
    /\ inbox' = inbox \ {s}
    /\ UNCHANGED <<entries, holder, call, rose>>

Next ==
    \/ \E t \in PollThreads :
        \/ \E x \in PollSockets \cup PollFds :
            \/ \E events \in {{"in"}, Events} : PollerAdd(t, x, events) \/ PollerModify(t, x, events)
            \/ PollerRemove(t, x)
        \/ PollerWait(t)
        \/ Poll(t, {"in"})
        \/ Look(t) \/ Returns(t) \/ Sleeps(t) \/ Wakes(t)
    \/ \E s \in PollSockets : MessageArrives(s) \/ MessageRead(s)

Spec == Init /\ [][Next]_pvars

-----------------------------------------------------------------------------
(* Properties *)

(* The variables have their types. *)
TypeOK ==
    /\ holder \in PollThreads \cup {Nobody}
    /\ inbox \subseteq PollSockets
    /\ \A t \in PollThreads : call[t].op \in {"none", "wait", "poll", "asleep"}
    /\ \A i \in 1..Len(entries) : entries[i].what \in PollSockets \cup PollFds

(* What a wait is about to report is registered at that moment, for the       *)
(* events it reports: no other thread has removed or changed the entry since  *)
(* the wait looked at it, so user_data and socket are still good.             *)
ReportedIsRegistered ==
    \A t \in PollThreads : call[t].op = "wait" =>
        \A i \in 1..Len(call[t].ready) : \E j \in 1..Len(entries) :
            /\ entries[j].what = call[t].ready[i].what
            /\ call[t].ready[i].events \subseteq entries[j].events

(* An object is registered with a poller once, whatever was added, removed    *)
(* and added again, so one wait reports it once.                              *)
RegisteredOnce == Cardinality(Registered) = Len(entries)

(* A wait or poll that found nothing (EAGAIN, or 0) missed nothing: what is   *)
(* ready now of what it looked at became ready after the call began.          *)
NothingMissed ==
    \A t \in PollThreads : Looked(t) /\ call[t].ready = <<>> =>
        \A i \in 1..Len(call[t].look) :
            Revents(call[t].look[i]) # {} => call[t].look[i].what \in rose[t]
=============================================================================
