---------------------------- MODULE NormSession -----------------------------
(***************************************************************************)
(* The norm:// transport of a PUB and a SUB socket: bind_norm, unbind_norm,*)
(* connect_norm, disconnect_norm, send_norm_data and recv_norm_data of     *)
(* libzmq-core/src/socket.rs, over Instance and Session of the norm module *)
(* of libzmq-sys/src/lib.rs.                                               *)
(*                                                                         *)
(* A session belongs to a NORM instance, and the library may not be asked  *)
(* to destroy a session whose instance is gone.  Rust drops a value when   *)
(* another is assigned to its place, so the order of two assignments is    *)
(* the order of two calls of the library.  recv_norm_data keeps the norm   *)
(* lock for up to MaxTurns objects and takes the subscriptions lock anew   *)
(* for each: subscriptions change between two objects of one call.         *)
(***************************************************************************)
EXTENDS Naturals, Sequences

CONSTANTS
  NormTopics,  \* what the objects are about
  MaxTurns,    \* the objects one recv looks at, 8 in the code
  MaxObjects,  \* bound on the objects sent
  MaxHandles,  \* bound on the instances made on each side
  MaxChanges   \* bound on the changes of the subscriptions

Sides == {"pub", "sub"}

VARIABLES
  norm,      \* NormState: of each side, its session and its instance
  made,      \* how many instances each side has made
  live,      \* the instances NORM has not destroyed
  busy,      \* the call that holds the norm lock of a side
  crashed,   \* history: NORM was handed a session without its instance
  interest,  \* the subscriptions of the SUB socket, with the changes made
  sent,      \* the objects enqueued by the PUB socket, by topic
  here,      \* how many of them have reached the receiver
  taken,     \* how many of them recv_data has returned
  got,       \* what the SUB application received, by number
  steady     \* history: whether interest is as at connect, and since when

handles == <<norm, made, live, crashed>>
objects == <<sent, here, taken, got, steady>>
nvars == <<handles, busy, interest, objects>>

(* A session and an instance are numbered alike; 0 is None. *)
NormState == [session : 0 .. MaxHandles, instance : 0 .. MaxHandles]

(* A call that assigns new to the fields, or a recv with its turns left. *)
Call == [is : {"none"}] \cup [is : {"assign"}, new : 0 .. MaxHandles, at : 1 .. 2]
          \cup [is : {"recv"}, turns : 0 .. MaxTurns]

TypeOK ==
  /\ norm \in [Sides -> NormState]
  /\ made \in [Sides -> 0 .. MaxHandles]
  /\ live \in [Sides -> SUBSET (1 .. MaxHandles)]
  /\ busy \in [Sides -> Call]
  /\ crashed \in BOOLEAN
  /\ interest \in [topics : SUBSET NormTopics, changes : 0 .. MaxChanges]
  /\ sent \in Seq(NormTopics)
  /\ here \in 0 .. Len(sent) /\ taken \in 0 .. here
  /\ got \in Seq(1 .. MaxObjects)
  /\ steady \in [is : BOOLEAN, since : 0 .. MaxObjects]

Idle == [is |-> "none"]

Init ==
  /\ norm = [x \in Sides |-> [session |-> 0, instance |-> 0]]
  /\ made = [x \in Sides |-> 0]
  /\ live = [x \in Sides |-> {}]
  /\ busy = [x \in Sides |-> Idle]
  /\ crashed = FALSE
  /\ interest = [topics |-> {}, changes |-> 0]
  /\ sent = <<>> /\ here = 0 /\ taken = 0 /\ got = <<>>
  /\ steady = [is |-> TRUE, since |-> 0]

-----------------------------------------------------------------------------
(* bind_norm and connect_norm make an instance and a session of it. *)
Open(x) ==
  /\ busy[x] = Idle
  /\ made[x] < MaxHandles
  /\ made' = [made EXCEPT ![x] = @ + 1]
  /\ live' = [live EXCEPT ![x] = @ \cup {made[x] + 1}]
  /\ busy' = [busy EXCEPT ![x] = [is |-> "assign", new |-> made[x] + 1, at |-> 1]]
  /\ UNCHANGED <<norm, crashed, interest, objects>>

(* unbind_norm and disconnect_norm put None in their places. *)
Shut(x) ==
  /\ busy[x] = Idle
  /\ norm[x].session # 0
  /\ busy' = [busy EXCEPT ![x] = [is |-> "assign", new |-> 0, at |-> 1]]
  /\ UNCHANGED <<handles, interest, objects>>

(* The order of the assignments, and so of the drops. *)
DropOrder == <<"session", "instance">>

(* Drop of Session, and what becomes of the objects: a sender takes along  *)
(* what has not arrived, a receiver starts with what is sent next.         *)
DropSession(x) ==
  /\ crashed' = (crashed \/ norm[x].session \notin live[x] \cup {0})
  /\ IF x = "pub"
     THEN sent' = SubSeq(sent, 1, here) /\ UNCHANGED <<here, taken, got, steady>>
     ELSE /\ here' = Len(sent) /\ taken' = Len(sent) /\ got' = <<>>
          /\ steady' = [is |-> TRUE, since |-> Len(sent)]
          /\ UNCHANGED sent
  /\ UNCHANGED live

(* Drop of Instance. *)
DropInstance(x) ==
  /\ live' = [live EXCEPT ![x] = @ \ {norm[x].instance}]
  /\ UNCHANGED <<crashed, objects>>

(* One assignment of a call that holds the lock. *)
Assign(x) ==
  LET field == DropOrder[busy[x].at] IN
  /\ busy[x].is = "assign"
  /\ IF field = "session" THEN DropSession(x) ELSE DropInstance(x)
  /\ norm' = [norm EXCEPT ![x][field] = busy[x].new]
  /\ busy' = [busy EXCEPT ![x] = IF @.at = 1 THEN [@ EXCEPT !.at = 2] ELSE Idle]
  /\ UNCHANGED <<made, interest>>

-----------------------------------------------------------------------------
(* send_norm_data; a part of a longer message is refused before. *)
Send(t) ==
  /\ busy["pub"] = Idle
  /\ norm["pub"].session # 0
  /\ Len(sent) < MaxObjects
  /\ sent' = Append(sent, t)
  /\ UNCHANGED <<handles, busy, interest, here, taken, got, steady>>

(* NORM repairs what the network loses: objects arrive in order, if late.  *)
(* Without a receiver they go nowhere.                                     *)
Arrive ==
  /\ here < Len(sent)
  /\ here' = here + 1
  /\ IF norm["sub"].session # 0 THEN UNCHANGED <<taken, steady>>
     ELSE taken' = here + 1 /\ steady' = [is |-> TRUE, since |-> here + 1]
  /\ UNCHANGED <<handles, busy, interest, sent, got>>

(* setsockopt ZMQ_SUBSCRIBE, ZMQ_UNSUBSCRIBE: their own lock is enough. *)
ChangeInterest(t) ==
  /\ interest.changes < MaxChanges
  /\ interest' = [topics |-> IF t \in interest.topics THEN interest.topics \ {t}
                             ELSE interest.topics \cup {t},
                  changes |-> interest.changes + 1]
  /\ steady' = [steady EXCEPT !.is = (taken = steady.since /\ steady.is)]
  /\ UNCHANGED <<handles, busy, sent, here, taken, got>>

RecvBegins ==
  /\ busy["sub"] = Idle
  /\ norm["sub"].instance # 0
  /\ busy' = [busy EXCEPT !["sub"] = [is |-> "recv", turns |-> MaxTurns]]
  /\ UNCHANGED <<handles, interest, objects>>

(* Mutant: the last object a call looks at is not returned. *)
ReturnsEarly(i) == sent[i] \in interest.topics /\ busy["sub"].turns > 1

(* Object i is for the application. *)
Returns(i) == sent[i] \in interest.topics

LastTurn == busy["sub"].turns = 1

(* recv_data has an object: it is returned, or the loop goes on, or the    *)
(* call gives up after its last turn.                                      *)
RecvTakes ==
  /\ busy["sub"].is = "recv"
  /\ taken < here
  /\ taken' = taken + 1
  /\ got' = IF Returns(taken + 1) THEN Append(got, taken + 1) ELSE got
  /\ busy' = [busy EXCEPT !["sub"] =
                IF Returns(taken + 1) \/ LastTurn THEN Idle
                ELSE [is |-> "recv", turns |-> busy["sub"].turns - 1]]
  /\ UNCHANGED <<handles, interest, sent, here, steady>>

(* recv_data has waited for nothing, or too short. *)
RecvTimesOut ==
  /\ busy["sub"].is = "recv"
  /\ busy' = [busy EXCEPT !["sub"] = Idle]
  /\ UNCHANGED <<handles, interest, objects>>

Next ==
  \/ \E x \in Sides : Open(x) \/ Shut(x) \/ Assign(x)
  \/ \E t \in NormTopics : Send(t) \/ ChangeInterest(t)
  \/ Arrive \/ RecvBegins \/ RecvTakes \/ RecvTimesOut

Spec == Init /\ [][Next]_nvars

-----------------------------------------------------------------------------
(* NORM never destroys a session whose instance it has destroyed, and the  *)
(* session a call uses has its instance, whatever binds, unbinds and binds *)
(* anew (bind_norm, connect_norm, the drops of Session and Instance).      *)
SessionsDieFirst ==
  /\ ~crashed
  /\ \A x \in Sides : norm[x].session \in live[x] \cup {0}

(* As long as the subscriptions stay as they were when the first object    *)
(* came, the application gets every object it wants of those taken from    *)
(* NORM, once and in order, however many unwanted ones lie between them    *)
(* and wherever a call gives up (recv_norm_data).                          *)
WantedAreDelivered ==
  /\ \A i, j \in DOMAIN got : i < j => got[i] < got[j]
  /\ steady.is => {got[i] : i \in DOMAIN got} =
                    {k \in steady.since + 1 .. taken : sent[k] \in interest.topics}
=============================================================================
