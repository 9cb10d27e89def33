---------------------------- MODULE Distribution ----------------------------
(***************************************************************************)
(* One publication to many peers over inproc: PUB, XPUB and RADIO sockets  *)
(* in libzmq-core/src/socket.rs (send, try_send_inproc_fast,               *)
(* resolve_outboxes, join, leave) and the peer list they walk in           *)
(* context.rs (send_owned_to_matching_peers, matching_peers, add_peer,     *)
(* remove_peer, socket_type_accepts_message).                              *)
(*                                                                         *)
(* The publisher and each subscriber have a thread of their own.  They     *)
(* meet in three kinds of mutex: the endpoint's list of peers, each        *)
(* subscriber's subscriptions, and each subscriber's inbox.  A bound PUB   *)
(* holds the list while it looks at every peer and pushes as it goes; the  *)
(* other two collect the inboxes under the list's mutex, release it, and   *)
(* push to one inbox after the other, a full one ending the call in the    *)
(* middle.  An action is one turn of these loops.  The application sends   *)
(* its messages in the order of their numbers and repeats one that was     *)
(* refused, or gives it up.                                                *)
(***************************************************************************)
EXTENDS Naturals, Sequences, SequencesExt

CONSTANTS
  Subs,      \* the subscribers: SUB, XSUB or DISH sockets
  Topics,    \* topics and groups, sequences of letters
  SndHwm,    \* ZMQ_SNDHWM of the publisher, 0 for no limit
  MaxWant,   \* bound on how often one topic is subscribed by one socket
  MaxSends   \* bound on the number of send calls

VARIABLES
  pub,    \* the publisher: its type and the options it reads
  want,   \* subscriptions of each subscriber: how often it has each topic
  peers,  \* the endpoint's list of peers, in the order they came
  inbox,  \* the inbox of each subscriber: message numbers
  send,   \* the call the publisher is in, or its last one
  times   \* history: how often each subscriber was given this message

vars == <<pub, want, peers, inbox, send, times>>

(***************************************************************************)
(* A call: todo is what is left of the loop it is in, boxes the outboxes   *)
(* it collected.  History: steady are the peers that were listed and       *)
(* interested all the time since it began, ever those that were at some    *)
(* time, tries the calls this message has had, sent the calls so far.      *)
(***************************************************************************)
Call == [pc : {"idle", "look", "push", "ok", "again"}, id : 0 .. MaxSends,
         topic : Topics, todo : Seq(Subs), boxes : Seq(Subs),
         steady : SUBSET Subs, ever : SUBSET Subs,
         tries : 0 .. MaxSends, sent : 0 .. MaxSends]

TypeOK ==
  /\ pub \in [type : {"Pub", "Xpub", "Radio"}, conflate : BOOLEAN,
              nodrop : BOOLEAN]
  /\ want \in [Subs -> [Topics -> 0 .. MaxWant]]
  /\ peers \in Seq(Subs)
  /\ inbox \in [Subs -> Seq(1 .. MaxSends)]
  /\ send \in Call
  /\ times \in [Subs -> 0 .. MaxSends]

Listed(p) == p \in Range(peers)

(* socket_type_accepts_message: SUB and XSUB by prefix, DISH exactly. *)
Accepts(w, topic) ==
  IF pub.type = "Radio" THEN w[topic] > 0
  ELSE \E t \in Topics : w[t] > 0 /\ IsPrefix(t, topic)

Interested(p, topic) == Accepts(want[p], topic)

(* Does the thread of the publisher hold the list's mutex? *)
ListHeld == send.pc = "look"

InCall == send.pc \in {"look", "push"}

Init ==
  /\ pub \in [type : {"Pub", "Xpub", "Radio"}, conflate : BOOLEAN,
              nodrop : BOOLEAN]
  /\ pub.nodrop => pub.type = "Xpub"
  /\ want = [p \in Subs |-> [t \in Topics |-> 0]]
  /\ peers = <<>>
  /\ inbox = [p \in Subs |-> <<>>]
  /\ send = [pc |-> "idle", id |-> 0, topic |-> CHOOSE t \in Topics : TRUE,
             todo |-> <<>>, boxes |-> <<>>, steady |-> {}, ever |-> {},
             tries |-> 0, sent |-> 0]
  /\ times = [p \in Subs |-> 0]

-----------------------------------------------------------------------------
(* The history of a call in which p's interest or place in the list has    *)
(* become l and w.                                                         *)
Witness(p, l, w) ==
  LET on == l /\ Accepts(w, send.topic) IN
  [send EXCEPT !.steady = IF on THEN @ ELSE @ \ {p},
               !.ever = IF on /\ InCall THEN @ \cup {p} ELSE @]

Count(p, t, n) == [want[p] EXCEPT ![t] = n]

(* subscribe, or join of a DISH, whose groups are not empty. *)
Subscribe(p, t) ==
  /\ pub.type = "Radio" => t # <<>>
  /\ want[p][t] < MaxWant
  /\ want' = [want EXCEPT ![p] = Count(p, t, @[t] + 1)]
  /\ send' = Witness(p, Listed(p), want'[p])
  /\ UNCHANGED <<pub, peers, inbox, times>>

(* unsubscribe, or leave. *)
Unsubscribe(p, t) ==
  /\ want[p][t] > 0
  /\ want' = [want EXCEPT ![p] = Count(p, t, @[t] - 1)]
  /\ send' = Witness(p, Listed(p), want'[p])
  /\ UNCHANGED <<pub, peers, inbox, times>>

(* connect: add_peer appends to the list. *)
Connect(p) ==
  /\ ~ListHeld
  /\ ~Listed(p)
  /\ peers' = Append(peers, p)
  /\ send' = Witness(p, TRUE, want[p])
  /\ UNCHANGED <<pub, want, inbox, times>>

(* disconnect: remove_peer takes p, listed once (Connect), off the list.   *)
(* What is in the inbox stays readable.                                    *)
Disconnect(p) ==
  /\ ~ListHeld
  /\ \E k \in 1 .. Len(peers) : peers[k] = p /\ peers' = RemoveAt(peers, k)
  /\ send' = Witness(p, FALSE, want[p])
  /\ UNCHANGED <<pub, want, inbox, times>>

(* recv of a subscriber. *)
Recv(p) ==
  /\ inbox[p] # <<>>
  /\ inbox' = [inbox EXCEPT ![p] = Tail(@)]
  /\ UNCHANGED <<pub, want, peers, send, times>>

-----------------------------------------------------------------------------
(* The publisher. *)

(* send is called with message i of topic t and takes the list's mutex. *)
Begin(i, t) ==
  LET on == {p \in Range(peers) : Interested(p, t)} IN
  /\ ~InCall
  /\ send.sent < MaxSends
  /\ pub.type = "Radio" => t # <<>>
  /\ send' = [pc |-> "look", id |-> i, topic |-> t, todo |-> peers,
              boxes |-> <<>>, steady |-> on, ever |-> on,
              tries |-> IF i = send.id THEN send.tries + 1 ELSE 1,
              sent |-> send.sent + 1]
  /\ times' = IF i = send.id THEN times ELSE [p \in Subs |-> 0]
  /\ UNCHANGED <<pub, want, peers, inbox>>

SendNext(t) == Begin(send.id + 1, t)

(* The application repeats a send that returned EAGAIN. *)
SendAgain == send.pc = "again" /\ Begin(send.id, send.topic)

Push(p, q) ==
  /\ inbox' = [inbox EXCEPT ![p] = Append(q, send.id)]
  /\ times' = [times EXCEPT ![p] = @ + 1]

(* The test of p's subscriptions in the loops over the peers. *)
Chosen(p) == Interested(p, send.topic)

(* PUB looks at the next peer and pushes at once, whatever is in its inbox *)
(* and whether or not ZMQ_CONFLATE is set.                                 *)
PubTurn ==
  /\ pub.type = "Pub"
  /\ send.pc = "look" /\ send.todo # <<>>
  /\ send' = [send EXCEPT !.todo = Tail(@)]
  /\ LET p == Head(send.todo) IN
       IF Chosen(p) THEN Push(p, inbox[p])
       ELSE UNCHANGED <<inbox, times>>
  /\ UNCHANGED <<pub, want, peers>>

PubReturns ==
  /\ pub.type = "Pub"
  /\ send.pc = "look" /\ send.todo = <<>>
  /\ send' = [send EXCEPT !.pc = "ok"]
  /\ UNCHANGED <<pub, want, peers, inbox, times>>

Collect(b, p) == Append(b, p)

(* XPUB and RADIO look at the next peer and note its inbox. *)
Look ==
  /\ pub.type # "Pub"
  /\ send.pc = "look" /\ send.todo # <<>>
  /\ send' = [send EXCEPT !.todo = Tail(@),
                !.boxes = IF Chosen(Head(send.todo))
                          THEN Collect(@, Head(send.todo)) ELSE @]
  /\ UNCHANGED <<pub, want, peers, inbox, times>>

(* Mutant: ZMQ_XPUB_NODROP is not looked at. *)
ResolvedDropping ==
  [send EXCEPT !.pc = IF send.boxes = <<>> THEN "ok" ELSE "push",
               !.todo = send.boxes]

(* The list is released; nobody to send to is success, except with         *)
(* ZMQ_XPUB_NODROP.                                                        *)
Resolved ==
  LET next == IF send.boxes # <<>> THEN "push"
              ELSE IF pub.nodrop THEN "again" ELSE "ok"
  IN  [send EXCEPT !.pc = next, !.todo = send.boxes]

Resolve ==
  /\ pub.type # "Pub"
  /\ send.pc = "look" /\ send.todo = <<>>
  /\ send' = Resolved
  /\ UNCHANGED <<pub, want, peers, inbox, times>>

Full(q) == ~pub.conflate /\ SndHwm > 0 /\ Len(q) >= SndHwm

(* With ZMQ_CONFLATE the queue is cleared before the push. *)
Room(q) == IF pub.conflate THEN <<>> ELSE q

(* The next outbox: pushed to, still listed or not, or found full, which   *)
(* ends the call with EAGAIN; the outboxes before it keep the message.     *)
PushTurn ==
  LET p == Head(send.todo) IN
  /\ send.pc = "push" /\ send.todo # <<>>
  /\ IF Full(inbox[p])
     THEN /\ send' = [send EXCEPT !.pc = "again"]
          /\ UNCHANGED <<inbox, times>>
     ELSE /\ send' = [send EXCEPT !.todo = Tail(@)]
          /\ Push(p, Room(inbox[p]))
  /\ UNCHANGED <<pub, want, peers>>

PushReturns ==
  /\ send.pc = "push" /\ send.todo = <<>>
  /\ send' = [send EXCEPT !.pc = "ok"]
  /\ UNCHANGED <<pub, want, peers, inbox, times>>

Next ==
  \/ \E p \in Subs, t \in Topics : Subscribe(p, t) \/ Unsubscribe(p, t)
  \/ \E p \in Subs : Connect(p) \/ Disconnect(p) \/ Recv(p)
  \/ \E t \in Topics : SendNext(t)
  \/ SendAgain
  \/ PubTurn \/ PubReturns
  \/ Look \/ Resolve \/ PushTurn \/ PushReturns

Spec == Init /\ [][Next]_vars

-----------------------------------------------------------------------------
(* A send that returns success has reached every subscriber that was       *)
(* connected and interested for the whole of the call, whatever the others *)
(* did meanwhile (send, matching_peers, send_owned_to_matching_peers).     *)
OkReachesEveryone ==
  send.pc = "ok" => \A p \in send.steady : times[p] > 0

(* Nothing is pushed to a subscriber that at no time of the call was both  *)
(* connected and interested in exactly this group, or in a prefix of this  *)
(* topic; a disconnect in mid-call may come too late                       *)
(* (socket_type_accepts_message, Socket::send).                            *)
OnlyTheInterested ==
  \A p \in Subs : times[p] > 0 /\ send.tries = 1 => p \in send.ever

(* A subscriber gets the messages in the order they were sent, and one of  *)
(* them a second time only when the application repeated a send that       *)
(* returned EAGAIN: once per call at most (Socket::send's loop).           *)
InOrderOncePerCall ==
  \A p \in Subs :
    /\ \A k \in 1 .. Len(inbox[p]) - 1 : inbox[p][k] <= inbox[p][k + 1]
    /\ times[p] <= send.tries

(* With ZMQ_XPUB_NODROP a send that returns success has reached somebody,  *)
(* even when the subscribers leave while it runs (Socket::send).           *)
NoDropDelivers ==
  send.pc = "ok" /\ pub.nodrop => \E p \in Subs : times[p] > 0

(* The queues XPUB and RADIO fill stay within the high-water mark, or hold *)
(* the newest message alone with ZMQ_CONFLATE; the fast path of PUB keeps  *)
(* neither bound (Socket::send, try_send_inproc_fast).                     *)
Bounded ==
  pub.type # "Pub" =>
    \A p \in Subs :
      /\ pub.conflate => Len(inbox[p]) <= 1
      /\ pub.conflate /\ times[p] > 0 => inbox[p] \in {<<>>, <<send.id>>}
      /\ ~pub.conflate /\ SndHwm > 0 => Len(inbox[p]) <= SndHwm
=============================================================================
