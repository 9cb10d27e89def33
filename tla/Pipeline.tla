------------------------------ MODULE Pipeline ------------------------------
(***************************************************************************)
(* PUSH sockets that feed PULL sockets over inproc: how send picks a queue *)
(* (try_send_inproc_fast, resolve_outboxes, InprocEndpoint::next_peer),    *)
(* when it refuses, and what asking for ZMQ_EVENTS does to that choice, in *)
(* libzmq-core/src/socket.rs and context.rs.                               *)
(*                                                                         *)
(* Either one PUSH binds and the PULL sockets connect to it, or one PULL   *)
(* binds and the PUSH sockets are connected to it.  The bound endpoint     *)
(* stays; finding it is InprocRegistry's business.  A frame is appended to *)
(* the PULL's inbox under the mutex of that queue, with the high-water     *)
(* mark tested under the same mutex, so a send is one action.              *)
(*                                                                         *)
(* Who takes part, who binds, the options of the sockets and the habits of *)
(* the applications are the setup, which is chosen once.                   *)
(*                                                                         *)
(* A frame is tagged with its sender, the number of its message and its    *)
(* place in the message; of these the program has only the more flag.      *)
(***************************************************************************)
EXTENDS Naturals, Sequences, FiniteSets

CONSTANTS
  Push,       \* the PUSH sockets
  Pull,       \* the PULL sockets
  NoFrame,    \* nothing received yet
  Setups,     \* the setups to choose from
  MaxParts,   \* bound on the frames of a message
  MaxQueue,   \* bound on a queue without a high-water mark
  Tags,       \* messages are numbered modulo this
  Wrap        \* next_peer is counted modulo this, which every number of
              \* peers divides, so that it looks like a counter without end

Setup ==
  [push : SUBSET Push,      \* the PUSH sockets that take part
   pull : SUBSET Pull,      \* the PULL sockets that take part
   pushBinds : BOOLEAN,     \* does the PUSH bind, or the PULL?
   tuned : BOOLEAN,         \* has ZMQ_SNDHWM or ZMQ_CONFLATE been set?
   conflate : BOOLEAN,      \* ZMQ_CONFLATE of the PUSH sockets
   hwm : Nat \ {0},         \* ZMQ_SNDHWM of the PUSH sockets
   parts : 1 .. MaxParts,   \* the longest message they send, in frames
   polls : BOOLEAN,         \* do they ask for ZMQ_EVENTS?
   leaves : BOOLEAN,        \* do PULL sockets disconnect?
   diligent : SUBSET Pull]  \* the PULL sockets that go on receiving

Frame == [from : Push, number : 0 .. Tags - 1, part : 0 .. MaxParts - 1, more : BOOLEAN]

ASSUME PipelineAssumption ==
  /\ IsFiniteSet(Push) /\ IsFiniteSet(Pull)
  /\ NoFrame \notin Frame
  /\ Setups \subseteq Setup
  /\ \A s \in Setups :
       /\ s.conflate => s.tuned
       /\ s.push # {} /\ s.pull # {}
       /\ Cardinality(IF s.pushBinds THEN s.push ELSE s.pull) = 1
  /\ MaxParts \in Nat \ {0} /\ MaxQueue \in Nat
  /\ Tags \in Nat \ {0} /\ Wrap \in Nat \ {0}
  /\ \A n \in 1 .. Cardinality(Pull) : Wrap % n = 0

VARIABLES
  setup,     \* who takes part, and how
  peers,     \* the peer list of the PUSH's endpoint, in order
  nextPeer,  \* its next_peer counter
  inbox,     \* the inbox of each PULL
  parts,     \* the frames sent so far of the message each PUSH is sending
  number,    \* the number of that message
  ret,       \* what the last send of each PUSH returned
  share,     \* messages given to each PULL since the peer list changed, less
             \* those that everybody got; 2 stands for two or more
  lastRead   \* the frame each PULL received last

vars == <<setup, peers, nextPeer, inbox, parts, number, ret, share, lastRead>>

TypeOK ==
  /\ setup \in Setups
  /\ peers \in Seq(Pull)
  /\ nextPeer \in 0 .. Wrap - 1
  /\ inbox \in [Pull -> Seq(Frame)]
  /\ parts \in [Push -> 0 .. MaxParts - 1]
  /\ number \in [Push -> 0 .. Tags - 1]
  /\ ret \in [Push -> {"none", "ok", "again"}]
  /\ share \in [Pull -> 0 .. 2]
  /\ lastRead \in [Pull -> Frame \cup {NoFrame}]

Init ==
  /\ setup \in Setups
  /\ peers = <<>>
  /\ nextPeer = 0
  /\ inbox = [q \in Pull |-> <<>>]
  /\ parts = [p \in Push |-> 0]
  /\ number = [p \in Push |-> 0]
  /\ ret = [p \in Push |-> "none"]
  /\ share = [q \in Pull |-> 0]
  /\ lastRead = [q \in Pull |-> NoFrame]

-----------------------------------------------------------------------------
Joined(q) == \E i \in 1 .. Len(peers) : peers[i] = q

(* A PULL is listed once, so that retain drops one peer. *)
PeersWithout(i) == [j \in 1 .. Len(peers) - 1 |-> peers[IF j < i THEN j ELSE j + 1]]

(* add_peer and remove_peer. *)
Connect(q) ==
  /\ setup.pushBinds
  /\ q \in setup.pull /\ ~Joined(q)
  /\ peers' = Append(peers, q)
  /\ share' = [r \in Pull |-> 0]
  /\ UNCHANGED <<setup, nextPeer, inbox, parts, number, ret, lastRead>>

Disconnect(q) ==
  /\ setup.pushBinds /\ setup.leaves
  /\ \E i \in 1 .. Len(peers) : peers[i] = q /\ peers' = PeersWithout(i)
  /\ share' = [r \in Pull |-> 0]
  /\ UNCHANGED <<setup, nextPeer, inbox, parts, number, ret, lastRead>>

-----------------------------------------------------------------------------
(* Mutant: the counter stands still. *)
StayAtPeer == nextPeer

(* next_peer counts every call, not every message. *)
AdvancePeer == (nextPeer + 1) % Wrap

(* The queues a send can end up in: next_peer's when the PUSH is bound,
   the binder's otherwise. *)
Outbox(q) ==
  IF setup.pushBinds THEN peers # <<>> /\ q = peers[(nextPeer % Len(peers)) + 1]
  ELSE q \in setup.pull

(* Mutant: the high-water mark is off by one. *)
RoomAndOne(queue) == setup.conflate \/ ~setup.tuned \/ Len(queue) <= setup.hwm

(* Only the slow path looks at the high-water mark. *)
Room(queue) == setup.conflate \/ ~setup.tuned \/ Len(queue) < setup.hwm

(* Mutant: the frame goes to the front. *)
QueuedFirst(queue, f) == <<f>> \o queue

(* The queue after the frame f: conflate keeps the newest frame only. *)
Queued(queue, f) == IF setup.conflate THEN <<f>> ELSE Append(queue, f)

(* The message counts when its last frame is given away. *)
CountedFor(q) ==
  LET given == [share EXCEPT ![q] = IF @ = 2 THEN 2 ELSE @ + 1] IN
  IF \A i \in 1 .. Len(peers) : given[peers[i]] > 0
  THEN [r \in Pull |-> IF Joined(r) THEN given[r] - 1 ELSE 0]
  ELSE given

(* Single frames need no number. *)
NumberAfter(n) == IF setup.parts = 1 THEN n ELSE (n + 1) % Tags

(* A frame is accepted by the queue that was picked for it. *)
Send(p, q, more) ==
  /\ Outbox(q)
  /\ Room(inbox[q])
  /\ setup.tuned \/ Len(inbox[q]) < MaxQueue
  /\ more => parts[p] + 1 < setup.parts
  /\ inbox' = [inbox EXCEPT ![q] = Queued(@, [from |-> p, number |-> number[p],
                                              part |-> parts[p], more |-> more])]
  /\ parts' = [parts EXCEPT ![p] = IF more THEN @ + 1 ELSE 0]
  /\ number' = [number EXCEPT ![p] = IF more THEN @ ELSE NumberAfter(@)]
  /\ ret' = [ret EXCEPT ![p] = "ok"]
  /\ nextPeer' = IF setup.pushBinds THEN AdvancePeer ELSE nextPeer
  /\ share' = IF setup.pushBinds /\ ~more THEN CountedFor(q) ELSE share
  /\ UNCHANGED <<setup, peers, lastRead>>

(* The queue that was picked is full: EAGAIN, but the pick is not undone. *)
SendAgain(p, q) ==
  /\ Outbox(q)
  /\ ~Room(inbox[q])
  /\ ret' = [ret EXCEPT ![p] = "again"]
  /\ nextPeer' = IF setup.pushBinds THEN AdvancePeer ELSE nextPeer
  /\ UNCHANGED <<setup, peers, inbox, parts, number, share, lastRead>>

(* events: ZMQ_POLLOUT is found out by picking a queue. *)
Poll(p) ==
  /\ setup.polls
  /\ setup.pushBinds /\ peers # <<>>
  /\ nextPeer' = AdvancePeer
  /\ UNCHANGED <<setup, peers, inbox, parts, number, ret, share, lastRead>>

Recv(q) ==
  /\ inbox[q] # <<>>
  /\ lastRead' = [lastRead EXCEPT ![q] = Head(inbox[q])]
  /\ inbox' = [inbox EXCEPT ![q] = Tail(@)]
  /\ UNCHANGED <<setup, peers, nextPeer, parts, number, ret, share>>

-----------------------------------------------------------------------------
TrySend(p) ==
  \E q \in Pull : SendAgain(p, q) \/ \E more \in BOOLEAN : Send(p, q, more)

Next ==
  \/ \E q \in Pull : Connect(q) \/ Disconnect(q) \/ Recv(q)
  \/ \E p \in setup.push : TrySend(p) \/ Poll(p)

Spec == Init /\ [][Next]_vars

(* PUSH applications retry, PULL applications connect, and the diligent
   ones go on receiving. *)
Fairness ==
  /\ \A p \in Push : WF_vars(p \in setup.push /\ TrySend(p))
  /\ \A q \in Pull : WF_vars(Connect(q))
  /\ \A q \in Pull : WF_vars(q \in setup.diligent /\ Recv(q))

FairSpec == Spec /\ Fairness

-----------------------------------------------------------------------------
(* What a PULL has received last and will receive next. *)
Stream(q) == (IF lastRead[q] = NoFrame THEN <<>> ELSE <<lastRead[q]>>) \o inbox[q]

Follows(f, g) ==
  IF f.more THEN g.from = f.from /\ g.number = f.number /\ g.part = f.part + 1
  ELSE g.part = 0

(***************************************************************************)
(* The load is balanced: while the peer list stays the same, no PULL gets  *)
(* two messages more than another, as long as no message is refused, the   *)
(* messages are single frames and the application does not poll: next_peer *)
(* moves with every frame and every ZMQ_EVENTS.                            *)
(***************************************************************************)
PlainlyBalanced ==
  (setup.tuned => setup.conflate) /\ setup.parts = 1 /\ ~setup.polls =>
    \A i, j \in 1 .. Len(peers) : share[peers[i]] <= share[peers[j]] + 1

(***************************************************************************)
(* No queue grows beyond the high-water mark that was set on the sockets   *)
(* that feed it, although they share it.                                   *)
(***************************************************************************)
BelowHwm ==
  /\ TypeOK
  /\ setup.tuned => \A q \in Pull : Len(inbox[q]) <= setup.hwm

(***************************************************************************)
(* Multipart messages are atomic: every PULL receives the frames of one    *)
(* message after the other, each message whole.                            *)
(***************************************************************************)
MessagesWhole ==
  ~setup.conflate =>
    \A q \in Pull : \A i \in 1 .. Len(Stream(q)) - 1 :
      Follows(Stream(q)[i], Stream(q)[i + 1])

(***************************************************************************)
(* The same between one PUSH and one PULL, whatever else happens: EAGAIN   *)
(* in mid-message, polling, a disconnect and a reconnect.                  *)
(***************************************************************************)
WholeBetweenTwo ==
  Cardinality(setup.push) = 1 /\ Cardinality(setup.pull) = 1 => MessagesWhole

(***************************************************************************)
(* PUSH sockets that retry get through, again and again, as long as one of *)
(* their peers goes on receiving or they conflate: a peer that has stopped *)
(* does not block them.                                                    *)
(***************************************************************************)
SendGetsThrough ==
  setup.tuned /\ ~setup.polls /\ ~setup.leaves
    /\ (setup.conflate \/ setup.diligent \cap setup.pull # {})
      => []<>(\E p \in setup.push : ret[p] = "ok")
=============================================================================
