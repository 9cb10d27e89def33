------------------------------- MODULE ReqRep -------------------------------
(***************************************************************************)
(* REQ sockets that talk to one REP socket over inproc: the REQ/REP state  *)
(* machine (PatternState) and the routing of replies in                    *)
(* libzmq-core/src/socket.rs.                                              *)
(*                                                                         *)
(* The REP is bound for the whole behaviour and the REQ sockets come and   *)
(* go; how they find each other is InprocRegistry's business.  Every       *)
(* socket has one inbox, a queue of frames that all its peers push into.   *)
(* send and recv never wait: a call that would returns EAGAIN, or EFSM out *)
(* of turn, and changes nothing, so it has no action.  A call touches one  *)
(* queue, under its mutex, and otherwise the caller's own state, so it is  *)
(* one action.                                                             *)
(*                                                                         *)
(* A frame is tagged with the request it belongs to, and a reply with the  *)
(* requests it answers: the ones whose frames the REP read for it.  The    *)
(* program has no such tags; tags are what the properties are about.       *)
(***************************************************************************)
EXTENDS Naturals, Sequences, FiniteSets

CONSTANTS
  Req,       \* the REQ sockets
  Rep,       \* the REP socket
  NoReq,     \* the absent last_recv_routing_id
  Relaxed,   \* ZMQ_REQ_RELAXED of the REQ sockets
  Leaves,    \* do REQ sockets disconnect?
  Hwm,       \* ZMQ_SNDHWM of every socket
  MaxParts,  \* bound on the frames of a message
  Tags       \* requests are numbered modulo this

ASSUME ReqRepAssumption ==
  /\ Rep \notin Req
  /\ NoReq \notin Req
  /\ Relaxed \in BOOLEAN
  /\ Leaves \in BOOLEAN
  /\ Hwm \in Nat \ {0}
  /\ MaxParts \in Nat \ {0}
  /\ Tags \in Nat \ {0, 1}

VARIABLES
  linked,    \* the peers of the REP's endpoint
  state,     \* pattern_state: may the socket send, or receive?
  repInbox,  \* the inbox of the REP
  reqInbox,  \* the inbox of each REQ
  lastId,    \* the REP's last_recv_routing_id
  parts,     \* the frames sent so far of the message being sent
  asked,     \* the tag of the latest request of each REQ
  reading    \* the requests whose frames the REP has read for its next reply

vars == <<linked, state, repInbox, reqInbox, lastId, parts, asked, reading>>

Tag == Req \X (0 .. Tags - 1)

TypeOK ==
  /\ linked \subseteq Req
  /\ state \in [Req \cup {Rep} -> {"send", "recv"}]
  /\ repInbox \in Seq([from : Req, tag : Tag, more : BOOLEAN])
  /\ reqInbox \in [Req -> Seq([answers : SUBSET Tag, more : BOOLEAN])]
  /\ lastId \in Req \cup {NoReq}
  /\ parts \in [Req \cup {Rep} -> 0 .. MaxParts - 1]
  /\ asked \in [Req -> 0 .. Tags - 1]
  /\ reading \subseteq Tag
  /\ Len(repInbox) <= Hwm
  /\ \A r \in Req : Len(reqInbox[r]) <= Hwm

Init ==
  /\ linked = {}
  /\ state = [s \in Req \cup {Rep} |-> IF s = Rep THEN "recv" ELSE "send"]
  /\ repInbox = <<>>
  /\ reqInbox = [r \in Req |-> <<>>]
  /\ lastId = NoReq
  /\ parts = [s \in Req \cup {Rep} |-> 0]
  /\ asked = [r \in Req |-> 0]
  /\ reading = {}

-----------------------------------------------------------------------------
(* connect, and disconnect: the REQ joins and leaves the REP's peer list. *)
Connect(r) ==
  /\ r \notin linked
  /\ linked' = linked \cup {r}
  /\ UNCHANGED <<state, repInbox, reqInbox, lastId, parts, asked, reading>>

Disconnect(r) ==
  /\ Leaves
  /\ r \in linked
  /\ linked' = linked \ {r}
  /\ UNCHANGED <<state, repInbox, reqInbox, lastId, parts, asked, reading>>

-----------------------------------------------------------------------------
(* Mutant: a REQ may send at any time. *)
SendsAtAnyTime(s) == TRUE

(* ensure_can_send_for_pattern: only a relaxed REQ sends out of turn. *)
CanSend(s) == state[s] = "send" \/ (s # Rep /\ Relaxed)

(* The queue is below the high-water mark. *)
HasRoom(queue) == Len(queue) < Hwm

(* Mutant: the turn passes with every frame. *)
AfterAnySend(s, more) == [state EXCEPT ![s] = "recv"]

(* after_pattern_send: the turn passes with the last frame. *)
AfterSend(s, more) ==
  [state EXCEPT ![s] = IF @ = "send" /\ more THEN "send" ELSE "recv"]

(* Mutant: the turn passes with every frame. *)
AfterAnyRecv(s, more) == [state EXCEPT ![s] = "send"]

(* after_pattern_recv. *)
AfterRecv(s, more) == [state EXCEPT ![s] = IF more THEN "recv" ELSE "send"]

(* The application sends a message of at most MaxParts frames. *)
NextPart(s, more) ==
  /\ more => parts[s] + 1 < MaxParts
  /\ parts' = [parts EXCEPT ![s] = IF more THEN @ + 1 ELSE 0]

(* The tag of the frame that r sends next: a first frame is a new request. *)
TagOf(r) == IF parts[r] = 0 THEN (asked[r] + 1) % Tags ELSE asked[r]

(***************************************************************************)
(* A REQ sends a frame.  The endpoint it is connected to is a REP's, so    *)
(* apply_outgoing_routing_id marks the frame with the sender's id.         *)
(***************************************************************************)
ReqSend(r, more) ==
  /\ CanSend(r)
  /\ r \in linked
  /\ HasRoom(repInbox)
  /\ NextPart(r, more)
  /\ asked' = [asked EXCEPT ![r] = TagOf(r)]
  /\ repInbox' = Append(repInbox, [from |-> r, tag |-> <<r, TagOf(r)>>, more |-> more])
  /\ state' = AfterSend(r, more)
  /\ UNCHANGED <<linked, reqInbox, lastId, reading>>

(* The REP receives a frame and remembers its sender. *)
RepRecv ==
  /\ state[Rep] = "recv"
  /\ repInbox # <<>>
  /\ LET frame == Head(repInbox) IN
       /\ lastId' = frame.from
       /\ reading' = reading \cup {frame.tag}
       /\ state' = AfterRecv(Rep, frame.more)
  /\ repInbox' = Tail(repInbox)
  /\ UNCHANGED <<linked, reqInbox, parts, asked>>

(* Mutant: the reply goes to the first peer in the list. *)
AnyPeer == IF linked = {} THEN NoReq ELSE CHOOSE r \in linked : TRUE

(* apply_reply_routing_id: the reply goes back to the last sender. *)
ReplyTo == lastId

(* The REP sends a frame of its reply, to a peer that is still there. *)
RepSend(more) ==
  /\ CanSend(Rep)
  /\ ReplyTo \in linked
  /\ HasRoom(reqInbox[ReplyTo])
  /\ NextPart(Rep, more)
  /\ reqInbox' = [reqInbox EXCEPT ![ReplyTo] =
                    Append(@, [answers |-> reading, more |-> more])]
  /\ state' = AfterSend(Rep, more)
  /\ reading' = IF more THEN reading ELSE {}
  /\ UNCHANGED <<linked, repInbox, lastId, asked>>

(* A REQ receives a frame. *)
ReqRecv(r) ==
  /\ state[r] = "recv"
  /\ reqInbox[r] # <<>>
  /\ state' = AfterRecv(r, Head(reqInbox[r]).more)
  /\ reqInbox' = [reqInbox EXCEPT ![r] = Tail(@)]
  /\ UNCHANGED <<linked, repInbox, lastId, parts, asked, reading>>

-----------------------------------------------------------------------------
ReqStep(r) ==
  \/ Connect(r)
  \/ Disconnect(r)
  \/ \E more \in BOOLEAN : ReqSend(r, more)
  \/ ReqRecv(r)

RepStep == RepRecv \/ \E more \in BOOLEAN : RepSend(more)

Next == (\E r \in Req : ReqStep(r)) \/ RepStep

Spec == Init /\ [][Next]_vars

(* The applications go on receiving, and answer what they received. *)
Fairness ==
  /\ WF_vars(RepRecv)
  /\ WF_vars(\E more \in BOOLEAN : RepSend(more))
  /\ \A r \in Req : WF_vars(ReqRecv(r))

FairSpec == Spec /\ Fairness

-----------------------------------------------------------------------------
(* The requests of r that wait at the REP, and the replies that wait at r,
   each counted by its last frame. *)
RequestsOf(r) ==
  Cardinality({i \in 1 .. Len(repInbox) : repInbox[i].from = r /\ ~repInbox[i].more})
RepliesTo(r) == Cardinality({i \in 1 .. Len(reqInbox[r]) : ~reqInbox[r][i].more})
ServedNow(r) == IF state[Rep] = "send" /\ lastId = r THEN 1 ELSE 0

(***************************************************************************)
(* A strict REQ that waits for a reply has exactly one request on its way: *)
(* queued at the REP, being answered by it, or answered with the reply     *)
(* queued at the REQ; a REQ whose turn it is to send has none.  So no      *)
(* request is dropped, none is answered twice, and no reply is left over,  *)
(* even when sockets leave and come back.                                  *)
(***************************************************************************)
OneOutstanding ==
  ~Relaxed => \A r \in Req :
    RequestsOf(r) + ServedNow(r) + RepliesTo(r)
      = IF state[r] = "recv" THEN 1 ELSE 0

(***************************************************************************)
(* The traceback: a reply goes to a socket that asked, one of those whose  *)
(* requests it answers, however the frames of the requests mix in the      *)
(* REP's inbox and whoever left before the reply was sent.                 *)
(***************************************************************************)
TracedBack ==
  \A r \in Req : \A i \in 1 .. Len(reqInbox[r]) :
    \E tag \in reqInbox[r][i].answers : tag[1] = r

(***************************************************************************)
(* Requests are atomic too: a reply answers nobody else's request than     *)
(* that of the socket it goes to.                                          *)
(***************************************************************************)
ReplyToRequester ==
  \A r \in Req : \A i \in 1 .. Len(reqInbox[r]) :
    \A tag \in reqInbox[r][i].answers : tag[1] = r

(***************************************************************************)
(* The reply a strict REQ receives answers the latest request it sent:     *)
(* none is left over from before a disconnect.                             *)
(***************************************************************************)
LatestAnswered ==
  ~Relaxed => \A r \in Req : state[r] = "recv" /\ reqInbox[r] # <<>> =>
    <<r, asked[r]>> \in Head(reqInbox[r]).answers

(***************************************************************************)
(* Once every socket has come to stay, every REQ that waits for a reply    *)
(* gets it: whatever they left behind when they came and went before, the  *)
(* queues are drained in order and nobody waits for anybody for ever.      *)
(***************************************************************************)
EveryRequestAnswered ==
  <>[](linked = Req) => \A r \in Req : state[r] = "recv" ~> state[r] = "send"

(***************************************************************************)
(* A REP that has received a request comes back to receiving: a send that  *)
(* goes on being called succeeds in the end.                               *)
(***************************************************************************)
RepReceivesAgain == state[Rep] = "send" ~> state[Rep] = "recv"
=============================================================================
