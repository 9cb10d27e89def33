------------------------------ MODULE Routing -------------------------------
(***************************************************************************)
(* Sockets that answer by routing id, and the messages that mark a peer's  *)
(* coming and going, over inproc: ROUTER, SERVER and PEER binders with     *)
(* their DEALER, CLIENT and PEER connectors in libzmq-core/src/socket.rs   *)
(* (connect, disconnect, disconnect_peer, peer_state, send,                *)
(* resolve_outboxes, apply_outgoing_routing_id, send_inproc_probe_router,  *)
(* send_inproc_hello_message) and context.rs (remove_peer,                 *)
(* send_disconnect_message, peer_by_id, first_peer).                       *)
(*                                                                         *)
(* One endpoint name, for which two sockets may bind in turn; each socket  *)
(* is used by one thread.  A sending connector looks the name up twice:    *)
(* once to stamp the message with its id, and again to find the inbox it   *)
(* goes to, the stale direct_outbox of its connect being the second        *)
(* choice; other threads bind and unbind between the two.  A push to an    *)
(* inbox already resolved commutes with what these do to the registry, so  *)
(* it is one action with the second look.  The race of connect with bind   *)
(* for the waiting list is the subject of InprocRegistry; here             *)
(* registration is atomic.                                                 *)
(***************************************************************************)
EXTENDS Naturals, FiniteSets, Sequences, SequencesExt

CONSTANTS
  Setups,      \* [kind, probe, hello, bye]: the type of the binders, where a
               \* PEER is a SERVER to this code, and whether ZMQ_PROBE_ROUTER
               \* (DEALER only), the hello and the disconnect message are set
  Binders,     \* the sockets that bind the name
  Connectors,  \* the sockets that connect to it
  NoBinder,    \* the absent Option<socket>, and routing id 0
  PeerHwm,     \* ZMQ_SNDHWM of everybody, 0 for no limit
  MaxInbox,    \* bound on what waits in a binder's inbox
  MaxListed,   \* bound on the entries in a list
  MaxBinds     \* bound on the number of binds

VARIABLES
  setup,    \* the type of the binders and the messages that are set
  binds,    \* how often the name was bound
  owner,    \* inproc_endpoints: who has bound the name
  listed,   \* the peers of the endpoint, in the order they came
  waiting,  \* pending_inproc: who waits for the name
  link,     \* what each connector's InprocState holds
  task,     \* the call each connector is in
  bin,      \* the inbox of each binder
  cin,      \* the number of answers in the inbox of each connector
  cur,      \* the message a binder received last and may answer
  promise   \* history: whom peer_state has just declared writable

rvars == <<setup, binds, owner, listed, waiting, link, task, bin, cin, cur,
           promise>>

(***************************************************************************)
(* A message to a binder: its routing id, and the socket it is really      *)
(* from.  A payload is only told from the binder's own disconnect message. *)
(***************************************************************************)
Note == [bye : BOOLEAN, from : Connectors,
         rid : Connectors \cup {NoBinder}]

(***************************************************************************)
(* on is connected_endpoint.is_some().  History: bound says that the name  *)
(* has been bound ever since the connect, met that the present binder has  *)
(* heard from this connector and not of its leaving.                       *)
(***************************************************************************)
Link == [on : BOOLEAN, direct : Binders \cup {NoBinder}, bound : BOOLEAN,
         met : BOOLEAN]

Task == [pc : {"idle", "stamp", "push"}, what : {"probe", "hello", "data"},
         rid : Connectors \cup {NoBinder}]

Idle == [pc |-> "idle", what |-> "data", rid |-> NoBinder]

TypeOK ==
  /\ setup \in Setups
  /\ owner \in Binders \cup {NoBinder} /\ binds \in 0 .. MaxBinds
  /\ listed \in Seq(Connectors) /\ waiting \in Seq(Connectors)
  /\ link \in [Connectors -> Link]
  /\ task \in [Connectors -> Task]
  /\ bin \in [Binders -> Seq(Note)]
  /\ cin \in [Connectors -> Nat]
  /\ cur \in [Binders -> Note \cup {NoBinder}]
  /\ promise \in Connectors \cup {NoBinder}

IsBound == owner # NoBinder

(* What Vec::retain makes of a list s of which all but c stay: the kept    *)
(* places in their order (a set with this one list).                       *)
Without(s, c) ==
  LET kept == {i \in 1 .. Len(s) : s[i] # c}
      places == 1 .. Cardinality(kept) IN
  {[i \in places |-> s[from[i]]] :
     from \in {f \in [places -> kept] : \A i, j \in places : i < j => f[i] < f[j]}}

Init ==
  /\ setup \in Setups
  /\ owner = NoBinder /\ binds = 0
  /\ listed = <<>> /\ waiting = <<>>
  /\ link = [c \in Connectors |-> [on |-> FALSE, direct |-> NoBinder,
               bound |-> FALSE, met |-> FALSE]]
  /\ task = [c \in Connectors |-> Idle]
  /\ bin = [b \in Binders |-> <<>>]
  /\ cin = [c \in Connectors |-> 0]
  /\ cur = [b \in Binders |-> NoBinder]
  /\ promise = NoBinder

-----------------------------------------------------------------------------
(* The binder's side of the registry. *)

Bind(b) ==
  /\ ~IsBound
  /\ binds < MaxBinds
  /\ binds' = binds + 1
  /\ owner' = b
  /\ listed' = waiting
  /\ waiting' = <<>>
  /\ UNCHANGED <<setup, link, task, bin, cin, cur, promise>>

(* The peer list goes with the endpoint; the connectors are not told. *)
Unbind ==
  /\ IsBound
  /\ owner' = NoBinder
  /\ listed' = <<>>
  /\ link' = [c \in Connectors |->
               [link[c] EXCEPT !.bound = FALSE, !.met = FALSE]]
  /\ promise' = NoBinder
  /\ UNCHANGED <<setup, binds, waiting, task, bin, cin, cur>>

(* disconnect_peer: SERVER and PEER drop a peer without a message. *)
DisconnectPeer(c) ==
  /\ setup.kind # "Router"
  /\ IsBound
  /\ c \in Range(listed)
  /\ listed' \in Without(listed, c)
  /\ link' = [link EXCEPT ![c].met = FALSE]
  /\ promise' = IF promise = c THEN NoBinder ELSE promise
  /\ UNCHANGED <<setup, binds, owner, waiting, task, bin, cin, cur>>

-----------------------------------------------------------------------------
(* A connector comes and goes. *)

(* connect registers with the endpoint or, without one, waits; the probe   *)
(* and then the hello message follow.  A connect that failed at the probe  *)
(* has registered all the same, and the application may try again.         *)
Connect(c) ==
  LET first == IF setup.probe THEN "probe"
               ELSE IF setup.hello THEN "hello" ELSE "data" IN
  /\ task[c].pc = "idle"
  /\ ~link[c].on \/ setup.probe
  /\ Len(listed) < MaxListed /\ Len(waiting) < MaxListed
  /\ IF IsBound
     THEN listed' = Append(listed, c) /\ UNCHANGED waiting
     ELSE waiting' = Append(waiting, c) /\ UNCHANGED listed
  /\ link' = [link EXCEPT ![c] = [on |-> TRUE, direct |-> owner,
                bound |-> IsBound, met |-> @.met]]
  /\ task' = [task EXCEPT ![c] = [Idle EXCEPT !.what = first,
                !.pc = IF first = "data" THEN "idle" ELSE "stamp"]]
  /\ UNCHANGED <<setup, binds, owner, bin, cin, cur, promise>>

(* The disconnect message carries the id of the one who left. *)
Bye(c) == [bye |-> TRUE, from |-> c, rid |-> c]

(* Mutant: disconnect keeps direct_outbox. *)
UnlinkedHalf(c) == [link[c] EXCEPT !.on = FALSE]

(* connected_endpoint and direct_outbox are cleared. *)
Unlinked(c) == [link[c] EXCEPT !.on = FALSE, !.direct = NoBinder]

(* remove_peer reports c to the binder's application. *)
Told(c) == setup.bye /\ c \in Range(listed)

(* disconnect succeeds only when c was listed or waiting; otherwise it is  *)
(* an error that leaves c connected to the name for good.                  *)
Disconnect(c) ==
  /\ task[c].pc = "idle"
  /\ link[c].on
  /\ c \in Range(listed) \cup Range(waiting)
  /\ listed' \in Without(listed, c)
  /\ waiting' \in Without(waiting, c)
  /\ link' = [link EXCEPT ![c] = [Unlinked(c) EXCEPT !.met = @ /\ ~Told(c)]]
  /\ IF Told(c) THEN bin' = [bin EXCEPT ![owner] = Append(@, Bye(c))]
     ELSE UNCHANGED bin
  /\ promise' = IF promise = c THEN NoBinder ELSE promise
  /\ UNCHANGED <<setup, binds, owner, task, cin, cur>>

-----------------------------------------------------------------------------
(* A connector sends: probe, hello or data. *)

(* apply_outgoing_routing_id: the first look at the name. *)
StampOf(c) == IF link[c].on /\ IsBound THEN c ELSE NoBinder

(* The first step of a send, and of the probe and hello of a connect. *)
Stamp(c) ==
  /\ task[c].pc \in {"idle", "stamp"}
  /\ task' = [task EXCEPT ![c].pc = "push", ![c].rid = StampOf(c)]
  /\ UNCHANGED <<setup, binds, owner, listed, waiting, link, bin, cin, cur,
                 promise>>

(* resolve_outboxes of a connector: the second look, then direct_outbox. *)
OutboxOf(c) == IF link[c].on /\ IsBound THEN owner ELSE link[c].direct

(* What the call does after the message it was about. *)
After(c) ==
  IF task[c].what = "probe" /\ setup.hello
  THEN [Idle EXCEPT !.pc = "stamp", !.what = "hello"] ELSE Idle

(* The mark holds for send; probe and hello are pushed without a look. *)
HasRoom(c, q) == task[c].what = "data" /\ PeerHwm > 0 => Len(q) < PeerHwm

Push(c) ==
  LET b == OutboxOf(c) IN
  /\ task[c].pc = "push"
  /\ b # NoBinder
  /\ Len(bin[b]) < MaxInbox
  /\ HasRoom(c, bin[b])
  /\ bin' = [bin EXCEPT ![b] = Append(@,
              [bye |-> FALSE, from |-> c, rid |-> task[c].rid])]
  /\ link' = [link EXCEPT ![c].met = @ \/ (b = owner /\ c \in Range(listed))]
  /\ task' = [task EXCEPT ![c] = After(c)]
  /\ UNCHANGED <<setup, binds, owner, listed, waiting, cin, cur, promise>>

(* EAGAIN: nobody to send to, or full.  connect passes the error of the    *)
(* probe on, having registered, and ignores that of the hello message.     *)
PushFails(c) ==
  LET b == OutboxOf(c) IN
  /\ task[c].pc = "push"
  /\ b # NoBinder => ~HasRoom(c, bin[b])
  /\ task' = [task EXCEPT ![c] = Idle]
  /\ UNCHANGED <<setup, binds, owner, listed, waiting, link, bin, cin, cur,
                 promise>>

RecvReply(c) ==
  /\ cin[c] > 0
  /\ cin' = [cin EXCEPT ![c] = @ - 1]
  /\ UNCHANGED <<setup, binds, owner, listed, waiting, link, task, bin, cur,
                 promise>>

-----------------------------------------------------------------------------
(* A binder receives and answers. *)

Recv(b) ==
  /\ bin[b] # <<>>
  /\ bin' = [bin EXCEPT ![b] = Tail(@)]
  /\ cur' = [cur EXCEPT ![b] = Head(bin[b])]
  /\ UNCHANGED <<setup, binds, owner, listed, waiting, link, task, cin, promise>>

(* resolve_outboxes of a binder: the peer with the id; without one ROUTER  *)
(* takes its first peer and the others nobody.                             *)
Route(rid) ==
  IF rid # NoBinder THEN {rid} \cap Range(listed)
  ELSE IF setup.kind = "Router" /\ listed # <<>> THEN {Head(listed)} ELSE {}

(* The test of peer_state. *)
Writable(c) == PeerHwm = 0 \/ cin[c] < PeerHwm

(* send of the answer to the message received last; EHOSTUNREACH and       *)
(* EAGAIN change nothing.                                                  *)
Answer(c) ==
  /\ IsBound
  /\ cur[owner] # NoBinder
  /\ c \in Route(cur[owner].rid)
  /\ PeerHwm > 0 => cin[c] < PeerHwm
  /\ cin' = [cin EXCEPT ![c] = @ + 1]
  /\ cur' = [cur EXCEPT ![owner] = NoBinder]
  /\ promise' = NoBinder
  /\ UNCHANGED <<setup, binds, owner, listed, waiting, link, task, bin>>

(* peer_state of a ROUTER: is c there and its queue below the mark? *)
PeerState(c) ==
  /\ setup.kind = "Router"
  /\ IsBound
  /\ c \in Range(listed)
  /\ Writable(c)
  /\ promise' = c
  /\ UNCHANGED <<setup, binds, owner, listed, waiting, link, task, bin, cin, cur>>

Next ==
  \/ Unbind
  \/ \E b \in Binders : Bind(b) \/ Recv(b)
  \/ \E c \in Connectors :
       \/ DisconnectPeer(c) \/ Connect(c) \/ Disconnect(c)
       \/ Stamp(c) \/ Push(c) \/ PushFails(c) \/ RecvReply(c)
       \/ Answer(c) \/ PeerState(c)

Spec == Init /\ [][Next]_rvars

-----------------------------------------------------------------------------
(* An answer to a message that came with a routing id goes to the socket   *)
(* that sent the message, and SERVER and PEER answer no other; a ROUTER's  *)
(* answer can go to somebody else only when the message was stamped while  *)
(* the name was not bound (resolve_outboxes, peer_by_id, first_peer).      *)
AnswersReachTheAsker ==
  [][\A c \in Connectors :
       cin'[c] > cin[c] /\ (cur[owner].rid # NoBinder \/ setup.kind # "Router")
         => cur[owner].from = c]_rvars

(* The messages a step adds to the inboxes of the binders. *)
Pushed == {Last(bin'[b]) : b \in {d \in Binders : Len(bin'[d]) > Len(bin[d])}}

(* As long as the name has been bound ever since a socket connected, its   *)
(* probe, hello and data carry its id, so that they can be answered        *)
(* (apply_outgoing_routing_id).                                            *)
StampedWhileBound ==
  [][\A m \in Pushed : link[m.from].bound => m.rid = m.from]_rvars

(* A socket that has disconnected is silent until it connects again,       *)
(* whatever was bound, unbound or dropped in between (Socket::disconnect). *)
SilentOnceGone ==
  [][\A m \in Pushed : m.bye \/ link[m.from].on]_rvars

(* A binder with a disconnect message set hears of every peer it has heard *)
(* from that it left, unless it let go of the peer itself: whoever it has  *)
(* met and not lost is connected (remove_peer, send_disconnect_message).   *)
LeavingIsTold == setup.bye => \A c \in Connectors : link[c].met => link[c].on

(* When peer_state has said that a peer is writable, the next send to it   *)
(* finds it listed and below the mark, however its reader and the other    *)
(* sockets proceed meanwhile (peer_state, send).                           *)
PromiseKept ==
  promise # NoBinder =>
    /\ promise \in Range(listed)
    /\ PeerHwm = 0 \/ cin[promise] < PeerHwm
=============================================================================
