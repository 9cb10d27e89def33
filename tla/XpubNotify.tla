----------------------------- MODULE XpubNotify -----------------------------
(***************************************************************************)
(* The subscriptions an XPUB endpoint knows of and the notifications it    *)
(* gives its application: InprocEndpoint in libzmq-core/src/context.rs     *)
(* (xpub_peer_topics, xpub_manual_topics, xpub_last_peer and the replay_*  *)
(* functions) and the callers in socket.rs (subscribe, unsubscribe,        *)
(* try_process_xsub_subscription_send, connect, disconnect, bind).         *)
(*                                                                         *)
(* One XPUB binds one name and XSUB sockets, each in its own thread,       *)
(* connect to it.  A change of a subscription is a chain of critical       *)
(* sections: the XSUB's own set (SubscriptionState, modelled by the number *)
(* of times each topic is subscribed), a look at inproc_endpoints, the     *)
(* topic map, and the push into the XPUB's inbox.  Every section is an     *)
(* action.  connect, disconnect and bind hold inproc_endpoints while they  *)
(* replay the changes of a peer; subscribe and unsubscribe do not.         *)
(*                                                                         *)
(* Topics are opaque: which publications a topic selects is the business   *)
(* of SubscriptionState.  Raw commands are single frames and               *)
(* ZMQ_ONLY_FIRST_SUBSCRIBE is off.  The welcome and the disconnect        *)
(* message are not set.  The XPUB does not unbind.                         *)
(***************************************************************************)
EXTENDS Naturals, Sequences, FiniteSets

CONSTANTS
  Xsub,           \* the XSUB sockets
  Topic,          \* the prefixes they subscribe to
  Xpub,           \* the binding socket
  Nobody,         \* the absent Option<usize>, and the free mutex
  Setups,         \* the setups to choose from
  MaxSubs         \* bound on the subscriptions of a socket to one topic

(* XpubSubscriptionPolicyState. *)
Policy == [verbose_subscribe : BOOLEAN, verbose_unsubscribe : BOOLEAN,
           manual : BOOLEAN, manual_last_value : BOOLEAN]

Setup ==
  [xsubs : SUBSET Xsub,     \* the XSUB sockets that take part
   topics : SUBSET Topic,   \* the topics they use
   policy : Policy,         \* the policy of the XPUB
   verboseUnsub : BOOLEAN,  \* ZMQ_XSUB_VERBOSE_UNSUBSCRIBE of the XSUBs
   bindFirst : BOOLEAN,     \* do they connect only after the bind?
   maxNotes : Nat]          \* calls start only with fewer notifications

ASSUME XpubAssumption ==
  /\ Xpub \notin Xsub
  /\ IsFiniteSet(Xsub)
  /\ Nobody \notin Xsub \cup {Xpub}
  /\ Setups \subseteq Setup
  /\ MaxSubs \in Nat

VARIABLES
  setup,      \* who takes part and with which options, chosen once
  subs,       \* the subscriptions of each XSUB, with their reference counts
  connected,  \* the sockets whose connected_endpoint is set
  waiting,    \* pending_inproc of the name
  bound,      \* is the endpoint in inproc_endpoints?
  peers,      \* the endpoint's peer list
  topics,     \* xpub_peer_topics; {} for an absent topic
  manual,     \* xpub_manual_topics; {} for an absent topic
  lastPeer,   \* xpub_last_peer
  inbox,      \* the notifications the XPUB's application reads, in order
  mutex,      \* who holds inproc_endpoints across actions
  pc,         \* where the thread of each socket is
  op,         \* the call it is in
  peer,       \* the peer whose changes it replays
  todo,       \* the changes it has still to replay
  now,        \* the change it has decided to notify, as a singleton
  taken       \* bind: the waiting sockets still to be added

socketVars == <<setup, subs, connected, waiting>>
endpointVars == <<bound, peers, topics, manual, lastPeer, inbox>>
threadVars == <<mutex, pc, op, peer, todo, now, taken>>
vars == <<socketVars, endpointVars, threadVars>>

Actor == Xsub \cup {Xpub}
Kind == {"sub", "dup", "unsub", "unmatched"}
Change == [kind : Kind, topic : Topic]
Note == [subscribe : BOOLEAN, topic : Topic]

TypeOK ==
  /\ setup \in Setups
  /\ subs \in [Xsub -> [Topic -> Nat]]
  /\ connected \subseteq Xsub
  /\ waiting \subseteq Xsub
  /\ bound \in BOOLEAN
  /\ peers \subseteq Xsub
  /\ topics \in [Topic -> SUBSET Xsub]
  /\ manual \in [Topic -> SUBSET Xsub]
  /\ lastPeer \in Xsub \cup {Nobody}
  /\ inbox \in Seq(Note)
  /\ mutex \in Actor \cup {Nobody}
  /\ pc \in [Actor -> {"idle", "pend", "lookup", "decide", "push", "unpend"}]
  /\ op \in [Actor -> {"none", "change", "join", "leave"}]
  /\ peer \in [Actor -> Xsub \cup {Nobody}]
  /\ todo \in [Actor -> SUBSET Change]
  /\ now \in [Actor -> SUBSET Change]
  /\ taken \subseteq Xsub

Init ==
  /\ setup \in Setups
  /\ subs = [x \in Xsub |-> [t \in Topic |-> 0]]
  /\ connected = {}
  /\ waiting = {}
  /\ bound = FALSE
  /\ peers = {}
  /\ topics = [t \in Topic |-> {}]
  /\ manual = [t \in Topic |-> {}]
  /\ lastPeer = Nobody
  /\ inbox = <<>>
  /\ mutex = Nobody
  /\ pc = [a \in Actor |-> "idle"]
  /\ op = [a \in Actor |-> "none"]
  /\ peer = [a \in Actor |-> Nobody]
  /\ todo = [a \in Actor |-> {}]
  /\ now = [a \in Actor |-> {}]
  /\ taken = {}

-----------------------------------------------------------------------------
(* A thread that is not in a call, with room for more notifications. *)
Ready(a) == pc[a] = "idle" /\ Len(inbox) < setup.maxNotes

(* The thread of a goes to p, in call o about x with the changes c to do. *)
Enter(a, p, o, x, c) ==
  /\ pc' = [pc EXCEPT ![a] = p]
  /\ op' = [op EXCEPT ![a] = o]
  /\ peer' = [peer EXCEPT ![a] = x]
  /\ todo' = [todo EXCEPT ![a] = c]

Return(a) == Enter(a, "idle", "none", Nobody, {})

(* What add_peer replays and remove_peer takes back: iter_prefixes. *)
Held(x) == {t \in Topic : subs[x][t] > 0}

(* Mutant: nothing is replayed. *)
NothingOf(kind, x) == {}

(* The replay of all of them. *)
AllOf(kind, x) == {[kind |-> kind, topic |-> t] : t \in Held(x)}

-----------------------------------------------------------------------------
(* XSUB: changes of a subscription. *)

(* insert reports a first subscription, remove a last one; with the
   verbose option an unsubscription that was not the last is passed on
   too.  {} when the endpoint is not told. *)
InsertChange(x, t) ==
  {[kind |-> IF subs[x][t] = 0 THEN "sub" ELSE "dup", topic |-> t]}

RemoveChange(x, t) ==
  IF subs[x][t] = 1 THEN {[kind |-> "unsub", topic |-> t]}
  ELSE IF setup.verboseUnsub THEN {[kind |-> "unmatched", topic |-> t]} ELSE {}

Inserted(x, t) == [subs EXCEPT ![x][t] = @ + 1]

Removed(x, t) == [subs EXCEPT ![x][t] = IF @ = 0 THEN 0 ELSE @ - 1]

(* The socket's own set has changed; if it is connected the endpoint is
   to be told, for which it has to be looked up first. *)
Tell(x, changes) ==
  LET told == IF x \in connected THEN changes ELSE {} IN
  /\ IF told = {} THEN Return(x) ELSE Enter(x, "lookup", "change", x, told)
  /\ UNCHANGED <<setup, connected, waiting, endpointVars, mutex, now, taken>>

Subscribe(x, t) ==
  /\ Ready(x)
  /\ subs[x][t] < MaxSubs
  /\ subs' = Inserted(x, t)
  /\ Tell(x, InsertChange(x, t))

Unsubscribe(x, t) ==
  /\ Ready(x)
  /\ subs' = Removed(x, t)
  /\ Tell(x, RemoveChange(x, t))

(* The name is looked up under inproc_endpoints, which is released again
   before the endpoint is told. *)
Lookup(x) ==
  /\ pc[x] = "lookup"
  /\ mutex = Nobody
  /\ IF bound THEN Enter(x, "decide", "change", x, todo[x]) ELSE Return(x)
  /\ UNCHANGED <<socketVars, endpointVars, mutex, now, taken>>

(* A raw subscription frame: the lookup comes first, and without the
   endpoint the frame is an ordinary message. *)
RawSubscribe(x, t) ==
  /\ Ready(x)
  /\ x \in connected /\ bound /\ mutex = Nobody
  /\ subs[x][t] < MaxSubs
  /\ subs' = Inserted(x, t)
  /\ Enter(x, "decide", "change", x, InsertChange(x, t))
  /\ UNCHANGED <<setup, connected, waiting, endpointVars, mutex, now, taken>>

RawUnsubscribe(x, t) ==
  /\ Ready(x)
  /\ x \in connected /\ bound /\ mutex = Nobody
  /\ subs' = Removed(x, t)
  /\ IF RemoveChange(x, t) = {} THEN Return(x)
     ELSE Enter(x, "decide", "change", x, RemoveChange(x, t))
  /\ UNCHANGED <<setup, connected, waiting, endpointVars, mutex, now, taken>>

-----------------------------------------------------------------------------
(* The endpoint's side of a change. *)

(* The peers of the topic after the change c of peer p. *)
PeersAfter(c, p) ==
  CASE c.kind = "sub"   -> topics[c.topic] \cup {p}
    [] c.kind = "unsub" -> topics[c.topic] \ {p}
    [] OTHER            -> topics[c.topic]

(* Mutant: nobody is told of the last unsubscription. *)
NotifiesFirstOnly(c, p) == c.kind = "sub" /\ Cardinality(PeersAfter(c, p)) = 1

(* Mutant: every subscription is a first one. *)
NotifyAlways(c, p) == TRUE

(* should_replay_subscription and should_replay_unsubscription. *)
Notifies(c, p) ==
  CASE c.kind = "sub"       -> \/ Cardinality(PeersAfter(c, p)) = 1
                               \/ setup.policy.verbose_subscribe \/ setup.policy.manual
    [] c.kind = "dup"       -> setup.policy.verbose_subscribe \/ setup.policy.manual
    [] c.kind = "unsub"     -> \/ PeersAfter(c, p) = {}
                               \/ setup.policy.verbose_unsubscribe \/ setup.policy.manual
    [] c.kind = "unmatched" -> TRUE

(* An unsubscription from a topic nobody has is the one that is notified
   and does not set xpub_last_peer. *)
SetsLastPeer(c, p) ==
  Notifies(c, p) /\ ~(c.kind = "unsub" /\ topics[c.topic] = {})

(* One change reaches the topic map; whether the application is told is
   decided here, and the map is unlocked.  A replay takes its topics in the
   order they were subscribed to; here in any order. *)
Decide(a) ==
  /\ pc[a] = "decide"
  /\ \E c \in todo[a] :
       /\ topics' = [topics EXCEPT ![c.topic] = PeersAfter(c, peer[a])]
       /\ lastPeer' = IF SetsLastPeer(c, peer[a]) THEN peer[a] ELSE lastPeer
       /\ todo' = [todo EXCEPT ![a] = @ \ {c}]
       /\ \/ /\ Notifies(c, peer[a])
             /\ pc' = [pc EXCEPT ![a] = "push"]
             /\ now' = [now EXCEPT ![a] = {c}]
          \/ /\ ~Notifies(c, peer[a])
             /\ UNCHANGED <<pc, now>>
  /\ UNCHANGED <<socketVars, bound, peers, manual, inbox, mutex, op, peer, taken>>

(* The frame a change is notified with. *)
Frame(c) == [subscribe |-> c.kind \in {"sub", "dup"}, topic |-> c.topic]

(* replay_subscription_change: the frame goes into the XPUB's inbox. *)
Push(a) ==
  /\ pc[a] = "push"
  /\ \E c \in now[a] : inbox' = Append(inbox, Frame(c))
  /\ now' = [now EXCEPT ![a] = {}]
  /\ pc' = [pc EXCEPT ![a] = "decide"]
  /\ UNCHANGED <<socketVars, bound, peers, topics, manual, lastPeer, mutex,
                 op, peer, todo, taken>>

ChangeDone(x) ==
  /\ pc[x] = "decide" /\ op[x] = "change" /\ todo[x] = {}
  /\ Return(x)
  /\ UNCHANGED <<socketVars, endpointVars, mutex, now, taken>>

-----------------------------------------------------------------------------
(* XSUB: connect and disconnect. *)

(* connect finds the endpoint: the socket becomes a peer and its
   subscriptions are replayed, with inproc_endpoints held. *)
Connect(x) ==
  /\ Ready(x)
  /\ x \notin connected /\ bound /\ mutex = Nobody
  /\ peers' = peers \cup {x}
  /\ mutex' = x
  /\ Enter(x, "decide", "join", x, AllOf("sub", x))
  /\ UNCHANGED <<socketVars, bound, topics, manual, lastPeer, inbox, now, taken>>

JoinDone(x) ==
  /\ pc[x] = "decide" /\ op[x] = "join" /\ todo[x] = {}
  /\ connected' = connected \cup {x}
  /\ mutex' = Nobody
  /\ Return(x)
  /\ UNCHANGED <<setup, subs, waiting, endpointVars, now, taken>>

(* connect does not find the endpoint, and then waits for the bind. *)
ConnectMissed(x) ==
  /\ Ready(x)
  /\ x \notin connected /\ ~bound /\ mutex = Nobody
  /\ ~setup.bindFirst
  /\ Enter(x, "pend", "none", Nobody, {})
  /\ UNCHANGED <<socketVars, endpointVars, mutex, now, taken>>

ConnectPend(x) ==
  /\ pc[x] = "pend"
  /\ waiting' = waiting \cup {x}
  /\ connected' = connected \cup {x}
  /\ Return(x)
  /\ UNCHANGED <<setup, subs, endpointVars, mutex, now, taken>>

(* disconnect: the peer list first, with inproc_endpoints held ... *)
Disconnect(x) ==
  /\ Ready(x)
  /\ x \in connected /\ mutex = Nobody
  /\ IF bound /\ x \in peers
     THEN /\ peers' = peers \ {x}
          /\ mutex' = x
          /\ Enter(x, "decide", "leave", x, AllOf("unsub", x))
     ELSE /\ Enter(x, "unpend", "none", Nobody, {})
          /\ UNCHANGED <<peers, mutex>>
  /\ UNCHANGED <<socketVars, bound, topics, manual, lastPeer, inbox, now, taken>>

(* ... with what the application accepted of those subscriptions ... *)
LeaveDone(x) ==
  /\ pc[x] = "decide" /\ op[x] = "leave" /\ todo[x] = {}
  /\ manual' = [t \in Topic |-> IF t \in Held(x) THEN manual[t] \ {x} ELSE manual[t]]
  /\ mutex' = Nobody
  /\ Enter(x, "unpend", "leave", Nobody, {})
  /\ UNCHANGED <<socketVars, bound, peers, topics, lastPeer, inbox, now, taken>>

(* ... then the waiting list.  A socket found in neither stays connected. *)
DisconnectPending(x) ==
  /\ pc[x] = "unpend"
  /\ connected' = IF op[x] = "leave" \/ x \in waiting THEN connected \ {x}
                  ELSE connected
  /\ waiting' = waiting \ {x}
  /\ Return(x)
  /\ UNCHANGED <<setup, subs, endpointVars, mutex, now, taken>>

-----------------------------------------------------------------------------
(* XPUB: bind takes the waiting sockets, adds them one by one and then puts
   the endpoint into inproc_endpoints, which it holds all along. *)
Bind ==
  /\ pc[Xpub] = "idle"
  /\ ~bound /\ mutex = Nobody
  /\ mutex' = Xpub
  /\ taken' = waiting
  /\ waiting' = {}
  /\ Enter(Xpub, "decide", "join", Nobody, {})
  /\ UNCHANGED <<setup, subs, connected, endpointVars, now>>

BindAddPeer(x) ==
  /\ pc[Xpub] = "decide" /\ todo[Xpub] = {}
  /\ x \in taken
  /\ taken' = taken \ {x}
  /\ peers' = peers \cup {x}
  /\ Enter(Xpub, "decide", "join", x, AllOf("sub", x))
  /\ UNCHANGED <<socketVars, bound, topics, manual, lastPeer, inbox, mutex, now>>

BindDone ==
  /\ pc[Xpub] = "decide" /\ todo[Xpub] = {}
  /\ taken = {}
  /\ bound' = TRUE
  /\ mutex' = Nobody
  /\ Return(Xpub)
  /\ UNCHANGED <<socketVars, peers, topics, manual, lastPeer, inbox, now, taken>>

(* subscribe and unsubscribe on a manual XPUB: the application accepts or
   revokes the topic for whoever is the last peer. *)
ManualSubscribe(t) ==
  /\ setup.policy.manual /\ bound
  /\ pc[Xpub] = "idle" /\ lastPeer # Nobody
  /\ manual' = [manual EXCEPT ![t] = @ \cup {lastPeer}]
  /\ UNCHANGED <<socketVars, bound, peers, topics, lastPeer, inbox, threadVars>>

ManualUnsubscribe(t) ==
  /\ setup.policy.manual /\ bound
  /\ pc[Xpub] = "idle" /\ lastPeer # Nobody
  /\ manual' = [manual EXCEPT ![t] = @ \ {lastPeer}]
  /\ UNCHANGED <<socketVars, bound, peers, topics, lastPeer, inbox, threadVars>>

(* A publication: in last-value mode it goes to the last peer only, and
   forgets it; otherwise it changes nothing here. *)
Publish ==
  /\ pc[Xpub] = "idle" /\ bound
  /\ lastPeer' = IF setup.policy.manual /\ setup.policy.manual_last_value THEN Nobody ELSE lastPeer
  /\ UNCHANGED <<socketVars, bound, peers, topics, manual, inbox, threadVars>>

-----------------------------------------------------------------------------
XsubCall(x) ==
  \/ \E t \in setup.topics : \/ Subscribe(x, t)    \/ Unsubscribe(x, t)
                            \/ RawSubscribe(x, t) \/ RawUnsubscribe(x, t)
  \/ Connect(x)
  \/ ConnectMissed(x)
  \/ Disconnect(x)

XsubStep(x) ==
  \/ Lookup(x)
  \/ ChangeDone(x)
  \/ JoinDone(x)
  \/ ConnectPend(x)
  \/ LeaveDone(x)
  \/ DisconnectPending(x)

XpubStep ==
  \/ Bind
  \/ \E x \in Xsub : BindAddPeer(x)
  \/ BindDone
  \/ \E t \in setup.topics : ManualSubscribe(t) \/ ManualUnsubscribe(t)
  \/ Publish

Next ==
  \/ \E x \in setup.xsubs : XsubCall(x) \/ XsubStep(x)
  \/ \E a \in Actor : Decide(a) \/ Push(a)
  \/ XpubStep

Spec == Init /\ [][Next]_vars

-----------------------------------------------------------------------------
(* The thread of x is not in a call, and x is not being added by bind. *)
Settled(x) == pc[x] = "idle" /\ peer[Xpub] # x

Quiet == \A a \in Actor : pc[a] = "idle"

(* How often the application is, or is about to be, told about t. *)
Told(t, s) ==
  LET read == {i \in 1 .. Len(inbox) : inbox[i] = [subscribe |-> s, topic |-> t]}
      sent == {a \in Actor : \E c \in now[a] : Frame(c) = [subscribe |-> s, topic |-> t]}
  IN  Cardinality(read) + Cardinality(sent)

(* What the application believes of t once it has read its inbox. *)
Heard(t) ==
  LET about == {i \in 1 .. Len(inbox) : inbox[i].topic = t}
  IN  \E i \in about : inbox[i].subscribe /\ \A j \in about : j <= i

(***************************************************************************)
(* No subscription is lost: what a settled peer subscribes to is in the    *)
(* topic map of the endpoint, however its subscribe raced with the bind    *)
(* that added it, and whatever the other sockets were doing.               *)
(***************************************************************************)
NoLostSubscription ==
  \A x \in peers, t \in Topic :
    Settled(x) /\ subs[x][t] > 0 => x \in topics[t]

(***************************************************************************)
(* The topic map holds a settled socket for a topic only while it is a     *)
(* peer and subscribes to the topic: unsubscribe and disconnect take back  *)
(* all that subscribe and connect put in.  Setups in which sockets connect *)
(* before the bind are left out: there the race between connect and bind   *)
(* can strand a socket in the waiting list of a name that is bound.        *)
(***************************************************************************)
NoGhostSubscription ==
  setup.bindFirst => \A x \in Xsub, t \in Topic :
    Settled(x) /\ x \in topics[t] => x \in peers /\ subs[x][t] > 0

(***************************************************************************)
(* The endpoint's topic map is exact for every settled socket: nothing is  *)
(* lost on the way into it and nothing stays behind (xpub_peer_topics).    *)
(***************************************************************************)
TopicMapExact == TypeOK /\ NoLostSubscription /\ NoGhostSubscription

Terse ==
  ~setup.policy.verbose_subscribe /\ ~setup.policy.verbose_unsubscribe
    /\ ~setup.policy.manual /\ ~setup.verboseUnsub

(***************************************************************************)
(* Without verbosity the application is told once of every change between  *)
(* "somebody subscribes to t" and "nobody does": none is lost and none is  *)
(* reported twice, though threads decide and push independently.  A        *)
(* subscribe that races with the bind is told twice, so setups in which    *)
(* sockets connect before the bind are left out.                           *)
(***************************************************************************)
EdgesToldOnce ==
  Terse /\ setup.bindFirst => \A t \in Topic :
    Told(t, TRUE) = Told(t, FALSE) + (IF topics[t] # {} THEN 1 ELSE 0)

(* Does a socket that is a peer of the endpoint subscribe to t? *)
Wanted(t) == \E x \in peers : subs[x][t] > 0

(***************************************************************************)
(* An application that has read every notification and has a single XSUB   *)
(* believes somebody subscribes to a topic when the peer does, also when   *)
(* its subscribe raced with the bind and was replayed by both; and only    *)
(* then, if the XSUB connects after the bind.  One that connects while the *)
(* name is being bound can end up in the waiting list of a bound name: it  *)
(* tells the endpoint of its subscriptions without being a peer, and its   *)
(* disconnect does not take them back.                                     *)
(***************************************************************************)
HeardFromOne ==
  Cardinality(setup.xsubs) = 1 /\ Terse /\ Quiet => \A t \in Topic :
    /\ Wanted(t) => Heard(t)
    /\ setup.bindFirst /\ Heard(t) => Wanted(t)
=============================================================================
