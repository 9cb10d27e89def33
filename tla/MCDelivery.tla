----------------------------- MODULE MCDelivery -----------------------------
(***************************************************************************)
(* Delivery between sockets beyond the patterns that have a run of their   *)
(* own: distribution to many, routing to one, and ZAP requests.  They      *)
(* share nothing, so a behaviour is one of one part, chosen in the initial *)
(* state, while the others rest.                                           *)
(***************************************************************************)
EXTENDS Naturals, Sequences

CONSTANTS
  Servers, MaxTries,                                           \* ZapAuth
  Subs, Topics, SndHwm, MaxWant, MaxSends,                     \* Distribution
  Setups, Binders, Connectors, NoBinder,                       \* Routing
  PeerHwm, MaxInbox, MaxListed, MaxBinds

ASSUME DeliveryAssumption ==
  /\ MaxTries \in Nat
  /\ Topics # {}
  /\ SndHwm \in Nat /\ MaxWant \in Nat /\ MaxSends \in Nat
  /\ NoBinder \notin Binders \cup Connectors /\ PeerHwm \in Nat /\ MaxBinds \in Nat

VARIABLES
  part,
  bound, peers, pending, inbox, turn, asker, replies, auth, try, verdict, gaveUp,
  pub, want, members, boxes, send, times,
  setup, binds, owner, listed, waiting, link, task, bin, cin, cur, promise

Zap == INSTANCE ZapAuth
Dist == INSTANCE Distribution WITH peers <- members, inbox <- boxes
Routes == INSTANCE Routing

zapVars == <<bound, peers, pending, inbox, turn, asker, replies, auth, try,
             verdict, gaveUp>>
distVars == <<pub, want, members, boxes, send, times>>
routeVars == <<setup, binds, owner, listed, waiting, link, task, bin, cin, cur,
               promise>>

(* A topic and a longer one that it is a prefix of. *)
TwoTopics == {<<"a">>, <<"a", "b">>}

(* A ROUTER with DEALERs that probe, and a SERVER; both greet and say bye. *)
TwoSetups ==
  {[kind |-> "Router", probe |-> TRUE, hello |-> TRUE, bye |-> TRUE],
   [kind |-> "Server", probe |-> FALSE, hello |-> TRUE, bye |-> TRUE]}

Plain == [type |-> "Pub", conflate |-> FALSE, nodrop |-> FALSE]

DeliveryInit ==
  /\ part \in {"zap", "dist", "routes"}
  /\ Zap!Init /\ Dist!Init /\ Routes!Init
  /\ part = "dist" \/ pub = Plain
  /\ part = "routes" \/ setup.kind = "Server"

DeliveryNext ==
  /\ UNCHANGED part
  /\ \/ part = "zap" /\ Zap!Next /\ UNCHANGED <<distVars, routeVars>>
     \/ part = "dist" /\ Dist!Next /\ UNCHANGED <<zapVars, routeVars>>
     \/ part = "routes" /\ Routes!Next /\ UNCHANGED <<zapVars, distVars>>

DeliverySpec ==
  DeliveryInit /\ [][DeliveryNext]_<<part, zapVars, distVars, routeVars>>

-----------------------------------------------------------------------------
(* ZAP (ZapAuth): a handshake is let in only by the answer to its own      *)
(* request, late and repeated answers notwithstanding, and leaves no       *)
(* transient peer behind when it has ended, except one that found the      *)
(* handler and lost it before it connected; the handler can address whom   *)
(* it answers, unless that one gave up.                                    *)
VerdictsAreOwn ==
  part = "zap" =>
    /\ Zap!TypeOK
    /\ Zap!VerdictIsOwn /\ Zap!NobodyLeftBehind /\ Zap!ReplyHasAddressee

(* Distribution: a send that succeeds has reached every subscriber that    *)
(* was connected and interested all through the call (with ZMQ_XPUB_NODROP *)
(* at least somebody), nobody who never was, in order and once per call,   *)
(* so more than once only when the application repeats it, and within the  *)
(* marks, while subscribers come, go and change their minds in mid-call.   *)
DistributedRight ==
  part = "dist" =>
    /\ Dist!TypeOK
    /\ Dist!OkReachesEveryone /\ Dist!OnlyTheInterested /\ Dist!InOrderOncePerCall
    /\ Dist!NoDropDelivers /\ Dist!Bounded

(* Routing: an answer reaches the socket whose message it answers, what a  *)
(* connector sends while it is bound carries its own id, one that has gone *)
(* sends nothing more and the binder is told, and a peer that peer_state   *)
(* calls writable takes the next message.                                  *)
RoutedRight ==
  /\ [](part = "routes" =>
          Routes!TypeOK /\ Routes!LeavingIsTold /\ Routes!PromiseKept)
  /\ Routes!AnswersReachTheAsker /\ Routes!StampedWhileBound /\ Routes!SilentOnceGone
=============================================================================
