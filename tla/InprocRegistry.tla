--------------------------- MODULE InprocRegistry ---------------------------
(***************************************************************************)
(* The inproc name registry of a context and the part of each socket that  *)
(* refers to it: libzmq-core/src/context.rs (ContextShared::bind_inproc,   *)
(* connect_inproc, unbind_inproc, disconnect_inproc, InprocEndpoint's peer *)
(* list) and the inproc branches of Socket::bind, unbind, connect,         *)
(* disconnect and disconnect_peer in socket.rs.                            *)
(*                                                                         *)
(* Each socket belongs to one thread; the threads meet in the two mutexes  *)
(* of the context, inproc_endpoints and pending_inproc.  An action is one  *)
(* critical section of these.  bind holds the first for its whole length   *)
(* and takes the second inside it, unbind takes the first only, but        *)
(* connect and disconnect release the first before they take the second,   *)
(* so each of them is two actions when both sections run.  A socket's own  *)
(* InprocState is touched by its thread alone and is updated in the action *)
(* that precedes the update in the code.  Calls that return an error and   *)
(* change nothing are stuttering steps and have no action.                 *)
(*                                                                         *)
(* Nothing here depends on the order of a peer list, so a list is the      *)
(* number of entries each socket has in it: a socket that connects twice   *)
(* has two.  Messages (subscription replay, welcome, probe, hello and      *)
(* disconnect messages, monitor events) leave the registry alone and are   *)
(* not part of this module.                                                *)
(***************************************************************************)
EXTENDS Naturals, Sequences

CONSTANTS
  Socket,        \* the sockets of the context
  Name,          \* inproc endpoint names
  NoSocket,      \* the absent Option<socket>
  NoName,        \* the absent Option<String>
  SockType,      \* SockType[s]: the type s was created with
  Exclusive,     \* do applications bind, and connect, a socket only when it
                 \* is not bound, or connected, already?
  MaxEndpoints,  \* bound on the number of successful binds
  MaxLinks       \* bound on the entries of one socket in one list

ASSUME RegistryAssumption ==
  /\ NoSocket \notin Socket
  /\ NoName \notin Name
  /\ SockType \in [Socket -> STRING]
  /\ Exclusive \in BOOLEAN
  /\ MaxEndpoints \in Nat
  /\ MaxLinks \in Nat

VARIABLES
  heap,       \* every InprocEndpoint made so far; an index is an Arc of it
  endpoints,  \* inproc_endpoints: name -> index into heap, 0 when absent
  pending,    \* pending_inproc: name -> entries of each waiting socket
  connected,  \* connected_endpoint of each socket
  direct,     \* direct_outbox of each socket: the socket whose inbox it is
  boundName,  \* bound_endpoint_name of each socket
  bound,      \* bound_endpoint of each socket: index into heap, 0 for None
  pc,         \* where the thread of each socket is between critical sections
  arg,        \* the name the interrupted call is about
  removed     \* disconnect_inproc's local variable

local == <<connected, direct, boundName, bound>>
vars == <<heap, endpoints, pending, connected, direct, boundName, bound,
          pc, arg, removed>>

Endpoint == [name : Name, owner : Socket, peers : [Socket -> Nat]]

TypeOK ==
  /\ heap \in Seq(Endpoint)
  /\ endpoints \in [Name -> 0 .. Len(heap)]
  /\ pending \in [Name -> [Socket -> Nat]]
  /\ connected \in [Socket -> Name \cup {NoName}]
  /\ direct \in [Socket -> Socket \cup {NoSocket}]
  /\ boundName \in [Socket -> Name \cup {NoName}]
  /\ bound \in [Socket -> 0 .. Len(heap)]
  /\ pc \in [Socket -> {"idle", "pend", "unpend"}]
  /\ arg \in [Socket -> Name \cup {NoName}]
  /\ removed \in [Socket -> BOOLEAN]

-----------------------------------------------------------------------------
(* inproc_types_compatible. *)
CompatibleTypes ==
  LET oneWay == {<<"Push", "Pull">>, <<"Dealer", "Router">>, <<"Req", "Rep">>,
                 <<"Server", "Client">>, <<"Pub", "Sub">>, <<"Xpub", "Xsub">>,
                 <<"Radio", "Dish">>, <<"Scatter", "Gather">>}
      same == {<<"Pair", "Pair">>, <<"Stream", "Stream">>,
               <<"Channel", "Channel">>, <<"Peer", "Peer">>}
  IN  same \cup oneWay \cup {<<p[2], p[1]>> : p \in oneWay}

Compatible(a, b) == <<SockType[a], SockType[b]>> \in CompatibleTypes

NoPeers == [s \in Socket |-> 0]
IsBound(n) == endpoints[n] # 0

(* The endpoints when h has the peers p. *)
WithPeers(h, p) == [heap EXCEPT ![h].peers = p]

(* Mutant: bind overwrites an endpoint of the same name. *)
NameIsAlwaysFree(n) == TRUE

(* The name is free: bind_inproc's contains_key test. *)
NameIsFree(n) == ~IsBound(n)

(* The call of s returns: its local variables are gone. *)
Finish(s) ==
  /\ pc' = [pc EXCEPT ![s] = "idle"]
  /\ arg' = [arg EXCEPT ![s] = NoName]
  /\ removed' = [removed EXCEPT ![s] = FALSE]

(* May the application bind, or connect, s now? *)
MayBind(s) == Exclusive => boundName[s] = NoName
MayConnect(s) == Exclusive => connected[s] = NoName

Init ==
  /\ heap = <<>>
  /\ endpoints = [n \in Name |-> 0]
  /\ pending = [n \in Name |-> NoPeers]
  /\ connected = [s \in Socket |-> NoName]
  /\ direct = [s \in Socket |-> NoSocket]
  /\ boundName = [s \in Socket |-> NoName]
  /\ bound = [s \in Socket |-> 0]
  /\ pc = [s \in Socket |-> "idle"]
  /\ arg = [s \in Socket |-> NoName]
  /\ removed = [s \in Socket |-> FALSE]

-----------------------------------------------------------------------------
(* Mutant: the pending list is dropped instead of being connected. *)
PeersWaitingLost(n) == NoPeers

(* What the new endpoint starts with: everyone waiting for the name. *)
PeersWaiting(n) == pending[n]

(* Mutant: the list is read and left where it is. *)
PendingStays(n) == pending

(* bind takes the list of the name out of pending_inproc. *)
PendingTaken(n) == [pending EXCEPT ![n] = NoPeers]

(* Every waiting socket passes add_peer's test against the binder s. *)
AllCompatible(s, n) ==
  \A t \in Socket : pending[n][t] > 0 => Compatible(s, t)

(***************************************************************************)
(* bind: the endpoint is made, takes over the list waiting for its name    *)
(* and is inserted, all under inproc_endpoints.  A socket that is bound    *)
(* already forgets its earlier endpoint, which stays in the registry.      *)
(***************************************************************************)
Bind(s, n) ==
  /\ pc[s] = "idle"
  /\ MayBind(s)
  /\ Len(heap) < MaxEndpoints
  /\ NameIsFree(n)
  /\ AllCompatible(s, n)
  /\ heap' = Append(heap, [name |-> n, owner |-> s, peers |-> PeersWaiting(n)])
  /\ endpoints' = [endpoints EXCEPT ![n] = Len(heap) + 1]
  /\ pending' = PendingTaken(n)
  /\ boundName' = [boundName EXCEPT ![s] = n]
  /\ bound' = [bound EXCEPT ![s] = Len(heap) + 1]
  /\ UNCHANGED <<connected, direct, pc, arg, removed>>

(***************************************************************************)
(* bind meets a waiting socket of a type it cannot talk to: add_peer fails *)
(* after the list was taken out of pending_inproc, so the endpoint is      *)
(* dropped and with it everybody who was waiting for the name.             *)
(***************************************************************************)
BindIncompatible(s, n) ==
  /\ pc[s] = "idle"
  /\ MayBind(s)
  /\ NameIsFree(n)
  /\ ~AllCompatible(s, n)
  /\ pending' = PendingTaken(n)
  /\ UNCHANGED <<heap, endpoints, local, pc, arg, removed>>

(* unbind drops the last Arc of the endpoint, and with it the peer list. *)
Unbind(s, n) ==
  /\ pc[s] = "idle"
  /\ boundName[s] = n
  /\ IsBound(n)
  /\ heap' = WithPeers(endpoints[n], NoPeers)
  /\ endpoints' = [endpoints EXCEPT ![n] = 0]
  /\ boundName' = [boundName EXCEPT ![s] = NoName]
  /\ bound' = [bound EXCEPT ![s] = 0]
  /\ UNCHANGED <<pending, connected, direct, pc, arg, removed>>

-----------------------------------------------------------------------------
(* add_peer's test when the name is bound. *)
PeerAccepted(a, b) == Compatible(a, b)

(* connect finds the name bound and joins the peers of its endpoint. *)
ConnectBound(s, n) ==
  LET h == endpoints[n] IN
  /\ pc[s] = "idle"
  /\ MayConnect(s)
  /\ h # 0
  /\ PeerAccepted(heap[h].owner, s)
  /\ heap[h].peers[s] < MaxLinks
  /\ heap' = WithPeers(h, [heap[h].peers EXCEPT ![s] = @ + 1])
  /\ connected' = [connected EXCEPT ![s] = n]
  /\ direct' = [direct EXCEPT ![s] = heap[h].owner]
  /\ UNCHANGED <<endpoints, pending, boundName, bound, pc, arg, removed>>

(* connect does not find the name and releases inproc_endpoints ... *)
ConnectMissed(s, n) ==
  /\ pc[s] = "idle"
  /\ MayConnect(s)
  /\ ~IsBound(n)
  /\ pending[n][s] < MaxLinks
  /\ pc' = [pc EXCEPT ![s] = "pend"]
  /\ arg' = [arg EXCEPT ![s] = n]
  /\ UNCHANGED <<heap, endpoints, pending, local, removed>>

(* ... and takes pending_inproc to wait there, bound or not by now. *)
ConnectPend(s) ==
  LET n == arg[s] IN
  /\ pc[s] = "pend"
  /\ pending' = [pending EXCEPT ![n][s] = @ + 1]
  /\ connected' = [connected EXCEPT ![s] = n]
  /\ direct' = [direct EXCEPT ![s] = NoSocket]
  /\ Finish(s)
  /\ UNCHANGED <<heap, endpoints, boundName, bound>>

(***************************************************************************)
(* disconnect: first the endpoint's peers, under inproc_endpoints, then    *)
(* the waiting list, under pending_inproc.  The socket forgets the         *)
(* connection only when it was in one of the two.                          *)
(***************************************************************************)
DisconnectPeers(s, n) ==
  LET h == endpoints[n] IN
  /\ pc[s] = "idle"
  /\ connected[s] = n
  /\ removed' = [removed EXCEPT ![s] = h # 0 /\ heap[h].peers[s] > 0]
  /\ heap' = IF h = 0 THEN heap
             ELSE WithPeers(h, [heap[h].peers EXCEPT ![s] = 0])
  /\ pc' = [pc EXCEPT ![s] = "unpend"]
  /\ arg' = [arg EXCEPT ![s] = n]
  /\ UNCHANGED <<endpoints, pending, local>>

(* Mutant: the socket is never taken off the waiting list. *)
WaitingKept(s, n) == pending

(* pending_inproc without the entries of s: the code's retain. *)
WaitingWithout(s, n) == [pending EXCEPT ![n][s] = 0]

DisconnectPending(s) ==
  LET n == arg[s] IN
  /\ pc[s] = "unpend"
  /\ removed[s] \/ pending[n][s] > 0
  /\ pending' = WaitingWithout(s, n)
  /\ connected' = [connected EXCEPT ![s] = NoName]
  /\ direct' = [direct EXCEPT ![s] = NoSocket]
  /\ Finish(s)
  /\ UNCHANGED <<heap, endpoints, boundName, bound>>

DisconnectNothing(s) ==
  /\ pc[s] = "unpend"
  /\ ~removed[s]
  /\ pending[arg[s]][s] = 0
  /\ Finish(s)
  /\ UNCHANGED <<heap, endpoints, pending, local>>

(* disconnect_peer: the binder throws out one of its peers by routing id. *)
HasPeer(b, s) == bound[b] # 0 /\ heap[bound[b]].peers[s] > 0

DisconnectPeer(b, s) ==
  /\ pc[b] = "idle"
  /\ SockType[b] \in {"Server", "Peer"}
  /\ HasPeer(b, s)
  /\ heap' = WithPeers(bound[b], [heap[bound[b]].peers EXCEPT ![s] = 0])
  /\ UNCHANGED <<endpoints, pending, local, pc, arg, removed>>

-----------------------------------------------------------------------------
Call(s, n) ==
  \/ Bind(s, n)
  \/ BindIncompatible(s, n)
  \/ Unbind(s, n)
  \/ ConnectBound(s, n)
  \/ ConnectMissed(s, n)
  \/ DisconnectPeers(s, n)

Resume(s) ==
  \/ ConnectPend(s)
  \/ DisconnectPending(s)
  \/ DisconnectNothing(s)

Next ==
  \/ \E s \in Socket, n \in Name : Call(s, n)
  \/ \E s \in Socket : Resume(s)
  \/ \E b, s \in Socket : DisconnectPeer(b, s)

Spec == Init /\ [][Next]_vars

-----------------------------------------------------------------------------
(* The entries of s in the lists the registry can reach under n. *)
PeerEntries(s, n) == IF IsBound(n) THEN heap[endpoints[n]].peers[s] ELSE 0
Entries(s, n) == pending[n][s] + PeerEntries(s, n)

(***************************************************************************)
(* unbind removes whatever endpoint the registry has under the name, so it *)
(* must be the caller's own: the name a socket remembers having bound      *)
(* leads, for as long as it remembers it, to the endpoint it holds and     *)
(* owns, however many other sockets bind and unbind.                       *)
(***************************************************************************)
OwnsBoundName ==
  \A s \in Socket : boundName[s] # NoName =>
    /\ bound[s] # 0
    /\ endpoints[boundName[s]] = bound[s]
    /\ heap[bound[s]].owner = s

(***************************************************************************)
(* No ghosts: when applications connect a socket to one name at a time,    *)
(* a socket is in the lists of a name only while it is connected to that   *)
(* name; in particular nothing is left behind by a disconnect that         *)
(* succeeds, although it cleans the two lists in two critical sections     *)
(* between which bind may move the entry from one to the other.            *)
(***************************************************************************)
NoGhostPeer ==
  Exclusive => \A s \in Socket, n \in Name :
    Entries(s, n) > 0 => connected[s] = n

(***************************************************************************)
(* Nobody is listed twice for the name it is connected to: it would get    *)
(* two copies of a publication and twice its share of a load.              *)
(***************************************************************************)
ListedOnce ==
  Exclusive => \A s \in Socket, n \in Name : Entries(s, n) <= 1

(***************************************************************************)
(* Every peer of every endpoint can talk to the endpoint's owner, whether  *)
(* it joined directly or was waiting when the name was bound.              *)
(***************************************************************************)
PeersCompatible ==
  \A h \in 1 .. Len(heap) : \A s \in Socket :
    heap[h].peers[s] > 0 => Compatible(heap[h].owner, s)

(***************************************************************************)
(* A waiting socket leaves the waiting list of a name only into the peers  *)
(* of the endpoint that is bound to it, by its own disconnect, or because  *)
(* the bind that took the list failed with ENOTSUP.                        *)
(***************************************************************************)
WaitingIsServed ==
  [][\A s \in Socket, n \in Name :
       pending[n][s] > 0 /\ pending'[n][s] = 0 =>
         \/ endpoints'[n] # 0 /\ heap'[endpoints'[n]].peers[s] = pending[n][s]
         \/ DisconnectPending(s)
         \/ \E b \in Socket : BindIncompatible(b, n)]_vars

(***************************************************************************)
(* The promise of the pending list: a socket that connects before the bind *)
(* is connected by the bind.  Once every call has returned, no socket that *)
(* could talk to the owner of a bound name still waits for that name.      *)
(***************************************************************************)
NobodyWaitsForABoundName ==
  (\A s \in Socket : pc[s] = "idle") =>
    \A n \in Name, s \in Socket :
      IsBound(n) /\ Compatible(heap[endpoints[n]].owner, s) => pending[n][s] = 0
=============================================================================
