---------------------------- MODULE ContextProofs ---------------------------
(***************************************************************************)
(* What is proved, for every value of the constants, about what the        *)
(* context and the C ABI keep: the names of inproc endpoints               *)
(* (InprocRegistry), and, as parts of MCFacade, messages and the buffers   *)
(* they share (FfiMessage), timers (FfiTimers), pollers (FfiPoller) and    *)
(* the context's sockets and life (ContextLife).                           *)
(***************************************************************************)
EXTENDS InprocRegistry, MCFacade, SequenceTheorems, FiniteSetTheorems,
        WellFoundedInduction, TLAPS

-----------------------------------------------------------------------------
(* The registry.  For every number of sockets and names: a socket owns the *)
(* name it remembers having bound, peers are compatible, and applications  *)
(* that connect a socket to one name at a time never leave a ghost behind. *)


(* An endpoint is registered under its own name. *)
NamesAgree ==
  \A n \in Name : IsBound(n) => heap[endpoints[n]].name = n

(* What an interrupted call knows about the registry. *)
CallsAgree ==
  \A s \in Socket :
    /\ pc[s] # "idle" => arg[s] \in Name
    /\ pc[s] = "unpend" => connected[s] = arg[s]
    /\ Exclusive /\ pc[s] = "pend" => connected[s] = NoName
    /\ Exclusive /\ pc[s] = "unpend" /\ removed[s] => Entries(s, arg[s]) = 0

(***************************************************************************)
(* The inductive invariant.  Ownership rests on NamesAgree: two names lead *)
(* to different endpoints.  NoGhostPeer rests on ListedOnce and            *)
(* CallsAgree: a disconnect that removed the socket from the peers leaves  *)
(* no second entry that bind could move there.                             *)
(***************************************************************************)
IInv ==
  /\ TypeOK
  /\ NamesAgree
  /\ OwnsBoundName
  /\ PeersCompatible
  /\ CallsAgree
  /\ NoGhostPeer
  /\ ListedOnce

-----------------------------------------------------------------------------
(* Replacing the peers of one endpoint keeps the others, and its own name
   and owner. *)
LEMMA HeapUpdate ==
  ASSUME TypeOK, NEW h \in 1 .. Len(heap), NEW p \in [Socket -> Nat],
         heap' = WithPeers(h, p)
  PROVE  /\ heap' \in Seq(Endpoint)
         /\ Len(heap') = Len(heap)
         /\ \A i \in 1 .. Len(heap) :
              /\ heap'[i].name = heap[i].name
              /\ heap'[i].owner = heap[i].owner
              /\ heap'[i].peers = IF i = h THEN p ELSE heap[i].peers
  <1> DEFINE q == [heap[h] EXCEPT !.peers = p]
  <1>1. heap \in Seq(Endpoint) /\ heap[h] \in Endpoint
    BY DEF TypeOK
  <1>2. /\ q \in Endpoint
        /\ q.name = heap[h].name /\ q.owner = heap[h].owner /\ q.peers = p
    BY <1>1 DEF Endpoint
  <1>3. heap' = [heap EXCEPT ![h] = q]
    BY DEF WithPeers
  <1> HIDE DEF q
  <1>4. heap' \in Seq(Endpoint) /\ Len(heap') = Len(heap)
    BY <1>1, <1>2, <1>3
  <1>5. \A i \in 1 .. Len(heap) : heap'[i] = IF i = h THEN q ELSE heap[i]
    BY <1>1, <1>3
  <1> QED BY <1>2, <1>4, <1>5

(* The endpoints that are bound, and the ones sockets hold, exist. *)
LEMMA IndexTypes ==
  ASSUME TypeOK
  PROVE  /\ \A n \in Name : IsBound(n) => endpoints[n] \in 1 .. Len(heap)
         /\ \A s \in Socket : bound[s] # 0 => bound[s] \in 1 .. Len(heap)
         /\ \A i \in 1 .. Len(heap) : heap[i] \in Endpoint
  BY DEF TypeOK, IsBound

LEMMA InitIInv == Init => IInv
  <1> SUFFICES ASSUME Init PROVE IInv
    OBVIOUS
  <1> USE RegistryAssumption
  <1>1. TypeOK
    BY DEF Init, TypeOK, NoPeers
  <1>2. NamesAgree /\ OwnsBoundName /\ PeersCompatible
    BY DEF Init, NamesAgree, OwnsBoundName, PeersCompatible, IsBound
  <1>3. \A s \in Socket, n \in Name : Entries(s, n) = 0
    BY DEF Init, Entries, PeerEntries, IsBound, NoPeers
  <1>4. CallsAgree
    BY DEF Init, CallsAgree
  <1>5. NoGhostPeer /\ ListedOnce
    BY <1>3 DEF NoGhostPeer, ListedOnce
  <1> QED BY <1>1, <1>2, <1>4, <1>5 DEF IInv

-----------------------------------------------------------------------------
(* One endpoint gets other peers; every endpoint keeps its name and owner. *)
PeersChange(h, p) ==
  /\ heap' \in Seq(Endpoint)
  /\ Len(heap') = Len(heap)
  /\ \A i \in 1 .. Len(heap) :
       /\ heap'[i].name = heap[i].name
       /\ heap'[i].owner = heap[i].owner
       /\ heap'[i].peers = IF i = h THEN p ELSE heap[i].peers

LEMMA BindHeap ==
  ASSUME IInv, NEW s \in Socket, NEW n \in Name, Bind(s, n)
  PROVE  /\ Len(heap') = Len(heap) + 1
         /\ \A i \in 1 .. Len(heap) : heap'[i] = heap[i]
         /\ heap'[Len(heap) + 1].name = n
         /\ heap'[Len(heap) + 1].owner = s
         /\ heap'[Len(heap) + 1].peers = pending[n]
         /\ endpoints'[n] = Len(heap) + 1
         /\ \A m \in Name : m # n => endpoints'[m] = endpoints[m]
         /\ \A m \in Name : pending'[m] = IF m = n THEN NoPeers ELSE pending[m]
         /\ heap' \in Seq(Endpoint)
  <1> DEFINE e == [name |-> n, owner |-> s, peers |-> pending[n]]
  <1>1. heap \in Seq(Endpoint) /\ e \in Endpoint
    BY DEF IInv, TypeOK, Endpoint
  <1>2. heap' = Append(heap, e)
    BY DEF Bind, PeersWaiting
  <1>3. e.name = n /\ e.owner = s /\ e.peers = pending[n]
    OBVIOUS
  <1> HIDE DEF e
  <1>4. /\ Len(heap') = Len(heap) + 1
        /\ \A i \in 1 .. Len(heap) : heap'[i] = heap[i]
        /\ heap'[Len(heap) + 1] = e
        /\ heap' \in Seq(Endpoint)
    BY <1>1, <1>2
  <1>5. /\ endpoints'[n] = Len(heap) + 1
        /\ \A m \in Name : m # n => endpoints'[m] = endpoints[m]
        /\ \A m \in Name : pending'[m] = IF m = n THEN NoPeers ELSE pending[m]
    BY DEF Bind, IInv, TypeOK, PendingTaken
  <1> QED BY <1>3, <1>4, <1>5

LEMMA UnbindHeap ==
  ASSUME IInv, NEW s \in Socket, NEW n \in Name, Unbind(s, n)
  PROVE  /\ PeersChange(endpoints[n], NoPeers)
         /\ endpoints' = [endpoints EXCEPT ![n] = 0]
  <1>1. NoPeers \in [Socket -> Nat] /\ endpoints[n] \in 1 .. Len(heap)
    BY IndexTypes DEF Unbind, NoPeers, IInv
  <1> QED BY <1>1, HeapUpdate DEF Unbind, IInv, PeersChange

LEMMA ConnectBoundHeap ==
  ASSUME IInv, NEW s \in Socket, NEW n \in Name, ConnectBound(s, n)
  PROVE  PeersChange(endpoints[n], [heap[endpoints[n]].peers EXCEPT ![s] = @ + 1])
  <1> DEFINE h == endpoints[n]
             p == [heap[h].peers EXCEPT ![s] = @ + 1]
  <1>1. h \in 1 .. Len(heap) /\ heap[h] \in Endpoint
    BY IndexTypes DEF ConnectBound, IsBound, IInv
  <1>2. p \in [Socket -> Nat]
    BY <1>1 DEF Endpoint
  <1>3. heap' = WithPeers(h, p)
    BY DEF ConnectBound
  <1> HIDE DEF h, p
  <1>4. PeersChange(h, p)
    BY <1>1, <1>2, <1>3, HeapUpdate DEF IInv, PeersChange
  <1> QED BY <1>4 DEF h, p

LEMMA DisconnectPeersHeap ==
  ASSUME IInv, NEW s \in Socket, NEW n \in Name, DisconnectPeers(s, n)
  PROVE  \/ endpoints[n] = 0 /\ heap' = heap
         \/ /\ endpoints[n] # 0
            /\ PeersChange(endpoints[n], [heap[endpoints[n]].peers EXCEPT ![s] = 0])
  <1> DEFINE h == endpoints[n]
             p == [heap[h].peers EXCEPT ![s] = 0]
  <1>1. CASE h = 0
    BY <1>1 DEF DisconnectPeers
  <1>2. CASE h # 0
    <2>1. h \in 1 .. Len(heap) /\ heap[h] \in Endpoint
      BY <1>2, IndexTypes DEF IsBound, IInv
    <2>2. p \in [Socket -> Nat]
      BY <2>1 DEF Endpoint
    <2>3. heap' = WithPeers(h, p)
      BY <1>2 DEF DisconnectPeers
    <2> HIDE DEF p
    <2>4. PeersChange(h, p)
      BY <2>1, <2>2, <2>3, HeapUpdate DEF IInv, PeersChange
    <2> QED BY <1>2, <2>4 DEF p
  <1> QED BY <1>1, <1>2

LEMMA DisconnectPeerHeap ==
  ASSUME IInv, NEW b \in Socket, NEW s \in Socket, DisconnectPeer(b, s)
  PROVE  PeersChange(bound[b], [heap[bound[b]].peers EXCEPT ![s] = 0])
  <1> DEFINE h == bound[b]
             p == [heap[h].peers EXCEPT ![s] = 0]
  <1>1. h \in 1 .. Len(heap) /\ heap[h] \in Endpoint
    BY IndexTypes DEF DisconnectPeer, HasPeer, IInv
  <1>2. p \in [Socket -> Nat]
    BY <1>1 DEF Endpoint
  <1>3. heap' = WithPeers(h, p)
    BY DEF DisconnectPeer
  <1> HIDE DEF h, p
  <1>4. PeersChange(h, p)
    BY <1>1, <1>2, <1>3, HeapUpdate DEF IInv, PeersChange
  <1> QED BY <1>4 DEF h, p

-----------------------------------------------------------------------------
LEMMA TypeStep == IInv /\ [Next]_vars => TypeOK'
  <1> SUFFICES ASSUME IInv, [Next]_vars PROVE TypeOK'
    OBVIOUS
  <1> USE RegistryAssumption
  <1>0. TypeOK /\ CallsAgree
    BY DEF IInv
  <1>1. ASSUME NEW s \in Socket, NEW n \in Name, Bind(s, n) PROVE TypeOK'
    <2>1. heap' \in Seq(Endpoint) /\ Len(heap') = Len(heap) + 1
      BY <1>1, BindHeap
    <2> QED BY <1>0, <1>1, <2>1 DEF Bind, TypeOK, PendingTaken, NoPeers
  <1>2. ASSUME NEW s \in Socket, NEW n \in Name, BindIncompatible(s, n)
        PROVE  TypeOK'
    BY <1>0, <1>2 DEF BindIncompatible, TypeOK, PendingTaken, NoPeers, local
  <1>3. ASSUME NEW s \in Socket, NEW n \in Name, Unbind(s, n) PROVE TypeOK'
    <2>1. /\ heap' \in Seq(Endpoint) /\ Len(heap') = Len(heap)
          /\ endpoints' = [endpoints EXCEPT ![n] = 0]
      BY <1>3, UnbindHeap DEF PeersChange
    <2> QED BY <1>0, <1>3, <2>1 DEF Unbind, TypeOK
  <1>4. ASSUME NEW s \in Socket, NEW n \in Name, ConnectBound(s, n)
        PROVE  TypeOK'
    <2>1. heap[endpoints[n]].owner \in Socket
      BY <1>0, <1>4, IndexTypes DEF ConnectBound, IsBound, Endpoint
    <2>2. heap' \in Seq(Endpoint) /\ Len(heap') = Len(heap)
      BY <1>4, ConnectBoundHeap DEF PeersChange
    <2> QED BY <1>0, <1>4, <2>1, <2>2 DEF ConnectBound, TypeOK
  <1>5. ASSUME NEW s \in Socket, NEW n \in Name, ConnectMissed(s, n)
        PROVE  TypeOK'
    BY <1>0, <1>5 DEF ConnectMissed, TypeOK, local
  <1>6. ASSUME NEW s \in Socket, NEW n \in Name, DisconnectPeers(s, n)
        PROVE  TypeOK'
    <2>1. heap' \in Seq(Endpoint) /\ Len(heap') = Len(heap)
      BY <1>0, <1>6, DisconnectPeersHeap DEF PeersChange, TypeOK
    <2>2. removed' \in [Socket -> BOOLEAN]
      BY <1>0, <1>6 DEF DisconnectPeers, TypeOK
    <2> QED BY <1>0, <1>6, <2>1, <2>2 DEF DisconnectPeers, TypeOK, local
  <1>7. ASSUME NEW s \in Socket, ConnectPend(s) PROVE TypeOK'
    <2>1. arg[s] \in Name
      BY <1>0, <1>7 DEF ConnectPend, CallsAgree
    <2> QED BY <1>0, <1>7, <2>1 DEF ConnectPend, TypeOK, Finish
  <1>8. ASSUME NEW s \in Socket, DisconnectPending(s) PROVE TypeOK'
    <2>1. arg[s] \in Name
      BY <1>0, <1>8 DEF DisconnectPending, CallsAgree
    <2> QED BY <1>0, <1>8, <2>1
         DEF DisconnectPending, TypeOK, Finish, WaitingWithout
  <1>9. ASSUME NEW s \in Socket, DisconnectNothing(s) PROVE TypeOK'
    BY <1>0, <1>9 DEF DisconnectNothing, TypeOK, Finish, local
  <1>10. ASSUME NEW b \in Socket, NEW s \in Socket, DisconnectPeer(b, s)
         PROVE  TypeOK'
    BY <1>0, <1>10, DisconnectPeerHeap DEF DisconnectPeer, TypeOK, local, PeersChange
  <1>11. CASE UNCHANGED vars
    BY <1>0, <1>11 DEF vars, TypeOK
  <1> QED BY <1>1, <1>2, <1>3, <1>4, <1>5, <1>6, <1>7, <1>8, <1>9, <1>10, <1>11
       DEF Next, Call, Resume

(***************************************************************************)
(* The names: only Bind and Unbind touch them, and both through a name     *)
(* whose owner is the caller.                                              *)
(***************************************************************************)
NamesPart == NamesAgree /\ OwnsBoundName

(* Where the registry and the holders are unchanged and no endpoint changes
   its name or owner, the names stay in order. *)
LEMMA NamesKept ==
  ASSUME IInv, UNCHANGED <<endpoints, boundName, bound>>,
         heap' = heap \/ \E h, p : PeersChange(h, p)
  PROVE  NamesPart'
  <1>1. \A i \in 1 .. Len(heap) :
          heap'[i].name = heap[i].name /\ heap'[i].owner = heap[i].owner
    BY DEF PeersChange
  <1>2. /\ \A n \in Name : IsBound(n) => endpoints[n] \in 1 .. Len(heap)
        /\ \A s \in Socket : bound[s] # 0 => bound[s] \in 1 .. Len(heap)
    BY IndexTypes DEF IInv
  <1> QED BY <1>1, <1>2 DEF NamesPart, NamesAgree, OwnsBoundName, IInv, IsBound

LEMMA NamesStep == IInv /\ [Next]_vars => NamesPart'
  <1> SUFFICES ASSUME IInv, [Next]_vars PROVE NamesPart'
    OBVIOUS
  <1> USE RegistryAssumption
  <1>0. /\ \A m \in Name : IsBound(m) => endpoints[m] \in 1 .. Len(heap)
        /\ \A t \in Socket : bound[t] # 0 => bound[t] \in 1 .. Len(heap)
        /\ NamesAgree /\ OwnsBoundName /\ TypeOK
    BY IndexTypes DEF IInv
  <1>1. ASSUME NEW s \in Socket, NEW n \in Name, Bind(s, n) PROVE NamesPart'
    <2>1. NamesAgree'
      BY <1>0, <1>1, BindHeap DEF NamesAgree, IsBound
    <2>2. ASSUME NEW t \in Socket, boundName'[t] # NoName, t # s
          PROVE  /\ bound'[t] # 0
                 /\ endpoints'[boundName'[t]] = bound'[t]
                 /\ heap'[bound'[t]].owner = t
      <3>1. boundName'[t] = boundName[t] /\ bound'[t] = bound[t]
        BY <1>0, <1>1, <2>2 DEF Bind, TypeOK
      <3>2. boundName[t] \in Name /\ IsBound(boundName[t])
        BY <1>0, <2>2, <3>1 DEF OwnsBoundName, TypeOK, IsBound
      <3>3. boundName[t] # n
        BY <1>1, <3>2 DEF Bind, NameIsFree
      <3> QED BY <1>0, <1>1, <2>2, <3>1, <3>2, <3>3, BindHeap DEF OwnsBoundName
    <2>3. bound'[s] = Len(heap) + 1 /\ boundName'[s] = n
      BY <1>0, <1>1 DEF Bind, TypeOK
    <2>4. OwnsBoundName'
      <3>1. Len(heap) + 1 # 0
        BY <1>0 DEF TypeOK
      <3> QED BY <1>1, <2>2, <2>3, <3>1, BindHeap DEF OwnsBoundName
    <2> QED BY <2>1, <2>4 DEF NamesPart
  <1>2. ASSUME NEW s \in Socket, NEW n \in Name, BindIncompatible(s, n)
        PROVE  NamesPart'
    BY <1>2, NamesKept DEF BindIncompatible, local
  <1>3. ASSUME NEW s \in Socket, NEW n \in Name, Unbind(s, n) PROVE NamesPart'
    <2>0. /\ \A i \in 1 .. Len(heap) :
               heap'[i].name = heap[i].name /\ heap'[i].owner = heap[i].owner
          /\ endpoints' = [endpoints EXCEPT ![n] = 0]
      BY <1>3, UnbindHeap DEF PeersChange
    <2>1. NamesAgree'
      BY <1>0, <2>0 DEF NamesAgree, IsBound, TypeOK
    <2>2. ASSUME NEW t \in Socket, boundName'[t] # NoName
          PROVE  /\ bound'[t] # 0
                 /\ endpoints'[boundName'[t]] = bound'[t]
                 /\ heap'[bound'[t]].owner = t
      <3>1. t # s /\ boundName'[t] = boundName[t] /\ bound'[t] = bound[t]
        BY <1>0, <1>3, <2>2 DEF Unbind, TypeOK
      <3>2. boundName[t] # n
        BY <1>0, <1>3, <3>1 DEF Unbind, OwnsBoundName
      <3>3. boundName[t] \in Name
        BY <1>0, <2>2, <3>1 DEF TypeOK
      <3>4. /\ bound[t] # 0 /\ endpoints[boundName[t]] = bound[t]
            /\ heap[bound[t]].owner = t /\ bound[t] \in 1 .. Len(heap)
        BY <1>0, <2>2, <3>1 DEF OwnsBoundName
      <3>5. endpoints'[boundName[t]] = endpoints[boundName[t]]
        BY <1>0, <2>0, <3>2, <3>3 DEF TypeOK
      <3> QED BY <2>0, <3>1, <3>4, <3>5
    <2> QED BY <2>1, <2>2 DEF NamesPart, OwnsBoundName
  <1>4. ASSUME NEW s \in Socket, NEW n \in Name, ConnectBound(s, n)
        PROVE  NamesPart'
    BY <1>4, NamesKept, ConnectBoundHeap DEF ConnectBound
  <1>5. ASSUME NEW s \in Socket, NEW n \in Name, ConnectMissed(s, n)
        PROVE  NamesPart'
    BY <1>5, NamesKept DEF ConnectMissed, local
  <1>6. ASSUME NEW s \in Socket, NEW n \in Name, DisconnectPeers(s, n)
        PROVE  NamesPart'
    BY <1>6, NamesKept, DisconnectPeersHeap DEF DisconnectPeers, local
  <1>7. ASSUME NEW s \in Socket, Resume(s) PROVE NamesPart'
    BY <1>7, NamesKept
       DEF Resume, ConnectPend, DisconnectPending, DisconnectNothing, local
  <1>8. ASSUME NEW b \in Socket, NEW s \in Socket, DisconnectPeer(b, s)
        PROVE  NamesPart'
    BY <1>8, NamesKept, DisconnectPeerHeap DEF DisconnectPeer, local
  <1>9. CASE UNCHANGED vars
    BY <1>9, NamesKept DEF vars
  <1> QED BY <1>1, <1>2, <1>3, <1>4, <1>5, <1>6, <1>7, <1>8, <1>9
       DEF Next, Call

-----------------------------------------------------------------------------
(* Where peers only shrink, they stay compatible. *)
LEMMA CompatibleKept ==
  ASSUME IInv, heap' = heap \/ \E h, p : /\ PeersChange(h, p)
                                         /\ \A t \in Socket : p[t] > 0 => heap[h].peers[t] > 0
  PROVE  PeersCompatible'
  BY DEF PeersCompatible, IInv, PeersChange, Compatible

LEMMA CompatibleStep == IInv /\ [Next]_vars => PeersCompatible'
  <1> SUFFICES ASSUME IInv, [Next]_vars PROVE PeersCompatible'
    OBVIOUS
  <1>0. /\ \A m \in Name : IsBound(m) => endpoints[m] \in 1 .. Len(heap)
        /\ \A t \in Socket : bound[t] # 0 => bound[t] \in 1 .. Len(heap)
        /\ \A i \in 1 .. Len(heap) : heap[i].peers \in [Socket -> Nat]
        /\ Len(heap) \in Nat
    <2>1. TypeOK
      BY DEF IInv
    <2>2. Len(heap) \in Nat
      BY <2>1 DEF TypeOK
    <2>3. \A i \in 1 .. Len(heap) : heap[i] \in Endpoint
      BY <2>1, IndexTypes
    <2> QED BY <2>1, <2>2, <2>3, IndexTypes DEF Endpoint
  <1>1. ASSUME NEW s \in Socket, NEW n \in Name, Bind(s, n)
        PROVE  PeersCompatible'
    <2>1. \A t \in Socket : pending[n][t] > 0 => Compatible(s, t)
      BY <1>1 DEF Bind, AllCompatible
    <2>2. ASSUME NEW i \in 1 .. Len(heap'), NEW t \in Socket, heap'[i].peers[t] > 0
          PROVE  Compatible(heap'[i].owner, t)
      <3>1. CASE i \in 1 .. Len(heap)
        BY <1>1, <2>2, <3>1, BindHeap DEF IInv, PeersCompatible
      <3>2. CASE i = Len(heap) + 1
        BY <1>1, <2>1, <2>2, <3>2, BindHeap
      <3>3. i \in 1 .. Len(heap) \/ i = Len(heap) + 1
        BY <1>0, <1>1, BindHeap
      <3> QED BY <3>1, <3>2, <3>3
    <2> QED BY <2>2 DEF PeersCompatible, Compatible
  <1>2. ASSUME NEW s \in Socket, NEW n \in Name, BindIncompatible(s, n)
        PROVE  PeersCompatible'
    BY <1>2, CompatibleKept DEF BindIncompatible
  <1>3. ASSUME NEW s \in Socket, NEW n \in Name, Unbind(s, n)
        PROVE  PeersCompatible'
    <2>1. \A t \in Socket : ~(NoPeers[t] > 0)
      BY DEF NoPeers
    <2> QED BY <1>3, <2>1, CompatibleKept, UnbindHeap
  <1>4. ASSUME NEW s \in Socket, NEW n \in Name, ConnectBound(s, n)
        PROVE  PeersCompatible'
    <2> DEFINE h == endpoints[n]
               p == [heap[h].peers EXCEPT ![s] = @ + 1]
    <2>1. h \in 1 .. Len(heap) /\ Compatible(heap[h].owner, s)
      BY <1>0, <1>4 DEF ConnectBound, PeerAccepted, IsBound
    <2>2. \A t \in Socket : t # s => p[t] = heap[h].peers[t]
      BY <1>0, <2>1
    <2>3. PeersChange(h, p)
      BY <1>4, ConnectBoundHeap
    <2> HIDE DEF h, p
    <2> QED BY <2>1, <2>2, <2>3 DEF IInv, PeersCompatible, PeersChange, Compatible
  <1>5. ASSUME NEW s \in Socket, NEW n \in Name, ConnectMissed(s, n)
        PROVE  PeersCompatible'
    BY <1>5, CompatibleKept DEF ConnectMissed
  <1>6. ASSUME NEW s \in Socket, NEW n \in Name, DisconnectPeers(s, n)
        PROVE  PeersCompatible'
    <2> DEFINE h == endpoints[n]
               p == [heap[h].peers EXCEPT ![s] = 0]
    <2>1. CASE h = 0
      BY <1>6, <2>1, CompatibleKept, DisconnectPeersHeap
    <2>2. CASE h # 0
      <3>1. \A t \in Socket : p[t] > 0 => heap[h].peers[t] > 0
        BY <1>0, <2>2 DEF IsBound
      <3>2. PeersChange(h, p)
        BY <1>6, <2>2, DisconnectPeersHeap
      <3> QED BY <3>1, <3>2, CompatibleKept
    <2> QED BY <2>1, <2>2
  <1>7. ASSUME NEW s \in Socket, Resume(s) PROVE PeersCompatible'
    BY <1>7, CompatibleKept
       DEF Resume, ConnectPend, DisconnectPending, DisconnectNothing
  <1>8. ASSUME NEW b \in Socket, NEW s \in Socket, DisconnectPeer(b, s)
        PROVE  PeersCompatible'
    <2> DEFINE h == bound[b]
               p == [heap[h].peers EXCEPT ![s] = 0]
    <2>1. \A t \in Socket : p[t] > 0 => heap[h].peers[t] > 0
      BY <1>0, <1>8 DEF DisconnectPeer, HasPeer
    <2>2. PeersChange(h, p)
      BY <1>8, DisconnectPeerHeap
    <2> QED BY <2>1, <2>2, CompatibleKept
  <1>9. CASE UNCHANGED vars
    BY <1>9, CompatibleKept DEF vars
  <1> QED BY <1>1, <1>2, <1>3, <1>4, <1>5, <1>6, <1>7, <1>8, <1>9
       DEF Next, Call

-----------------------------------------------------------------------------
(* Entries are counts. *)
LEMMA EntriesType ==
  TypeOK => \A s \in Socket, n \in Name :
              /\ PeerEntries(s, n) \in Nat /\ pending[n][s] \in Nat
              /\ Entries(s, n) \in Nat
              /\ IsBound(n) => PeerEntries(s, n) = heap[endpoints[n]].peers[s]
  <1> SUFFICES ASSUME TypeOK
               PROVE  \A s \in Socket, n \in Name :
                        /\ PeerEntries(s, n) \in Nat /\ pending[n][s] \in Nat
                        /\ Entries(s, n) \in Nat
                        /\ IsBound(n) => PeerEntries(s, n) = heap[endpoints[n]].peers[s]
    OBVIOUS
  <1>1. \A n \in Name, s \in Socket : IsBound(n) => heap[endpoints[n]].peers[s] \in Nat
    BY IndexTypes DEF Endpoint
  <1> QED BY <1>1 DEF TypeOK, Entries, PeerEntries

LEMMA EntriesNat == TypeOK => \A s \in Socket, n \in Name : Entries(s, n) \in Nat
  BY EntriesType

LEMMA EntriesNatNext ==
  TypeOK' => (\A s \in Socket, n \in Name : Entries(s, n) \in Nat)'
  BY EntriesNat, PTL

(* Every step but the two that register a connection moves entries or drops
   them, and never adds one. *)
EntriesShrink ==
  \A s \in Socket, n \in Name : Entries(s, n)' <= Entries(s, n)

(* Replacing the peers of one registered endpoint by fewer. *)
LEMMA ShrinkPeers ==
  ASSUME IInv, NEW h, NEW p, PeersChange(h, p),
         UNCHANGED <<endpoints, pending>>,
         \A t \in Socket : p[t] \in Nat /\ p[t] <= heap[h].peers[t]
  PROVE  EntriesShrink
  <1>1. \A m \in Name : IsBound(m) => endpoints[m] \in 1 .. Len(heap)
    BY IndexTypes DEF IInv
  <1>2. ASSUME NEW t \in Socket, NEW m \in Name
        PROVE  Entries(t, m)' <= Entries(t, m)
    <2>1. CASE ~IsBound(m)
      BY <2>1, EntriesType DEF Entries, PeerEntries, IsBound, IInv
    <2>2. CASE IsBound(m)
      <3>1. PeerEntries(t, m)' = heap'[endpoints[m]].peers[t]
        BY <2>2 DEF PeerEntries, IsBound
      <3>2. heap'[endpoints[m]].peers[t] <= heap[endpoints[m]].peers[t]
        <4>1. heap[endpoints[m]].peers[t] \in Nat
          BY <2>2, EntriesType DEF IInv
        <4> QED BY <1>1, <2>2, <4>1 DEF PeersChange
      <3>3. heap'[endpoints[m]].peers[t] \in Nat
        BY <1>1, <2>2, EntriesType DEF PeersChange, IInv
      <3> QED BY <2>2, <3>1, <3>2, <3>3, EntriesType DEF Entries, IInv
    <2> QED BY <2>1, <2>2
  <1> QED BY <1>2 DEF EntriesShrink

(* bind moves the waiting entries of its name and changes no count. *)
LEMMA BindEntries ==
  ASSUME IInv, NEW s \in Socket, NEW n \in Name, Bind(s, n)
  PROVE  \A t \in Socket, m \in Name : Entries(t, m)' = Entries(t, m)
  <1> SUFFICES ASSUME NEW t \in Socket, NEW m \in Name
               PROVE  Entries(t, m)' = Entries(t, m)
    OBVIOUS
  <1>0. TypeOK /\ Len(heap) \in Nat
    BY DEF IInv, TypeOK
  <1>1. CASE m = n
    <2>1. ~IsBound(n)
      BY DEF Bind, NameIsFree
    <2>2. Entries(t, n) = pending[n][t]
      BY <1>0, <2>1, EntriesType DEF Entries, PeerEntries
    <2>3. PeerEntries(t, n)' = pending[n][t]
      BY <1>0, BindHeap DEF PeerEntries, IsBound
    <2>4. pending'[n][t] = 0
      BY BindHeap DEF NoPeers
    <2> QED BY <1>0, <1>1, <2>2, <2>3, <2>4, EntriesType DEF Entries
  <1>2. CASE m # n
    <2>1. pending'[m] = pending[m] /\ endpoints'[m] = endpoints[m]
      BY <1>2, BindHeap
    <2>2. IsBound(m) => heap'[endpoints[m]] = heap[endpoints[m]]
      BY <1>0, BindHeap, IndexTypes
    <2> QED BY <2>1, <2>2 DEF Entries, PeerEntries, IsBound
  <1> QED BY <1>1, <1>2

(* Where neither list changes, no count does. *)
LEMMA SameEntries ==
  ASSUME UNCHANGED <<heap, endpoints, pending>>
  PROVE  \A t \in Socket, m \in Name : Entries(t, m)' = Entries(t, m)
  BY DEF Entries, PeerEntries, IsBound

LEMMA BindIncompatibleEntries ==
  ASSUME IInv, NEW s \in Socket, NEW n \in Name, BindIncompatible(s, n)
  PROVE  EntriesShrink
  <1>1. ASSUME NEW t \in Socket, NEW m \in Name
        PROVE  Entries(t, m)' <= Entries(t, m)
    <2>1. PeerEntries(t, m)' = PeerEntries(t, m)
      BY DEF BindIncompatible, PeerEntries, IsBound
    <2>2. pending'[m][t] = 0 \/ pending'[m][t] = pending[m][t]
      BY DEF BindIncompatible, PendingTaken, NoPeers, IInv, TypeOK
    <2> QED BY <2>1, <2>2, EntriesType DEF Entries, IInv
  <1> QED BY <1>1 DEF EntriesShrink

LEMMA UnbindEntries ==
  ASSUME IInv, NEW s \in Socket, NEW n \in Name, Unbind(s, n)
  PROVE  EntriesShrink
  <1>0. TypeOK /\ NamesAgree
    BY DEF IInv
  <1>1. ASSUME NEW t \in Socket, NEW m \in Name
        PROVE  Entries(t, m)' <= Entries(t, m)
    <2>1. CASE m = n
      <3>1. PeerEntries(t, m)' = 0
        BY <1>0, <2>1, UnbindHeap DEF PeerEntries, IsBound, TypeOK
      <3> QED BY <1>0, <3>1, EntriesType DEF Entries, Unbind
    <2>2. CASE m # n
      <3>1. endpoints'[m] = endpoints[m]
        BY <1>0, <2>2, UnbindHeap DEF TypeOK
      <3>2. IsBound(m) => endpoints[m] # endpoints[n] /\ endpoints[m] \in 1 .. Len(heap)
        BY <1>0, <2>2, IndexTypes DEF NamesAgree, Unbind
      <3>3. IsBound(m) => heap'[endpoints[m]].peers = heap[endpoints[m]].peers
        BY <3>2, UnbindHeap DEF PeersChange
      <3>4. Entries(t, m)' = Entries(t, m)
        BY <3>1, <3>3 DEF Entries, PeerEntries, IsBound, Unbind
      <3> QED BY <1>0, <3>4, EntriesType
    <2> QED BY <2>1, <2>2
  <1> QED BY <1>1 DEF EntriesShrink

(* connect adds one entry, for the caller under the name. *)
LEMMA ConnectBoundEntries ==
  ASSUME IInv, NEW s \in Socket, NEW n \in Name, ConnectBound(s, n)
  PROVE  \A t \in Socket, m \in Name :
           Entries(t, m)' = IF t = s /\ m = n THEN Entries(t, m) + 1 ELSE Entries(t, m)
  <1> SUFFICES ASSUME NEW t \in Socket, NEW m \in Name
               PROVE  Entries(t, m)' = IF t = s /\ m = n THEN Entries(t, m) + 1
                                       ELSE Entries(t, m)
    OBVIOUS
  <1> DEFINE h == endpoints[n]
             p == [heap[h].peers EXCEPT ![s] = @ + 1]
  <1>0. TypeOK /\ NamesAgree
    BY DEF IInv
  <1>1. IsBound(n) /\ h \in 1 .. Len(heap) /\ heap[h].peers \in [Socket -> Nat]
    BY <1>0, IndexTypes DEF ConnectBound, IsBound, Endpoint
  <1>2. PeersChange(h, p) /\ UNCHANGED <<endpoints, pending>>
    BY ConnectBoundHeap DEF ConnectBound
  <1>3. CASE m = n
    <2>1. PeerEntries(t, m)' = p[t]
      BY <1>1, <1>2, <1>3 DEF PeerEntries, IsBound, PeersChange
    <2>2. PeerEntries(t, m) = heap[h].peers[t]
      BY <1>1, <1>3 DEF PeerEntries
    <2>3. p[t] = IF t = s THEN heap[h].peers[t] + 1 ELSE heap[h].peers[t]
      BY <1>1
    <2>4. heap[h].peers[t] \in Nat /\ pending[m][t] \in Nat
      BY <1>0, <1>1, EntriesType
    <2> HIDE DEF p
    <2> QED BY <1>2, <1>3, <2>1, <2>2, <2>3, <2>4 DEF Entries
  <1>4. CASE m # n
    <2>1. IsBound(m) => endpoints[m] # h /\ endpoints[m] \in 1 .. Len(heap)
      BY <1>0, <1>1, <1>4, IndexTypes DEF NamesAgree
    <2>2. IsBound(m) => heap'[endpoints[m]].peers = heap[endpoints[m]].peers
      BY <1>2, <2>1 DEF PeersChange
    <2> QED BY <1>2, <1>4, <2>2 DEF Entries, PeerEntries, IsBound
  <1> QED BY <1>3, <1>4

LEMMA ConnectPendEntries ==
  ASSUME IInv, NEW s \in Socket, ConnectPend(s)
  PROVE  \A t \in Socket, m \in Name :
           Entries(t, m)' = IF t = s /\ m = arg[s] THEN Entries(t, m) + 1 ELSE Entries(t, m)
  <1> SUFFICES ASSUME NEW t \in Socket, NEW m \in Name
               PROVE  Entries(t, m)' = IF t = s /\ m = arg[s] THEN Entries(t, m) + 1
                                       ELSE Entries(t, m)
    OBVIOUS
  <1>1. PeerEntries(t, m)' = PeerEntries(t, m)
    BY DEF ConnectPend, PeerEntries, IsBound
  <1>2. pending'[m][t] = IF t = s /\ m = arg[s] THEN pending[m][t] + 1 ELSE pending[m][t]
    BY DEF ConnectPend, IInv, TypeOK
  <1> QED BY <1>1, <1>2, EntriesType DEF Entries, IInv

LEMMA DisconnectPeersEntries ==
  ASSUME IInv, NEW s \in Socket, NEW n \in Name, DisconnectPeers(s, n)
  PROVE  /\ EntriesShrink
         /\ Entries(s, n)' = pending[n][s]
         /\ removed'[s] => PeerEntries(s, n) > 0
  <1> DEFINE h == endpoints[n]
             p == [heap[h].peers EXCEPT ![s] = 0]
  <1>0. TypeOK /\ UNCHANGED <<endpoints, pending>>
    BY DEF IInv, DisconnectPeers
  <1>1. removed'[s] => PeerEntries(s, n) > 0
    BY <1>0 DEF DisconnectPeers, PeerEntries, IsBound, TypeOK
  <1>2. CASE h = 0
    <2>1. heap' = heap
      BY <1>2, DisconnectPeersHeap
    <2>2. \A t \in Socket, m \in Name : Entries(t, m)' = Entries(t, m)
      BY <1>0, <2>1, SameEntries
    <2>3. Entries(s, n) = pending[n][s]
      BY <1>0, <1>2, EntriesType DEF Entries, PeerEntries, IsBound
    <2>4. EntriesShrink
      BY <1>0, <2>2, EntriesType DEF EntriesShrink
    <2> QED BY <1>1, <2>2, <2>3, <2>4
  <1>3. CASE h # 0
    <2>1. PeersChange(h, p)
      BY <1>3, DisconnectPeersHeap
    <2>2. h \in 1 .. Len(heap) /\ heap[h].peers \in [Socket -> Nat] /\ IsBound(n)
      BY <1>0, <1>3, IndexTypes DEF IsBound, Endpoint
    <2>3. \A t \in Socket : p[t] \in Nat /\ p[t] <= heap[h].peers[t]
      BY <2>2
    <2>4. p[s] = 0
      BY <2>2
    <2> HIDE DEF p
    <2>5. EntriesShrink
      BY <1>0, <2>1, <2>3, ShrinkPeers
    <2>6. PeerEntries(s, n)' = 0
      BY <1>0, <2>1, <2>2, <2>4 DEF PeerEntries, IsBound, PeersChange
    <2>7. Entries(s, n)' = pending[n][s]
      BY <1>0, <2>6, EntriesType DEF Entries
    <2> QED BY <1>1, <2>5, <2>7
  <1> QED BY <1>2, <1>3

LEMMA DisconnectPendingEntries ==
  ASSUME IInv, NEW s \in Socket, DisconnectPending(s)
  PROVE  /\ EntriesShrink
         /\ \A n \in Name : n = arg[s] => Entries(s, n)' = PeerEntries(s, n)
  <1>0. TypeOK /\ arg[s] \in Name
    BY DEF IInv, CallsAgree, DisconnectPending
  <1>1. \A t \in Socket, m \in Name : PeerEntries(t, m)' = PeerEntries(t, m)
    BY DEF DisconnectPending, PeerEntries, IsBound
  <1>2. \A t \in Socket, m \in Name :
          pending'[m][t] = IF t = s /\ m = arg[s] THEN 0 ELSE pending[m][t]
    BY <1>0 DEF DisconnectPending, WaitingWithout, TypeOK
  <1>3. EntriesShrink
    BY <1>0, <1>1, <1>2, EntriesType DEF EntriesShrink, Entries
  <1>4. \A n \in Name : n = arg[s] => Entries(s, n)' = PeerEntries(s, n)
    BY <1>0, <1>1, <1>2, EntriesType DEF Entries
  <1> QED BY <1>3, <1>4

LEMMA DisconnectPeerEntries ==
  ASSUME IInv, NEW b \in Socket, NEW s \in Socket, DisconnectPeer(b, s)
  PROVE  EntriesShrink
  <1> DEFINE h == bound[b]
             p == [heap[h].peers EXCEPT ![s] = 0]
  <1>1. h \in 1 .. Len(heap) /\ heap[h].peers \in [Socket -> Nat]
    BY IndexTypes DEF DisconnectPeer, HasPeer, IInv, Endpoint
  <1>2. \A t \in Socket : p[t] \in Nat /\ p[t] <= heap[h].peers[t]
    BY <1>1
  <1>3. PeersChange(h, p) /\ UNCHANGED <<endpoints, pending>>
    BY DisconnectPeerHeap DEF DisconnectPeer
  <1> HIDE DEF h, p
  <1> QED BY <1>2, <1>3, ShrinkPeers

-----------------------------------------------------------------------------
LinksPart == CallsAgree /\ NoGhostPeer /\ ListedOnce

(* Dropping or moving entries without touching a socket's state is safe. *)
LEMMA LinksShrink ==
  ASSUME IInv, EntriesShrink, TypeOK', UNCHANGED <<connected, pc, arg, removed>>
  PROVE  LinksPart'
  <1>1. \A t \in Socket, m \in Name :
          /\ Entries(t, m) \in Nat
          /\ Entries(t, m)' \in Nat
          /\ Entries(t, m)' <= Entries(t, m)
    <2>1. \A t \in Socket, m \in Name : Entries(t, m) \in Nat
      BY EntriesType DEF IInv
    <2>2. \A t \in Socket, m \in Name : Entries(t, m)' \in Nat
      BY EntriesNatNext
    <2> QED BY <2>1, <2>2 DEF EntriesShrink
  <1>2. NoGhostPeer' /\ ListedOnce'
    BY <1>1 DEF NoGhostPeer, ListedOnce, IInv
  <1>3. CallsAgree'
    <2> SUFFICES ASSUME NEW t \in Socket
                 PROVE  /\ pc'[t] # "idle" => arg'[t] \in Name
                        /\ pc'[t] = "unpend" => connected'[t] = arg'[t]
                        /\ Exclusive /\ pc'[t] = "pend" => connected'[t] = NoName
                        /\ Exclusive /\ pc'[t] = "unpend" /\ removed'[t]
                             => Entries(t, arg[t])' = 0
      BY DEF CallsAgree
    <2>1. /\ pc[t] # "idle" => arg[t] \in Name
          /\ pc[t] = "unpend" => connected[t] = arg[t]
          /\ Exclusive /\ pc[t] = "pend" => connected[t] = NoName
          /\ Exclusive /\ pc[t] = "unpend" /\ removed[t] => Entries(t, arg[t]) = 0
      BY DEF IInv, CallsAgree
    <2>2. ASSUME NEW n \in Name, n = arg[t], Entries(t, n) = 0
          PROVE  Entries(t, arg[t])' = 0
      <3>1. Entries(t, n)' = 0
        BY <1>1, <2>2
      <3>2. arg'[t] = n
        BY <2>2
      <3> QED BY <3>1, <3>2 DEF Entries, PeerEntries, IsBound
    <2> QED BY <2>1, <2>2
  <1> QED BY <1>2, <1>3 DEF LinksPart

(* A socket other than the caller s keeps its state and its entries do not
   grow: what was known of it stays true. *)
LEMMA OtherSocket ==
  ASSUME IInv, TypeOK', NEW t \in Socket,
         connected'[t] = connected[t], pc'[t] = pc[t], arg'[t] = arg[t],
         removed'[t] = removed[t],
         \A m \in Name : Entries(t, m)' <= Entries(t, m)
  PROVE  /\ pc'[t] # "idle" => arg'[t] \in Name
         /\ pc'[t] = "unpend" => connected'[t] = arg'[t]
         /\ Exclusive /\ pc'[t] = "pend" => connected'[t] = NoName
         /\ Exclusive /\ pc'[t] = "unpend" /\ removed'[t] => Entries(t, arg[t])' = 0
         /\ Exclusive => \A m \in Name : /\ Entries(t, m)' > 0 => connected'[t] = m
                                         /\ Entries(t, m)' <= 1
  <1>1. \A m \in Name : Entries(t, m) \in Nat /\ Entries(t, m)' \in Nat
    BY EntriesNat, EntriesNatNext DEF IInv
  <1>2. /\ pc[t] # "idle" => arg[t] \in Name
        /\ pc[t] = "unpend" => connected[t] = arg[t]
        /\ Exclusive /\ pc[t] = "pend" => connected[t] = NoName
        /\ Exclusive /\ pc[t] = "unpend" /\ removed[t] => Entries(t, arg[t]) = 0
    BY DEF IInv, CallsAgree
  <1>3. Exclusive => \A m \in Name : /\ Entries(t, m) > 0 => connected[t] = m
                                     /\ Entries(t, m) <= 1
    BY DEF IInv, NoGhostPeer, ListedOnce
  <1>4. ASSUME NEW n \in Name, n = arg[t], Entries(t, n) = 0
        PROVE  Entries(t, arg[t])' = 0
    <2>1. Entries(t, n)' = 0
      BY <1>1, <1>4
    <2>2. arg'[t] = n
      BY <1>4
    <2> QED BY <2>1, <2>2 DEF Entries, PeerEntries, IsBound
  <1> QED BY <1>1, <1>2, <1>3, <1>4

(* A socket that is not connected has no entries. *)
LEMMA UnconnectedHasNone ==
  ASSUME IInv, NEW s \in Socket, Exclusive, connected[s] = NoName
  PROVE  \A m \in Name : Entries(s, m) = 0
  BY EntriesNat, RegistryAssumption DEF IInv, NoGhostPeer

LEMMA LinksStep == IInv /\ [Next]_vars => LinksPart'
  <1> SUFFICES ASSUME IInv, [Next]_vars PROVE LinksPart'
    OBVIOUS
  <1> USE RegistryAssumption
  <1>0. TypeOK /\ TypeOK'
    BY TypeStep DEF IInv
  <1>a. \A t \in Socket, m \in Name : Entries(t, m) \in Nat /\ Entries(t, m)' \in Nat
    BY <1>0, EntriesNat, EntriesNatNext
  <1>1. ASSUME NEW s \in Socket, NEW n \in Name, Bind(s, n) PROVE LinksPart'
    <2>1. EntriesShrink
      BY <1>1, <1>a, BindEntries DEF EntriesShrink
    <2> QED BY <1>0, <1>1, <2>1, LinksShrink DEF Bind
  <1>2. ASSUME NEW s \in Socket, NEW n \in Name, BindIncompatible(s, n)
        PROVE  LinksPart'
    BY <1>0, <1>2, LinksShrink, BindIncompatibleEntries DEF BindIncompatible, local
  <1>3. ASSUME NEW s \in Socket, NEW n \in Name, Unbind(s, n) PROVE LinksPart'
    BY <1>0, <1>3, LinksShrink, UnbindEntries DEF Unbind
  <1>4. ASSUME NEW s \in Socket, NEW n \in Name, ConnectBound(s, n)
        PROVE  LinksPart'
    <2>1. /\ connected'[s] = n /\ pc'[s] = "idle"
          /\ \A t \in Socket : t # s => connected'[t] = connected[t]
          /\ UNCHANGED <<pc, arg, removed>>
      BY <1>0, <1>4 DEF ConnectBound, TypeOK
    <2>2. \A t \in Socket, m \in Name : t # s => Entries(t, m)' <= Entries(t, m)
      BY <1>4, <1>a, ConnectBoundEntries
    <2>3. Exclusive => \A m \in Name : Entries(s, m)' = IF m = n THEN 1 ELSE 0
      <3>1. Exclusive => connected[s] = NoName
        BY <1>4 DEF ConnectBound, MayConnect
      <3>2. Exclusive => \A m \in Name : Entries(s, m) = 0
        BY <3>1, UnconnectedHasNone
      <3>3. \A m \in Name : Entries(s, m)' = IF m = n THEN Entries(s, m) + 1
                                             ELSE Entries(s, m)
        BY <1>4, ConnectBoundEntries
      <3> QED BY <3>2, <3>3
    <2> QED BY <1>0, <2>1, <2>2, <2>3, OtherSocket
         DEF LinksPart, CallsAgree, NoGhostPeer, ListedOnce
  <1>5. ASSUME NEW s \in Socket, NEW n \in Name, ConnectMissed(s, n)
        PROVE  LinksPart'
    <2>1. /\ connected' = connected /\ removed' = removed
          /\ pc'[s] = "pend" /\ arg'[s] = n
          /\ \A t \in Socket : t # s => pc'[t] = pc[t] /\ arg'[t] = arg[t]
          /\ Exclusive => connected[s] = NoName
      BY <1>0, <1>5 DEF ConnectMissed, TypeOK, MayConnect, local
    <2>2. \A t \in Socket, m \in Name : Entries(t, m)' = Entries(t, m)
      BY <1>5, SameEntries DEF ConnectMissed
    <2>3. Exclusive => \A m \in Name : Entries(s, m)' = 0
      BY <2>1, <2>2, UnconnectedHasNone
    <2>4. \A t \in Socket, m \in Name : Entries(t, m)' <= Entries(t, m)
      BY <1>a, <2>2
    <2> QED BY <1>0, <2>1, <2>3, <2>4, OtherSocket
         DEF LinksPart, CallsAgree, NoGhostPeer, ListedOnce
  <1>6. ASSUME NEW s \in Socket, NEW n \in Name, DisconnectPeers(s, n)
        PROVE  LinksPart'
    <2>1. /\ connected' = connected /\ connected[s] = n
          /\ pc'[s] = "unpend" /\ arg'[s] = n
          /\ \A t \in Socket : t # s => /\ pc'[t] = pc[t] /\ arg'[t] = arg[t]
                                        /\ removed'[t] = removed[t]
      BY <1>0, <1>6 DEF DisconnectPeers, TypeOK, local
    <2>2. \A t \in Socket, m \in Name : Entries(t, m)' <= Entries(t, m)
      BY <1>6, DisconnectPeersEntries DEF EntriesShrink
    <2>3. Exclusive /\ removed'[s] => Entries(s, n)' = 0
      <3>1. Entries(s, n) = pending[n][s] + PeerEntries(s, n)
        BY DEF Entries
      <3>2. pending[n][s] \in Nat /\ PeerEntries(s, n) \in Nat
        BY <1>0, EntriesType
      <3>3. Exclusive => Entries(s, n) <= 1
        BY DEF IInv, ListedOnce
      <3>4. Entries(s, n)' = pending[n][s] /\ (removed'[s] => PeerEntries(s, n) > 0)
        BY <1>6, DisconnectPeersEntries
      <3> QED BY <3>1, <3>2, <3>3, <3>4
    <2>4. Exclusive => \A m \in Name : /\ Entries(s, m)' > 0 => connected'[s] = m
                                       /\ Entries(s, m)' <= 1
      BY <1>a, <2>1, <2>2 DEF IInv, NoGhostPeer, ListedOnce
    <2>5. Exclusive /\ removed'[s] => Entries(s, arg[s])' = 0
      BY <2>1, <2>3 DEF Entries, PeerEntries, IsBound
    <2> QED BY <1>0, <2>1, <2>2, <2>4, <2>5, OtherSocket
         DEF LinksPart, CallsAgree, NoGhostPeer, ListedOnce
  <1>7. ASSUME NEW s \in Socket, ConnectPend(s) PROVE LinksPart'
    <2> DEFINE n == arg[s]
    <2>1. n \in Name /\ (Exclusive => connected[s] = NoName)
      BY <1>7 DEF ConnectPend, IInv, CallsAgree
    <2>2. /\ connected'[s] = n /\ pc'[s] = "idle"
          /\ \A t \in Socket : t # s => /\ pc'[t] = pc[t] /\ arg'[t] = arg[t]
                                        /\ removed'[t] = removed[t]
                                        /\ connected'[t] = connected[t]
      BY <1>0, <1>7 DEF ConnectPend, Finish, TypeOK
    <2>3. \A t \in Socket, m \in Name : t # s => Entries(t, m)' <= Entries(t, m)
      BY <1>7, <1>a, ConnectPendEntries
    <2>4. Exclusive => \A m \in Name : Entries(s, m)' = IF m = n THEN 1 ELSE 0
      BY <1>7, <2>1, UnconnectedHasNone, ConnectPendEntries
    <2> HIDE DEF n
    <2> QED BY <1>0, <2>2, <2>3, <2>4, OtherSocket
         DEF LinksPart, CallsAgree, NoGhostPeer, ListedOnce
  <1>8. ASSUME NEW s \in Socket, DisconnectPending(s) PROVE LinksPart'
    <2> DEFINE n == arg[s]
    <2>1. n \in Name /\ connected[s] = n /\ (Exclusive /\ removed[s] => Entries(s, n) = 0)
      BY <1>8 DEF DisconnectPending, IInv, CallsAgree
    <2>2. /\ connected'[s] = NoName /\ pc'[s] = "idle"
          /\ \A t \in Socket : t # s => /\ pc'[t] = pc[t] /\ arg'[t] = arg[t]
                                        /\ removed'[t] = removed[t]
                                        /\ connected'[t] = connected[t]
      BY <1>0, <1>8 DEF DisconnectPending, Finish, TypeOK
    <2>3. \A t \in Socket, m \in Name : Entries(t, m)' <= Entries(t, m)
      BY <1>8, DisconnectPendingEntries DEF EntriesShrink
    <2>4. \A m \in Name : Exclusive /\ m = n => Entries(s, m)' = 0
      <3>1. Entries(s, n) = pending[n][s] + PeerEntries(s, n)
        BY DEF Entries
      <3>2. pending[n][s] \in Nat /\ PeerEntries(s, n) \in Nat
        BY <1>0, <2>1, EntriesType
      <3>3. Exclusive => Entries(s, n) <= 1
        BY <2>1 DEF IInv, ListedOnce
      <3>4. removed[s] \/ pending[n][s] > 0
        BY <1>8 DEF DisconnectPending
      <3>5. Exclusive => PeerEntries(s, n) = 0
        BY <2>1, <3>1, <3>2, <3>3, <3>4
      <3>6. ASSUME NEW m \in Name, m = n PROVE Entries(s, m)' = PeerEntries(s, m)
        BY <1>8, <3>6, DisconnectPendingEntries
      <3>7. ASSUME NEW m \in Name, m = n, Exclusive PROVE Entries(s, m)' = 0
        BY <3>5, <3>6, <3>7
      <3> QED BY <3>7
    <2>5. Exclusive => \A m \in Name : m # n => Entries(s, m)' = 0
      BY <1>a, <2>1, <2>3 DEF IInv, NoGhostPeer
    <2>6. Exclusive => \A m \in Name : Entries(s, m)' = 0
      BY <2>4, <2>5
    <2> HIDE DEF n
    <2> QED BY <1>0, <2>2, <2>3, <2>6, OtherSocket
         DEF LinksPart, CallsAgree, NoGhostPeer, ListedOnce
  <1>9. ASSUME NEW s \in Socket, DisconnectNothing(s) PROVE LinksPart'
    <2>1. /\ connected' = connected /\ pc'[s] = "idle"
          /\ \A t \in Socket : t # s => /\ pc'[t] = pc[t] /\ arg'[t] = arg[t]
                                        /\ removed'[t] = removed[t]
      BY <1>0, <1>9 DEF DisconnectNothing, Finish, TypeOK, local
    <2>2. \A t \in Socket, m \in Name : Entries(t, m)' = Entries(t, m)
      BY <1>9, SameEntries DEF DisconnectNothing
    <2>3. Exclusive => \A m \in Name : /\ Entries(s, m)' > 0 => connected'[s] = m
                                       /\ Entries(s, m)' <= 1
      BY <2>1, <2>2 DEF IInv, NoGhostPeer, ListedOnce
    <2>4. \A t \in Socket, m \in Name : Entries(t, m)' <= Entries(t, m)
      BY <1>a, <2>2
    <2> QED BY <1>0, <2>1, <2>3, <2>4, OtherSocket
         DEF LinksPart, CallsAgree, NoGhostPeer, ListedOnce
  <1>10. ASSUME NEW b \in Socket, NEW s \in Socket, DisconnectPeer(b, s)
         PROVE  LinksPart'
    BY <1>0, <1>10, LinksShrink, DisconnectPeerEntries DEF DisconnectPeer, local
  <1>11. CASE UNCHANGED vars
    <2>1. EntriesShrink
      BY <1>11, <1>a, SameEntries DEF vars, EntriesShrink
    <2> QED BY <1>0, <1>11, <2>1, LinksShrink DEF vars
  <1> QED BY <1>1, <1>2, <1>3, <1>4, <1>5, <1>6, <1>7, <1>8, <1>9, <1>10, <1>11
       DEF Next, Call, Resume

-----------------------------------------------------------------------------
(* The registry's invariants hold in every reachable state, whatever the
   numbers of sockets and names, and whatever the applications do. *)
THEOREM RegistryInvariant == Spec => []IInv
  <1>1. IInv /\ [Next]_vars => IInv'
    BY TypeStep, NamesStep, CompatibleStep, LinksStep DEF IInv, NamesPart, LinksPart
  <1> QED BY InitIInv, <1>1, PTL DEF Spec

(* A socket's unbind can only ever remove its own endpoint. *)
THEOREM BoundNameIsOwned == Spec => []OwnsBoundName
  BY RegistryInvariant, PTL DEF IInv

(* Only sockets that can talk to each other are ever linked. *)
THEOREM PeersAlwaysCompatible == Spec => []PeersCompatible
  BY RegistryInvariant, PTL DEF IInv

(* Sockets that connect to one name at a time leave no entry behind: what
   NoGhostPeer says holds for any number of sockets, names and calls. *)
THEOREM NoGhostEver == Spec => []NoGhostPeer
  BY RegistryInvariant, PTL DEF IInv

(* They are never listed twice either, in whichever of the two lists. *)
THEOREM AlwaysListedOnce == Spec => []ListedOnce
  BY RegistryInvariant, PTL DEF IInv

-----------------------------------------------------------------------------
(* What a step leads a waiting socket to. *)
Served(t, m) ==
  \/ endpoints'[m] # 0 /\ heap'[endpoints'[m]].peers[t] = pending[m][t]
  \/ DisconnectPending(t)
  \/ \E b \in Socket : BindIncompatible(b, m)

(* The waiting list loses a socket only to the binder, to the socket's own
   disconnect or to a bind that fails. *)
LEMMA ServedStep ==
  ASSUME IInv, [Next]_vars, NEW t \in Socket, NEW m \in Name,
         pending[m][t] > 0, pending'[m][t] = 0
  PROVE  Served(t, m)
  <1>0. TypeOK /\ Len(heap) \in Nat
    BY DEF IInv, TypeOK
  <1>1. ASSUME UNCHANGED pending PROVE FALSE
    BY <1>0, <1>1 DEF TypeOK
  <1>2. ASSUME NEW s \in Socket, NEW n \in Name, Bind(s, n) PROVE Served(t, m)
    <2>1. m = n
      BY <1>0, <1>2, BindHeap DEF TypeOK
    <2>2. endpoints'[n] # 0 /\ heap'[endpoints'[n]].peers = pending[n]
      BY <1>0, <1>2, BindHeap
    <2> QED BY <2>1, <2>2 DEF Served
  <1>3. ASSUME NEW s \in Socket, NEW n \in Name, BindIncompatible(s, n)
        PROVE  Served(t, m)
    <2>1. m = n
      BY <1>0, <1>3 DEF BindIncompatible, PendingTaken, TypeOK
    <2> QED BY <1>3, <2>1 DEF Served
  <1>4. ASSUME NEW s \in Socket, ConnectPend(s) PROVE FALSE
    BY <1>0, <1>4 DEF ConnectPend, TypeOK
  <1>5. ASSUME NEW s \in Socket, DisconnectPending(s) PROVE Served(t, m)
    <2>1. t = s
      BY <1>0, <1>5 DEF DisconnectPending, WaitingWithout, TypeOK
    <2> QED BY <1>5, <2>1 DEF Served
  <1>6. ASSUME NEW s \in Socket, NEW n \in Name,
               \/ Unbind(s, n) \/ ConnectBound(s, n) \/ ConnectMissed(s, n)
               \/ DisconnectPeers(s, n) \/ DisconnectNothing(s)
        PROVE  FALSE
    BY <1>1, <1>6
       DEF Unbind, ConnectBound, ConnectMissed, DisconnectPeers, DisconnectNothing
  <1>7. ASSUME NEW b \in Socket, NEW s \in Socket, DisconnectPeer(b, s) PROVE FALSE
    BY <1>1, <1>7 DEF DisconnectPeer
  <1>8. CASE UNCHANGED vars
    BY <1>1, <1>8 DEF vars
  <1> QED BY <1>2, <1>3, <1>4, <1>5, <1>6, <1>7, <1>8 DEF Next, Call, Resume

(* Nobody drops off the waiting list of a name unserved: not by a bind of
   another name, a disconnect of another socket or an unbind. *)
THEOREM WaitingAlwaysServed == Spec => WaitingIsServed
  <1>1. IInv /\ [Next]_vars =>
          [\A s \in Socket, n \in Name :
             pending[n][s] > 0 /\ pending'[n][s] = 0 =>
               \/ endpoints'[n] # 0 /\ heap'[endpoints'[n]].peers[s] = pending[n][s]
               \/ DisconnectPending(s)
               \/ \E b \in Socket : BindIncompatible(b, n)]_vars
    BY ServedStep DEF Served
  <1> QED BY <1>1, RegistryInvariant, PTL DEF Spec, WaitingIsServed

-----------------------------------------------------------------------------
(* Messages of the C ABI. *)

Bodies == {"", "bytes"}

(* A zmq_msg_t in use, and a message of the core. *)
Shape == [kind : {"owned", "external"}, data : Buffers \cup Bodies, more : BOOLEAN,
          routing_id : 0 .. 2, metadata : -1 .. 2]
Core == [data : Bodies, more : BOOLEAN, routing_id : 0 .. 2, metadata : -1 .. 2]

(* A set routing id is told by the metadata too, unless there is none. *)
Agrees(c) == c.routing_id # 0 => c.metadata = c.routing_id
AlmostAgrees(c) == c.routing_id # 0 => c.metadata \in {c.routing_id, -1}

Sound(c) ==
  /\ c.kind = "external" => c.data \in Buffers
  /\ c.kind = "owned" => c.data \in Bodies
  /\ c.kind # "closed" => Agrees(c)

MsgTypes ==
  /\ slot \in [Msgs -> Shape \cup {Message!Closed}]
  /\ \A m \in Msgs : Sound(slot[m])
  /\ queue \in Seq(Core)
  /\ \A i \in 1 .. Len(queue) : AlmostAgrees(queue[i])
  /\ given \subseteq Buffers
  /\ arc \in [Buffers -> Nat] /\ freed \in [Buffers -> 0 .. 1]
  /\ leaked \in [Buffers -> 0 .. MaxLeaks]

(* The messages of f that point to a buffer. *)
Points(c, b) == c.kind = "external" /\ c.data = b
HoldersIn(f, b) == {m \in Msgs : Points(f[m], b)}
Counts(c, b) == IF Points(c, b) THEN 1 ELSE 0

(* The strong count of a buffer is the number of the messages that point   *)
(* to it and of the boxes that were overwritten with it; its free function *)
(* has run when that is nobody.                                            *)
Counting ==
  \A b \in Buffers :
    /\ arc[b] = Cardinality(HoldersIn(slot, b)) + leaked[b]
    /\ freed[b] = IF b \in given /\ arc[b] = 0 THEN 1 ELSE 0
    /\ b \notin given => arc[b] = 0

(* The inductive invariant of the messages. *)
MsgInv == MsgTypes /\ Counting

LEMMA SomeHold ==
  ASSUME FacadeAssumption, NEW f, NEW b
  PROVE  /\ IsFiniteSet(HoldersIn(f, b)) /\ Cardinality(HoldersIn(f, b)) \in Nat
         /\ Cardinality(HoldersIn(f, b)) <= Cardinality(Msgs) /\ Cardinality(Msgs) \in Nat
         /\ \A m \in HoldersIn(f, b) : Cardinality(HoldersIn(f, b)) > 0
<1>1. IsFiniteSet(Msgs) /\ HoldersIn(f, b) \subseteq Msgs BY DEF FacadeAssumption, HoldersIn
<1>2. IsFiniteSet(HoldersIn(f, b)) /\ Cardinality(HoldersIn(f, b)) <= Cardinality(Msgs)
  BY <1>1, FS_Subset
<1>3. Cardinality(HoldersIn(f, b)) \in Nat /\ Cardinality(Msgs) \in Nat
  BY <1>1, <1>2, FS_CardinalityType
<1>4. ASSUME NEW m \in HoldersIn(f, b) PROVE Cardinality(HoldersIn(f, b)) # 0
  BY <1>2, FS_EmptySet
<1> QED BY <1>2, <1>3, <1>4

(* What one zmq_msg_t points to changes: a holder goes, or comes. *)
LEMMA OneSlot ==
  ASSUME FacadeAssumption, NEW f, NEW g, NEW b, NEW m \in Msgs,
         \A k \in Msgs \ {m} : g[k] = f[k]
  PROVE  Cardinality(HoldersIn(g, b)) =
           Cardinality(HoldersIn(f, b)) - Counts(f[m], b) + Counts(g[m], b)
<1> DEFINE F == HoldersIn(f, b)
           G == HoldersIn(g, b)
           R == F \ {m}
<1>1. IsFiniteSet(F) /\ Cardinality(F) \in Nat BY SomeHold
<1>2. IsFiniteSet(R) /\ Cardinality(R) \in Nat
  <2>1. IsFiniteSet(R) BY <1>1, FS_Subset, Zenon
  <2> QED BY <2>1, FS_CardinalityType
<1>3. m \notin R /\ F = (IF m \in F THEN R \cup {m} ELSE R) /\ G = (IF m \in G THEN R \cup {m} ELSE R)
  BY DEF HoldersIn
<1>4. Cardinality(R \cup {m}) = Cardinality(R) + 1 BY <1>2, <1>3, FS_AddElement
<1>5. Counts(f[m], b) = (IF m \in F THEN 1 ELSE 0) /\ Counts(g[m], b) = (IF m \in G THEN 1 ELSE 0)
  BY DEF HoldersIn, Counts
<1> HIDE DEF F, G, R
<1>6. Cardinality(F) = Cardinality(R) + (IF m \in F THEN 1 ELSE 0)
  <2>1. CASE m \in F BY <1>3, <1>4, <2>1
  <2>2. CASE m \notin F
    <3>1. F = R BY <1>3, <2>2, Zenon
    <3> QED BY <1>2, <2>2, <3>1
  <2> QED BY <2>1, <2>2
<1>7. Cardinality(G) = Cardinality(R) + (IF m \in G THEN 1 ELSE 0)
  <2>1. CASE m \in G BY <1>3, <1>4, <2>1
  <2>2. CASE m \notin G
    <3>1. G = R BY <1>3, <2>2, Zenon
    <3> QED BY <1>2, <2>2, <3>1
  <2> QED BY <2>1, <2>2
<1>8. Cardinality(G) = Cardinality(F) - Counts(f[m], b) + Counts(g[m], b)
  BY <1>2, <1>5, <1>6, <1>7
<1> QED BY <1>8 DEF F, G

(* A message that points to a buffer: the buffer was given and is counted. *)
LEMMA HeldIsGiven ==
  ASSUME FacadeAssumption, MsgInv, NEW m \in Msgs, NEW b \in Buffers, Points(slot[m], b)
  PROVE  b \in given /\ arc[b] > 0 /\ freed[b] = 0
<1>1. m \in HoldersIn(slot, b) BY DEF HoldersIn
<1>2. Cardinality(HoldersIn(slot, b)) \in Nat \ {0} BY <1>1, SomeHold
<1> QED BY <1>2 DEF MsgInv, Counting, MsgTypes

LEMMA OwnedHoldsNothing ==
  ASSUME NEW c, c.kind # "external"
  PROVE  \A b : Counts(c, b) = 0
BY DEF Counts, Points

LEMMA SlotOnly ==
  ASSUME FacadeAssumption, NEW m \in Msgs, NEW f, NEW g,
         \A k \in Msgs \ {m} : g[k] = f[k], NEW b
  PROVE  /\ Cardinality(HoldersIn(g, b)) =
              Cardinality(HoldersIn(f, b)) - Counts(f[m], b) + Counts(g[m], b)
         /\ Cardinality(HoldersIn(f, b)) \in Nat
         /\ Cardinality(HoldersIn(g, b)) \in Nat
         /\ Counts(g[m], b) \in 0 .. 1 /\ Counts(f[m], b) \in 0 .. 1
<1>3. Cardinality(HoldersIn(g, b)) =
        Cardinality(HoldersIn(f, b)) - Counts(f[m], b) + Counts(g[m], b)
  BY OneSlot
<1>4. Cardinality(HoldersIn(f, b)) \in Nat /\ Cardinality(HoldersIn(g, b)) \in Nat
  BY SomeHold
<1>5. Counts(g[m], b) \in 0 .. 1 /\ Counts(f[m], b) \in 0 .. 1 BY DEF Counts
<1> QED BY <1>3, <1>4, <1>5

LEMMA SlotSet ==
  ASSUME FacadeAssumption, MsgInv, NEW m \in Msgs, NEW c,
         slot' = [slot EXCEPT ![m] = c], NEW b
  PROVE  /\ Cardinality(HoldersIn(slot', b)) =
              Cardinality(HoldersIn(slot, b)) - Counts(slot[m], b) + Counts(c, b)
         /\ Cardinality(HoldersIn(slot, b)) \in Nat
         /\ Cardinality(HoldersIn(slot', b)) \in Nat
         /\ Counts(c, b) \in 0 .. 1 /\ Counts(slot[m], b) \in 0 .. 1
<1>1. slot'[m] = c /\ \A k \in Msgs \ {m} : slot'[k] = slot[k] BY DEF MsgInv, MsgTypes
<1> DEFINE g == slot'
<1>2. g[m] = c /\ \A k \in Msgs \ {m} : g[k] = slot[k] BY <1>1
<1> HIDE DEF g
<1>3. /\ Cardinality(HoldersIn(g, b)) =
           Cardinality(HoldersIn(slot, b)) - Counts(slot[m], b) + Counts(g[m], b)
      /\ Cardinality(HoldersIn(slot, b)) \in Nat
      /\ Cardinality(HoldersIn(g, b)) \in Nat
      /\ Counts(g[m], b) \in 0 .. 1 /\ Counts(slot[m], b) \in 0 .. 1
  BY <1>2, SlotOnly
<1>4. /\ Cardinality(HoldersIn(g, b)) =
           Cardinality(HoldersIn(slot, b)) - Counts(slot[m], b) + Counts(c, b)
      /\ Cardinality(HoldersIn(slot, b)) \in Nat
      /\ Cardinality(HoldersIn(g, b)) \in Nat
      /\ Counts(c, b) \in 0 .. 1 /\ Counts(slot[m], b) \in 0 .. 1
  BY <1>2, <1>3
<1> QED BY <1>4 DEF g

(* The counts after a step, told by the messages after it. *)
LEMMA CountingNext ==
  ASSUME \A b \in Buffers :
           /\ arc'[b] = Cardinality(HoldersIn(slot', b)) + leaked'[b]
           /\ freed'[b] = IF b \in given' /\ arc'[b] = 0 THEN 1 ELSE 0
           /\ b \notin given' => arc'[b] = 0
  PROVE  Counting'
BY DEF Counting, HoldersIn

LEMMA ShapeType ==
  ASSUME NEW m \in Msgs, NEW c \in Shape \cup {Message!Closed}, MsgInv,
         Sound(c), slot' = [slot EXCEPT ![m] = c]
  PROVE  /\ slot' \in [Msgs -> Shape \cup {Message!Closed}]
         /\ \A k \in Msgs : Sound(slot'[k])
<1>1. slot \in [Msgs -> Shape \cup {Message!Closed}] BY DEF MsgInv, MsgTypes
<1>2. ASSUME NEW k \in Msgs PROVE slot'[k] = c \/ slot'[k] = slot[k] BY <1>1
<1> QED BY <1>1, <1>2 DEF MsgInv, MsgTypes

LEMMA MsgInitMsgInv ==
  ASSUME FacadeAssumption, MsgInv, NEW m \in Msgs, Message!MsgInit(m)
  PROVE  MsgInv'
<1>1. PICK data \in Bodies : slot' = [slot EXCEPT ![m] = Message!Owned(data)]
  BY DEF Message!MsgInit, Bodies
<1> DEFINE c == Message!Owned(data)
<1>2. c \in Shape /\ c.kind = "owned" /\ Sound(c)
  BY DEF Shape, Message!Owned, Message!NoMetadata, Agrees, Sound
<1>3. slot[m] = Message!Closed /\ UNCHANGED <<given, arc, freed, leaked, queue>>
  BY DEF Message!MsgInit
<1>4. MsgTypes' 
  <2> HIDE DEF c
  <2>1. /\ slot' \in [Msgs -> Shape \cup {Message!Closed}]
        /\ \A k \in Msgs : Sound(slot'[k])
    BY <1>1, <1>2, ShapeType DEF c
  <2> QED BY <1>3, <2>1 DEF MsgInv, MsgTypes
<1>5. Counting'
  <2> HIDE DEF c
  <2>1. ASSUME NEW b \in Buffers PROVE Cardinality(HoldersIn(slot', b)) = Cardinality(HoldersIn(slot, b))
    <3>1. Counts(slot[m], b) = 0 /\ Counts(c, b) = 0
      BY <1>2, <1>3, OwnedHoldsNothing DEF Message!Closed
    <3>2. /\ Cardinality(HoldersIn(slot', b)) = Cardinality(HoldersIn(slot, b)) - Counts(slot[m], b) + Counts(c, b)
          /\ Cardinality(HoldersIn(slot, b)) \in Nat
      BY <1>1, SlotSet DEF c
    <3> QED BY <3>1, <3>2
  <2> QED BY <1>3, <2>1, CountingNext DEF MsgInv, Counting
<1> QED BY <1>4, <1>5 DEF MsgInv

LEMMA MsgInitDataMsgInv ==
  ASSUME FacadeAssumption, MsgInv, NEW m \in Msgs, Message!MsgInitData(m)
  PROVE  MsgInv'
<1>1. PICK d \in Buffers \ given :
        /\ slot' = [slot EXCEPT ![m] = Message!External(d)]
        /\ given' = given \cup {d} /\ arc' = [arc EXCEPT ![d] = 1]
  BY DEF Message!MsgInitData
<1> DEFINE c == Message!External(d)
<1>2. /\ c \in Shape /\ c.kind = "external" /\ c.data = d /\ Sound(c)
  <2> DEFINE o == [kind |-> "owned", data |-> d, more |-> FALSE, routing_id |-> 0, metadata |-> -1]
  <2>1. c = [o EXCEPT !.kind = "external"]
    BY DEF Message!External, Message!Owned, Message!NoMetadata
  <2>2. o \in Shape /\ o.data = d /\ o.routing_id = 0 BY DEF Shape
  <2> HIDE DEF o
  <2>3. [o EXCEPT !.kind = "external"] \in Shape BY <2>2 DEF Shape
  <2>4. c.kind = "external" /\ c.data = d /\ c.routing_id = 0 BY <2>1, <2>2 DEF Shape
  <2> QED BY <2>1, <2>3, <2>4 DEF Agrees, Sound
<1>3. slot[m] = Message!Closed /\ UNCHANGED <<freed, leaked, queue>>
  BY DEF Message!MsgInitData
<1> HIDE DEF c
<1>4. MsgTypes' 
  <2>1. /\ slot' \in [Msgs -> Shape \cup {Message!Closed}]
        /\ \A k \in Msgs : Sound(slot'[k])
    BY <1>1, <1>2, ShapeType DEF c
  <2>2. given' \subseteq Buffers /\ arc' \in [Buffers -> Nat] BY <1>1 DEF MsgInv, MsgTypes
  <2> QED BY <1>3, <2>1, <2>2 DEF MsgInv, MsgTypes
<1>5. Counting'
  <2>1. ASSUME NEW b \in Buffers
        PROVE Cardinality(HoldersIn(slot', b)) = Cardinality(HoldersIn(slot, b)) + IF b = d THEN 1 ELSE 0
    <3>1. Counts(slot[m], b) = 0 BY <1>3, OwnedHoldsNothing DEF Message!Closed
    <3>2. Counts(c, b) = IF b = d THEN 1 ELSE 0 BY <1>2 DEF Counts, Points
    <3>3. /\ Cardinality(HoldersIn(slot', b)) = Cardinality(HoldersIn(slot, b)) - Counts(slot[m], b) + Counts(c, b)
          /\ Cardinality(HoldersIn(slot, b)) \in Nat
      BY <1>1, SlotSet DEF c
    <3> QED BY <3>1, <3>2, <3>3
  <2>2. ASSUME NEW b \in Buffers PROVE Cardinality(HoldersIn(slot, b)) \in Nat BY SomeHold
  <2> DEFINE N(b) == Cardinality(HoldersIn(slot, b))
             M(b) == Cardinality(HoldersIn(slot', b))
  <2>3. /\ \A b \in Buffers : M(b) = N(b) + (IF b = d THEN 1 ELSE 0) /\ N(b) \in Nat
        /\ \A b \in Buffers : arc[b] = N(b) + leaked[b]
    BY <2>1, <2>2 DEF MsgInv, Counting
  <2> HIDE DEF N, M
  <2>4. ASSUME NEW b \in Buffers
        PROVE  /\ arc'[b] = M(b) + leaked'[b]
               /\ freed'[b] = IF b \in given' /\ arc'[b] = 0 THEN 1 ELSE 0
               /\ b \notin given' => arc'[b] = 0
    <3>1. /\ M(b) = N(b) + (IF b = d THEN 1 ELSE 0) /\ N(b) \in Nat
          /\ arc[b] = N(b) + leaked[b]
      BY <2>3
    <3>2. /\ freed[b] = IF b \in given /\ arc[b] = 0 THEN 1 ELSE 0
          /\ b \notin given => arc[b] = 0
      BY DEF MsgInv, Counting
    <3>3. arc[b] \in Nat /\ leaked[b] \in Nat /\ arc'[b] = IF b = d THEN 1 ELSE arc[b]
      BY <1>1 DEF MsgInv, MsgTypes
    <3> QED BY <1>1, <1>3, <3>1, <3>2, <3>3
  <2> QED BY <2>4, CountingNext DEF M
<1> QED BY <1>4, <1>5 DEF MsgInv

(* The box of m is dropped and m points to c, which shares no buffer. *)
LEMMA DroppedMsgInv ==
  ASSUME FacadeAssumption, MsgInv, NEW m \in Msgs, NEW c \in Shape \cup {Message!Closed},
         c.kind # "external", Sound(c),
         slot' = [slot EXCEPT ![m] = c], Message!Dropped(slot[m]), UNCHANGED <<given, leaked>>,
         queue' \in Seq(Core), \A i \in 1 .. Len(queue') : AlmostAgrees(queue'[i])
  PROVE  MsgInv'
<1>1. \A b \in Buffers :
        /\ Cardinality(HoldersIn(slot', b)) = Cardinality(HoldersIn(slot, b)) - Counts(slot[m], b)
        /\ Cardinality(HoldersIn(slot', b)) \in Nat /\ Cardinality(HoldersIn(slot, b)) \in Nat
        /\ Counts(slot[m], b) \in 0 .. 1
  <2> TAKE b \in Buffers
  <2>1. Counts(c, b) = 0 BY OwnedHoldsNothing
  <2>2. /\ Cardinality(HoldersIn(slot', b)) = Cardinality(HoldersIn(slot, b)) - Counts(slot[m], b) + Counts(c, b)
        /\ Cardinality(HoldersIn(slot', b)) \in Nat /\ Cardinality(HoldersIn(slot, b)) \in Nat
        /\ Counts(slot[m], b) \in 0 .. 1
    BY SlotSet
  <2> QED BY <2>1, <2>2
<1>2. \A b \in Buffers : Counts(slot[m], b) = 1 => b \in given /\ arc[b] > 0 /\ freed[b] = 0
  BY HeldIsGiven DEF Counts
<1>3. /\ arc' = [b \in Buffers |-> IF Counts(slot[m], b) = 1 THEN arc[b] - 1 ELSE arc[b]]
      /\ freed' = [b \in Buffers |-> IF Counts(slot[m], b) = 1 /\ arc[b] = 1
                                     THEN freed[b] + 1 ELSE freed[b]]
  BY DEF Message!Dropped, Message!Holds, Points, Counts
<1>4. MsgTypes' 
  <2>1. /\ slot' \in [Msgs -> Shape \cup {Message!Closed}]
        /\ \A k \in Msgs : Sound(slot'[k])
    BY ShapeType
  <2>2. arc' \in [Buffers -> Nat] /\ freed' \in [Buffers -> 0 .. 1]
    BY <1>1, <1>2, <1>3 DEF MsgInv, MsgTypes
  <2> QED BY <2>1, <2>2 DEF MsgInv, MsgTypes
<1>5. Counting'
  <2> DEFINE N(b) == Cardinality(HoldersIn(slot, b))
             M(b) == Cardinality(HoldersIn(slot', b))
             C(b) == Counts(slot[m], b)
  <2>3. /\ \A b \in Buffers : M(b) = N(b) - C(b) /\ N(b) \in Nat /\ M(b) \in Nat /\ C(b) \in 0 .. 1
        /\ \A b \in Buffers : arc[b] = N(b) + leaked[b]
        /\ \A b \in Buffers : C(b) = 1 => b \in given /\ arc[b] > 0 /\ freed[b] = 0
        /\ \A b \in Buffers : arc'[b] = IF C(b) = 1 THEN arc[b] - 1 ELSE arc[b]
        /\ \A b \in Buffers : freed'[b] = IF C(b) = 1 /\ arc[b] = 1 THEN freed[b] + 1 ELSE freed[b]
    BY <1>1, <1>2, <1>3 DEF MsgInv, Counting
  <2> HIDE DEF N, M, C
  <2>4. ASSUME NEW b \in Buffers
        PROVE  /\ arc'[b] = M(b) + leaked'[b]
               /\ freed'[b] = IF b \in given' /\ arc'[b] = 0 THEN 1 ELSE 0
               /\ b \notin given' => arc'[b] = 0
    <3>1. /\ freed[b] = IF b \in given /\ arc[b] = 0 THEN 1 ELSE 0
          /\ b \notin given => arc[b] = 0
      BY DEF MsgInv, Counting
    <3>2. arc[b] \in Nat /\ leaked[b] \in Nat /\ freed[b] \in 0 .. 1 BY DEF MsgInv, MsgTypes
    <3>3. /\ M(b) = N(b) - C(b) /\ N(b) \in Nat /\ M(b) \in Nat /\ C(b) \in 0 .. 1
          /\ arc[b] = N(b) + leaked[b] /\ (C(b) = 1 => b \in given /\ arc[b] > 0 /\ freed[b] = 0)
          /\ arc'[b] = IF C(b) = 1 THEN arc[b] - 1 ELSE arc[b]
          /\ freed'[b] = IF C(b) = 1 /\ arc[b] = 1 THEN freed[b] + 1 ELSE freed[b]
      BY <2>3
    <3>6. given' = given /\ leaked'[b] = leaked[b] OBVIOUS
    <3>4. CASE C(b) = 1
      <4>1. arc'[b] = arc[b] - 1 /\ b \in given BY <3>3, <3>4
      <4>2. arc'[b] = M(b) + leaked'[b] BY <3>2, <3>3, <3>4, <3>6
      <4>3. freed'[b] = IF arc[b] = 1 THEN 1 ELSE 0
        <5>1. CASE arc[b] = 1 BY <3>3, <3>4, <5>1
        <5>2. CASE arc[b] # 1 BY <3>3, <3>4, <5>2
        <5> QED BY <5>1, <5>2
      <4> QED BY <3>2, <3>6, <4>1, <4>2, <4>3
    <3>5. CASE C(b) = 0
      <4>1. arc'[b] = arc[b] /\ freed'[b] = freed[b] BY <3>3, <3>5
      <4>2. M(b) = N(b) BY <3>3, <3>5
      <4> QED BY <3>1, <3>2, <3>3, <3>6, <4>1, <4>2
    <3> QED BY <3>3, <3>4, <3>5
  <2> QED BY <2>4, CountingNext DEF M
<1> QED BY <1>4, <1>5 DEF MsgInv

LEMMA ClosedShape == Message!Closed.kind = "closed" /\ Sound(Message!Closed)
BY DEF Message!Closed, Sound

LEMMA MsgCloseMsgInv ==
  ASSUME FacadeAssumption, MsgInv, NEW m \in Msgs, Message!MsgClose(m)
  PROVE  MsgInv'
<1>1. slot' = [slot EXCEPT ![m] = Message!Closed] /\ Message!Dropped(slot[m])
      /\ UNCHANGED <<given, leaked>> /\ queue' = queue
  BY DEF Message!MsgClose
<1>2. queue' \in Seq(Core) /\ \A i \in 1 .. Len(queue') : AlmostAgrees(queue'[i])
  BY <1>1 DEF MsgInv, MsgTypes
<1> HIDE DEF Message!Closed
<1> QED BY <1>1, <1>2, ClosedShape, DroppedMsgInv

(* A core message and the zmq_msg_t made of it. *)
LEMMA FromCoreShape ==
  ASSUME NEW core \in Core, AlmostAgrees(core)
  PROVE  /\ Message!FromCore(core) \in Shape /\ Message!FromCore(core).kind = "owned"
         /\ Sound(Message!FromCore(core))
<1>1. /\ core.data \in Bodies /\ core.more \in BOOLEAN /\ core.routing_id \in 0 .. 2
      /\ core.metadata \in -1 .. 2
  BY DEF Core
<1>2. Message!MetadataOf(core) \in -1 .. 2 BY <1>1 DEF Message!MetadataOf, Message!NoMetadata
<1>3. core.routing_id # 0 => Message!MetadataOf(core) = core.routing_id
  BY <1>1 DEF Message!MetadataOf, Message!NoMetadata, AlmostAgrees
<1> HIDE DEF Message!MetadataOf
<1> QED BY <1>1, <1>2, <1>3 DEF Message!FromCore, Shape, Agrees, Sound

LEMMA MsgRecvMsgInv ==
  ASSUME FacadeAssumption, MsgInv, NEW m \in Msgs, Message!MsgRecv(m)
  PROVE  MsgInv'
<1> DEFINE c == Message!FromCore(Head(queue))
<1>1. /\ slot' = [slot EXCEPT ![m] = c] /\ Message!Dropped(slot[m])
      /\ UNCHANGED <<given, leaked>> /\ queue # <<>> /\ queue' = Tail(queue)
  BY DEF Message!MsgRecv, Message!Replace
<1>2. queue \in Seq(Core) /\ \A i \in 1 .. Len(queue) : AlmostAgrees(queue[i])
  BY DEF MsgInv, MsgTypes
<1>3. Len(queue) > 0 /\ Head(queue) = queue[1] /\ queue[1] \in Core BY <1>1, <1>2
<1>4. c \in Shape /\ c.kind = "owned" /\ Sound(c) BY <1>2, <1>3, FromCoreShape
<1>5. queue' \in Seq(Core) /\ \A i \in 1 .. Len(queue') : AlmostAgrees(queue'[i])
  <2>1. /\ Tail(queue) \in Seq(Core) /\ Len(Tail(queue)) = Len(queue) - 1
        /\ \A i \in 1 .. Len(Tail(queue)) : Tail(queue)[i] = queue[i + 1]
    BY <1>2, <1>3
  <2> QED BY <1>1, <1>2, <1>3, <2>1
<1> HIDE DEF c
<1> QED BY <1>1, <1>4, <1>5, DroppedMsgInv

(* Steps that leave the messages and the buffers alone. *)
LEMMA QueueMsgInv ==
  ASSUME MsgInv, UNCHANGED <<slot, given, arc, freed, leaked>>,
         queue' \in Seq(Core), \A i \in 1 .. Len(queue') : AlmostAgrees(queue'[i])
  PROVE  MsgInv'
BY DEF MsgInv, MsgTypes, Counting, HoldersIn

LEMMA AppendedMsgInv ==
  ASSUME MsgInv, UNCHANGED <<slot, given, arc, freed, leaked>>, NEW c \in Core, AlmostAgrees(c),
         queue' = Append(queue, c)
  PROVE  MsgInv'
<1>1. queue \in Seq(Core) /\ \A i \in 1 .. Len(queue) : AlmostAgrees(queue[i])
  BY DEF MsgInv, MsgTypes
<1>2. queue' \in Seq(Core) /\ \A i \in 1 .. Len(queue') : AlmostAgrees(queue'[i])
  BY <1>1
<1> QED BY <1>2, QueueMsgInv

LEMMA MsgSendMsgInv ==
  ASSUME FacadeAssumption, MsgInv, NEW m \in Msgs, Message!MsgSend(m)
  PROVE  MsgInv'
<1> DEFINE core == Message!ToCore(slot[m])
<1>1. PICK sndmore \in BOOLEAN : queue' = Append(queue, [core EXCEPT !.more = @ \/ sndmore])
  BY DEF Message!MsgSend
<1>2. slot[m] \in Shape /\ slot[m] # Message!Closed /\ UNCHANGED <<slot, given, arc, freed, leaked>>
  BY DEF Message!MsgSend, MsgInv, MsgTypes
<1>3. slot[m].kind # "external" => slot[m].data \in Bodies
  BY <1>2 DEF MsgInv, MsgTypes, Sound, Shape
<1>4. core \in Core /\ core.metadata = -1
  <2> DEFINE d == IF slot[m].kind = "external" THEN "bytes" ELSE slot[m].data
  <2>1. d \in Bodies BY <1>3 DEF Bodies
  <2>2. slot[m].more \in BOOLEAN /\ slot[m].routing_id \in 0 .. 2 BY <1>2 DEF Shape
  <2>3. core = [data |-> d, more |-> slot[m].more, routing_id |-> slot[m].routing_id,
                metadata |-> -1]
    BY DEF Message!ToCore, Message!NoMetadata
  <2> HIDE DEF d, core
  <2> QED BY <2>1, <2>2, <2>3 DEF Core
<1> HIDE DEF core
<1> DEFINE sent == [core EXCEPT !.more = @ \/ sndmore]
<1>5. sent \in Core /\ AlmostAgrees(sent) BY <1>4 DEF Core, AlmostAgrees
<1> HIDE DEF sent
<1> QED BY <1>1, <1>2, <1>5, AppendedMsgInv DEF sent

LEMMA ArriveMsgInv ==
  ASSUME FacadeAssumption, MsgInv, Message!Arrive
  PROVE  MsgInv'
<1>1. PICK r \in 0 .. 1, more \in BOOLEAN :
        queue' = Append(queue, [data |-> "bytes", more |-> more, routing_id |-> r, metadata |-> r])
  BY DEF Message!Arrive
<1>2. UNCHANGED <<slot, given, arc, freed, leaked>> BY DEF Message!Arrive
<1> DEFINE c == [data |-> "bytes", more |-> more, routing_id |-> r, metadata |-> r]
<1>3. c \in Core /\ AlmostAgrees(c) BY DEF Core, AlmostAgrees, Bodies
<1> HIDE DEF c
<1> QED BY <1>1, <1>2, <1>3, AppendedMsgInv DEF c

(* The messages and leaks after a box was overwritten. *)
LEMMA OverwrittenMsgInv ==
  ASSUME MsgInv, UNCHANGED <<given, freed, queue>>,
         slot' \in [Msgs -> Shape \cup {Message!Closed}], \A k \in Msgs : Sound(slot'[k]),
         leaked' \in [Buffers -> 0 .. MaxLeaks], arc' \in [Buffers -> Nat],
         \A b \in Buffers : arc'[b] = Cardinality(HoldersIn(slot', b)) + leaked'[b],
         \A b \in Buffers : arc'[b] = arc[b] \/ (arc[b] > 0 /\ arc'[b] > 0)
  PROVE  MsgInv'
<1>1. MsgTypes' BY DEF MsgInv, MsgTypes
<1>2. ASSUME NEW b \in Buffers
      PROVE  /\ freed'[b] = IF b \in given' /\ arc'[b] = 0 THEN 1 ELSE 0
             /\ b \notin given' => arc'[b] = 0
  <2>1. /\ freed[b] = IF b \in given /\ arc[b] = 0 THEN 1 ELSE 0
        /\ b \notin given => arc[b] = 0
        /\ arc[b] \in Nat /\ arc'[b] \in Nat
    BY DEF MsgInv, Counting, MsgTypes
  <2>2. freed'[b] = freed[b] /\ given' = given OBVIOUS
  <2> QED BY <2>1, <2>2
<1>3. Counting' BY <1>2, CountingNext
<1> QED BY <1>1, <1>3 DEF MsgInv

LEMMA Forgotten ==
  ASSUME FacadeAssumption, MsgInv, NEW m \in Msgs, Message!MayForget(m), Message!Forget(m)
  PROVE  /\ leaked' \in [Buffers -> 0 .. MaxLeaks]
         /\ \A b \in Buffers : leaked'[b] = leaked[b] + Counts(slot[m], b)
<1>1. \A b : b \in Message!Holds(slot[m]) <=> Points(slot[m], b) BY DEF Message!Holds, Points
<1>2. leaked' = [b \in Buffers |-> IF Points(slot[m], b) THEN leaked[b] + 1 ELSE leaked[b]]
  BY <1>1 DEF Message!Forget
<1>3. \A b \in Buffers : Points(slot[m], b) => leaked[b] < MaxLeaks
  BY <1>1 DEF Message!MayForget
<1>4. leaked \in [Buffers -> 0 .. MaxLeaks] /\ MaxLeaks \in Nat
  BY DEF MsgInv, MsgTypes, FacadeAssumption
<1> QED BY <1>2, <1>3, <1>4 DEF Counts

LEMMA EmptyShape ==
  /\ Message!Empty \in Shape /\ Sound(Message!Empty) /\ Message!Empty.kind = "owned"
BY DEF Message!Empty, Message!Owned, Message!NoMetadata, Shape, Sound, Agrees, Bodies

LEMMA MsgMoveMsgInv ==
  ASSUME FacadeAssumption, MsgInv, NEW dest \in Msgs, NEW src \in Msgs, Message!MsgMove(dest, src)
  PROVE  MsgInv'
<1>1. /\ leaked' \in [Buffers -> 0 .. MaxLeaks]
      /\ \A b \in Buffers : leaked'[b] = leaked[b] + Counts(slot[dest], b)
  BY Forgotten DEF Message!MsgMove
<1>2. UNCHANGED <<given, arc, freed, queue>> BY DEF Message!MsgMove
<1> DEFINE e == Message!Empty
<1>3. e \in Shape /\ Sound(e) /\ \A b : Counts(e, b) = 0 BY EmptyShape, OwnedHoldsNothing
<1>4. slot \in [Msgs -> Shape \cup {Message!Closed}] /\ \A k \in Msgs : Sound(slot[k])
  BY DEF MsgInv, MsgTypes
<1>5. slot' = [k \in Msgs |-> IF k = src THEN e ELSE IF k = dest THEN slot[src] ELSE slot[k]]
  <2> HIDE DEF Message!Empty
  <2> QED BY <1>4 DEF Message!MsgMove
<1> HIDE DEF e
<1>6. slot' \in [Msgs -> Shape \cup {Message!Closed}] /\ \A k \in Msgs : Sound(slot'[k])
  BY <1>3, <1>4, <1>5
<1>7. ASSUME NEW b \in Buffers
      PROVE Cardinality(HoldersIn(slot', b)) = Cardinality(HoldersIn(slot, b)) - Counts(slot[dest], b)
  <2> DEFINE f == slot
             h == [k \in Msgs |-> IF k = dest THEN slot[src] ELSE slot[k]]
             g == slot'
  <2>1. h[dest] = f[src] /\ \A k \in Msgs \ {dest} : h[k] = f[k] OBVIOUS
  <2>2. g[src] = e /\ \A k \in Msgs \ {src} : g[k] = h[k] BY <1>5
  <2>3. h[src] = f[src] OBVIOUS
  <2> HIDE DEF f, g, h
  <2>4. /\ Cardinality(HoldersIn(h, b)) = Cardinality(HoldersIn(f, b)) - Counts(f[dest], b) + Counts(h[dest], b)
        /\ Cardinality(HoldersIn(f, b)) \in Nat /\ Cardinality(HoldersIn(h, b)) \in Nat
        /\ Counts(f[dest], b) \in 0 .. 1 /\ Counts(h[dest], b) \in 0 .. 1
    BY <2>1, SlotOnly
  <2>5. /\ Cardinality(HoldersIn(g, b)) = Cardinality(HoldersIn(h, b)) - Counts(h[src], b) + Counts(g[src], b)
        /\ Cardinality(HoldersIn(g, b)) \in Nat
    BY <2>2, SlotOnly
  <2>6. Cardinality(HoldersIn(g, b)) = Cardinality(HoldersIn(f, b)) - Counts(f[dest], b)
    BY <1>3, <2>1, <2>2, <2>3, <2>4, <2>5
  <2> QED BY <2>6 DEF f, g
<1>8. ASSUME NEW b \in Buffers PROVE arc'[b] = Cardinality(HoldersIn(slot', b)) + leaked'[b]
  <2>1. arc[b] = Cardinality(HoldersIn(slot, b)) + leaked[b] /\ leaked[b] \in Nat
    BY DEF MsgInv, Counting, MsgTypes
  <2>2. Cardinality(HoldersIn(slot, b)) \in Nat BY SomeHold
  <2>3. Counts(slot[dest], b) \in 0 .. 1 BY DEF Counts
  <2>4. leaked'[b] = leaked[b] + Counts(slot[dest], b) /\ arc'[b] = arc[b] BY <1>1, <1>2
  <2> QED BY <1>7, <2>1, <2>2, <2>3, <2>4
<1>9. arc' \in [Buffers -> Nat] /\ \A b \in Buffers : arc'[b] = arc[b]
  BY <1>2 DEF MsgInv, MsgTypes
<1> QED BY <1>1, <1>2, <1>6, <1>8, <1>9, OverwrittenMsgInv

LEMMA MsgCopyMsgInv ==
  ASSUME FacadeAssumption, MsgInv, NEW dest \in Msgs, NEW src \in Msgs, Message!MsgCopy(dest, src)
  PROVE  MsgInv'
<1>1. /\ leaked' \in [Buffers -> 0 .. MaxLeaks]
      /\ \A b \in Buffers : leaked'[b] = leaked[b] + Counts(slot[dest], b)
  BY Forgotten DEF Message!MsgCopy
<1>2. /\ slot' = [slot EXCEPT ![dest] = slot[src]] /\ UNCHANGED <<given, freed, queue>>
      /\ arc' = Message!Cloned(slot[src])
  BY DEF Message!MsgCopy
<1>3. slot[src] \in Shape \cup {Message!Closed} /\ Sound(slot[src]) BY DEF MsgInv, MsgTypes
<1>4. slot' \in [Msgs -> Shape \cup {Message!Closed}] /\ \A k \in Msgs : Sound(slot'[k])
  BY <1>2, <1>3, ShapeType
<1>5. \A b : b \in Message!Holds(slot[src]) <=> Points(slot[src], b) BY DEF Message!Holds, Points
<1>6. /\ arc' \in [Buffers -> Nat]
      /\ \A b \in Buffers : arc'[b] = arc[b] + Counts(slot[src], b)
  BY <1>2, <1>5 DEF Message!Cloned, Counts, MsgInv, MsgTypes
<1>7. ASSUME NEW b \in Buffers PROVE arc'[b] = Cardinality(HoldersIn(slot', b)) + leaked'[b]
  <2>1. arc[b] = Cardinality(HoldersIn(slot, b)) + leaked[b] /\ leaked[b] \in Nat
    BY DEF MsgInv, Counting, MsgTypes
  <2>2. /\ Cardinality(HoldersIn(slot', b)) =
             Cardinality(HoldersIn(slot, b)) - Counts(slot[dest], b) + Counts(slot[src], b)
        /\ Cardinality(HoldersIn(slot, b)) \in Nat
        /\ Counts(slot[src], b) \in 0 .. 1 /\ Counts(slot[dest], b) \in 0 .. 1
    BY <1>2, SlotSet
  <2>3. leaked'[b] = leaked[b] + Counts(slot[dest], b) BY <1>1
  <2>4. arc'[b] = arc[b] + Counts(slot[src], b) BY <1>6
  <2> QED BY <2>1, <2>2, <2>3, <2>4
<1>8. ASSUME NEW b \in Buffers PROVE arc'[b] = arc[b] \/ (arc[b] > 0 /\ arc'[b] > 0)
  <2>1. arc[b] \in Nat BY DEF MsgInv, MsgTypes
  <2>2. Points(slot[src], b) => arc[b] > 0 BY HeldIsGiven
  <2> QED BY <1>6, <2>1, <2>2 DEF Counts
<1> QED BY <1>1, <1>2, <1>4, <1>6, <1>7, <1>8, OverwrittenMsgInv

LEMMA MsgSetRoutingIdMsgInv ==
  ASSUME FacadeAssumption, MsgInv, NEW m \in Msgs, NEW r \in 1 .. 2, Message!MsgSetRoutingId(m, r)
  PROVE  MsgInv'
<1>1. /\ slot' = [slot EXCEPT ![m].routing_id = r, ![m].metadata = r]
      /\ slot[m] # Message!Closed /\ UNCHANGED <<given, arc, freed, leaked, queue>>
  BY DEF Message!MsgSetRoutingId
<1>2. slot \in [Msgs -> Shape \cup {Message!Closed}] /\ slot[m] \in Shape /\ Sound(slot[m])
  BY <1>1 DEF MsgInv, MsgTypes
<1> DEFINE c == [slot[m] EXCEPT !.routing_id = r, !.metadata = r]
<1>3. slot' = [slot EXCEPT ![m] = c] BY <1>1, <1>2
<1>4. /\ c \in Shape /\ c.kind = slot[m].kind /\ c.data = slot[m].data
      /\ c.routing_id = r /\ c.metadata = r
  <2> DEFINE c1 == [slot[m] EXCEPT !.routing_id = r]
  <2>1. c1 \in Shape /\ c1.kind = slot[m].kind /\ c1.data = slot[m].data /\ c1.routing_id = r
    BY <1>2 DEF Shape
  <2>2. c = [c1 EXCEPT !.metadata = r] BY <1>2 DEF Shape
  <2> HIDE DEF c1, c
  <2> QED BY <2>1, <2>2 DEF Shape
<1> HIDE DEF c
<1>5. Sound(c) BY <1>2, <1>4 DEF Sound, Agrees
<1>6. slot' \in [Msgs -> Shape \cup {Message!Closed}] /\ \A k \in Msgs : Sound(slot'[k])
  BY <1>3, <1>4, <1>5, ShapeType
<1>7. MsgTypes' BY <1>1, <1>6 DEF MsgInv, MsgTypes
<1>8. ASSUME NEW b \in Buffers
      PROVE Cardinality(HoldersIn(slot', b)) = Cardinality(HoldersIn(slot, b))
  <2>1. Counts(c, b) = Counts(slot[m], b) BY <1>4 DEF Counts, Points
  <2>2. /\ Cardinality(HoldersIn(slot', b)) = Cardinality(HoldersIn(slot, b)) - Counts(slot[m], b) + Counts(c, b)
        /\ Cardinality(HoldersIn(slot, b)) \in Nat /\ Counts(slot[m], b) \in 0 .. 1
    BY <1>3, SlotSet
  <2> QED BY <2>1, <2>2
<1>9. Counting' BY <1>1, <1>8, CountingNext DEF MsgInv, Counting
<1> QED BY <1>7, <1>9 DEF MsgInv

LEMMA SendIovMsgInv ==
  ASSUME FacadeAssumption, MsgInv, NEW count \in 1 .. 2, NEW sndmore \in BOOLEAN,
         Message!SendIov(count, sndmore)
  PROVE  MsgInv'
<1> DEFINE parts == [i \in 1 .. count |-> Message!Bytes(sndmore /\ i < count)]
           room == MaxQueue - Len(queue)
           n == IF count < room THEN count ELSE room
<1>1. /\ room > 0 /\ queue' = queue \o SubSeq(parts, 1, n)
      /\ UNCHANGED <<slot, given, arc, freed, leaked>>
  BY DEF Message!SendIov
<1>2. ASSUME NEW more \in BOOLEAN PROVE Message!Bytes(more) \in Core /\ AlmostAgrees(Message!Bytes(more))
  <2> DEFINE o == Message!ToCore(Message!Owned("bytes"))
  <2>1. o \in Core /\ o.routing_id = 0
    BY DEF Message!ToCore, Message!Owned, Message!NoMetadata, Core, Bodies
  <2> HIDE DEF o
  <2>2. [o EXCEPT !.more = more] \in Core /\ AlmostAgrees([o EXCEPT !.more = more])
    BY <2>1 DEF Core, AlmostAgrees
  <2> QED BY <2>2 DEF Message!Bytes, o
<1> HIDE DEF Message!Bytes
<1>3. parts \in Seq(Core) /\ Len(parts) = count
  <2>1. \A i \in 1 .. count : Message!Bytes(sndmore /\ i < count) \in Core BY <1>2
  <2> QED BY <2>1
<1>4. \A i \in 1 .. count : AlmostAgrees(parts[i]) BY <1>2
<1>5. queue \in Seq(Core) /\ (\A i \in 1 .. Len(queue) : AlmostAgrees(queue[i])) /\ Len(queue) \in Nat
  BY DEF MsgInv, MsgTypes
<1>6. n \in 1 .. count BY <1>1, <1>5 DEF FacadeAssumption
<1> HIDE DEF parts, n
<1> DEFINE sent == SubSeq(parts, 1, n)
<1>7. sent \in Seq(Core) /\ Len(sent) = n /\ \A i \in 1 .. n : sent[i] = parts[i]
  BY <1>3, <1>6, SubSeqProperties
<1> HIDE DEF sent
<1>8. /\ queue' \in Seq(Core) /\ Len(queue') = Len(queue) + n
      /\ \A i \in 1 .. Len(queue') :
           queue'[i] = IF i <= Len(queue) THEN queue[i] ELSE sent[i - Len(queue)]
  BY <1>1, <1>5, <1>6, <1>7, ConcatProperties DEF sent
<1>9. \A i \in 1 .. Len(queue') : AlmostAgrees(queue'[i])
  <2> TAKE i \in 1 .. Len(queue')
  <2>1. CASE i <= Len(queue) BY <1>5, <1>8, <2>1
  <2>2. CASE i > Len(queue)
    <3>1. i - Len(queue) \in 1 .. n /\ i - Len(queue) \in 1 .. count BY <1>5, <1>6, <1>8, <2>2
    <3>2. queue'[i] = parts[i - Len(queue)] BY <1>5, <1>7, <1>8, <2>2, <3>1
    <3> QED BY <1>4, <3>1, <3>2
  <2> QED BY <1>5, <2>1, <2>2
<1> QED BY <1>1, <1>8, <1>9, QueueMsgInv

(* A set of numbers has a least one. *)
LEMMA LeastNatural ==
  ASSUME NEW S \in SUBSET Nat, S # {}
  PROVE  \E x \in S : \A y \in S : x <= y
<1>1. PICK x \in S : \A y \in S : ~(<<y, x>> \in OpToRel(<, Nat))
  BY NatLessThanWellFounded, WFMin
<1>2. ASSUME NEW y \in S, y < x PROVE <<y, x>> \in OpToRel(<, Nat)
  BY <1>2 DEF OpToRel
<1>3. \A y \in S : ~(y < x) BY <1>1, <1>2, Zenon
<1> QED BY <1>3

LEMMA RecvIovMsgInv ==
  ASSUME FacadeAssumption, MsgInv, NEW count \in 1 .. 2, Message!RecvIov(count)
  PROVE  MsgInv'
<1> DEFINE ends == {i \in 1 .. Len(queue) : ~queue[i].more \/ i \in {count, Len(queue)}}
           read == CHOOSE i \in ends : \A j \in ends : i <= j
<1>1. /\ queue # <<>> /\ queue' = SubSeq(queue, read + 1, Len(queue))
      /\ UNCHANGED <<slot, given, arc, freed, leaked>>
  BY DEF Message!RecvIov
<1>2. queue \in Seq(Core) /\ (\A i \in 1 .. Len(queue) : AlmostAgrees(queue[i])) /\ Len(queue) \in Nat
  BY DEF MsgInv, MsgTypes
<1>3. Len(queue) \in ends /\ ends \in SUBSET (1 .. Len(queue)) BY <1>1, <1>2
<1> HIDE DEF ends
<1>4. \E i \in ends : \A j \in ends : i <= j BY <1>3, LeastNatural
<1>5. read \in ends BY <1>4
<1>6. read \in 1 .. Len(queue) BY <1>3, <1>5
<1> HIDE DEF read
<1>7. /\ queue' \in Seq(Core) /\ Len(queue') = Len(queue) - read
      /\ \A i \in 1 .. Len(queue') : queue'[i] = queue[read + i]
  BY <1>1, <1>2, <1>6, SubSeqProperties
<1>8. \A i \in 1 .. Len(queue') : AlmostAgrees(queue'[i])
  <2> TAKE i \in 1 .. Len(queue')
  <2>1. read + i \in 1 .. Len(queue) BY <1>2, <1>6, <1>7
  <2>2. queue'[i] = queue[read + i] BY <1>7
  <2> QED BY <1>2, <2>1, <2>2
<1> QED BY <1>1, <1>7, <1>8, QueueMsgInv

LEMMA MsgNext ==
  ASSUME FacadeAssumption, MsgInv, Message!Next
  PROVE  MsgInv'
<1>1. ASSUME NEW m \in Msgs,
             \/ Message!MsgInit(m) \/ Message!MsgInitData(m) \/ Message!MsgClose(m)
             \/ Message!MsgSend(m) \/ Message!MsgRecv(m)
             \/ \E r \in 1 .. 2 : Message!MsgSetRoutingId(m, r)
      PROVE  MsgInv'
  BY <1>1, MsgInitMsgInv, MsgInitDataMsgInv, MsgCloseMsgInv, MsgSendMsgInv, MsgRecvMsgInv,
     MsgSetRoutingIdMsgInv
<1>2. ASSUME NEW dest \in Msgs, NEW src \in Msgs,
             Message!MsgMove(dest, src) \/ Message!MsgCopy(dest, src)
      PROVE  MsgInv'
  BY <1>2, MsgMoveMsgInv, MsgCopyMsgInv
<1>3. ASSUME NEW count \in 1 .. 2,
             Message!RecvIov(count) \/ \E sndmore \in BOOLEAN : Message!SendIov(count, sndmore)
      PROVE  MsgInv'
  BY <1>3, RecvIovMsgInv, SendIovMsgInv
<1>4. CASE Message!Arrive BY <1>4, ArriveMsgInv
<1> QED BY <1>1, <1>2, <1>3, <1>4 DEF Message!Next

LEMMA MsgInitially ==
  ASSUME FacadeAssumption, Message!Init
  PROVE  MsgInv
<1>1. MsgTypes
  <2>1. slot \in [Msgs -> Shape \cup {Message!Closed}] /\ \A m \in Msgs : Sound(slot[m])
    BY ClosedShape DEF Message!Init
  <2> QED BY <2>1 DEF Message!Init, MsgTypes, FacadeAssumption
<1>2. Counting
  <2>1. ASSUME NEW b \in Buffers PROVE Cardinality(HoldersIn(slot, b)) = 0
    <3>1. HoldersIn(slot, b) = {} BY DEF Message!Init, HoldersIn, Points, Message!Closed
    <3> QED BY <3>1, FS_EmptySet
  <2> QED BY <2>1 DEF Message!Init, Counting
<1> QED BY <1>1, <1>2 DEF MsgInv

LEMMA MsgInvBuffers ==
  ASSUME FacadeAssumption, MsgInv
  PROVE  /\ Message!TypeOK
         /\ Message!NotFreedInUse /\ Message!FreedAtLast /\ Message!RoutingIdsAgree
<1>1. ASSUME NEW b \in Buffers
      PROVE  /\ arc[b] = Cardinality(HoldersIn(slot, b)) + leaked[b]
             /\ freed[b] = IF b \in given /\ arc[b] = 0 THEN 1 ELSE 0
             /\ Cardinality(HoldersIn(slot, b)) \in Nat
             /\ Cardinality(HoldersIn(slot, b)) <= Cardinality(Msgs) /\ Cardinality(Msgs) \in Nat
             /\ leaked[b] \in 0 .. MaxLeaks /\ MaxLeaks \in Nat
             /\ HoldersIn(slot, b) = Message!Holders(b)
  <2>1. HoldersIn(slot, b) = Message!Holders(b)
    BY DEF HoldersIn, Message!Holders, Points, Message!Holds
  <2> HIDE DEF Message!Holders
  <2> QED BY <2>1, SomeHold DEF MsgInv, Counting, MsgTypes, FacadeAssumption
<1>2. Message!TypeOK
  <2>1. \A m \in Msgs : slot[m].kind \in {"closed", "owned", "external"}
    BY DEF MsgInv, MsgTypes, Shape, Message!Closed
  <2>2. ASSUME NEW b \in Buffers
        PROVE  arc[b] \in 0 .. (Cardinality(Msgs) + MaxLeaks) /\ freed[b] \in 0 .. 1
    BY <1>1
  <2>3. \A i \in 1 .. Len(queue) : queue[i].data \in {"", "bytes"}
    <3>1. queue \in Seq(Core) BY DEF MsgInv, MsgTypes
    <3>2. \A i \in 1 .. Len(queue) : queue[i] \in Core BY <3>1
    <3> QED BY <3>2 DEF Core, Bodies
  <2>4. Message!Cardinality(Msgs) = Cardinality(Msgs) BY DEF Message!Cardinality, Cardinality
  <2> QED BY <2>1, <2>2, <2>3, <2>4 DEF Message!TypeOK
<1>3. Message!NotFreedInUse
  <2>1. ASSUME NEW b \in Buffers, NEW m \in Message!Holders(b) PROVE freed[b] = 0
    <3>1. m \in Msgs /\ Points(slot[m], b) BY DEF Message!Holders, Message!Holds, Points
    <3> QED BY <3>1, HeldIsGiven
  <2> HIDE DEF Message!Holders
  <2> QED BY <2>1 DEF Message!NotFreedInUse
<1>4. Message!FreedAtLast
  <2>1. ASSUME NEW b \in given, Message!Holders(b) = {} PROVE freed[b] = 1 \/ leaked[b] > 0
    <3>1. b \in Buffers BY DEF MsgInv, MsgTypes
    <3>2. Cardinality(HoldersIn(slot, b)) = 0 BY <1>1, <2>1, <3>1, FS_EmptySet
    <3> HIDE DEF Message!Holders
    <3> QED BY <1>1, <3>1, <3>2
  <2> HIDE DEF Message!Holders
  <2> QED BY <2>1 DEF Message!FreedAtLast
<1>5. Message!RoutingIdsAgree
  BY DEF Message!RoutingIdsAgree, MsgInv, MsgTypes, Sound, Agrees, Shape, Message!Closed
<1> QED BY <1>2, <1>3, <1>4, <1>5

(* The buffers handed to zmq_msg_init_data are freed in time, for any      *)
(* number of messages and buffers: the strong count of a buffer is the     *)
(* number of the zmq_msg_t that point to it and of the boxes that          *)
(* zmq_msg_move and zmq_msg_copy overwrote, so its free function runs with *)
(* the last message that shares it and never while one does; and the       *)
(* routing id of a message and its Routing-Id property agree.              *)
THEOREM BuffersAlwaysFreedInTime == FacadeSpec => []BuffersFreedInTime
<1> DEFINE Inv == part = "message" => MsgInv
<1>1. FacadeInit => Inv BY MsgInitially, FacadeAssumption DEF FacadeInit
<1>2. Inv /\ [FacadeNext]_facade => Inv'
  <2> SUFFICES ASSUME Inv, part' = "message", [FacadeNext]_facade PROVE MsgInv'
    OBVIOUS
  <2>1. part' = part BY DEF FacadeNext, facade
  <2>2. CASE FacadeNext
    <3>1. Message!Next BY <2>1, <2>2 DEF FacadeNext
    <3> QED BY <2>1, <3>1, MsgNext, FacadeAssumption
  <2>3. CASE UNCHANGED facade
    <3>1. UNCHANGED messageVars BY <2>3 DEF facade
    <3> QED BY <2>1, <3>1 DEF messageVars, MsgInv, MsgTypes, Counting, HoldersIn
  <2> QED BY <2>2, <2>3
<1>3. Inv => BuffersFreedInTime BY MsgInvBuffers, FacadeAssumption DEF BuffersFreedInTime
<1> QED BY <1>1, <1>2, <1>3, PTL DEF FacadeSpec

-----------------------------------------------------------------------------
(* Timers of the C ABI. *)

TimerEntry == [interval : 0 .. Timers!Longest, left : -Timers!Oldest .. Timers!Longest,
               handler : BOOLEAN, active : BOOLEAN]
Age == [ticks : 0 .. Timers!Oldest, owed : 0 .. Timers!Longest]
Frame == [at : {"look", "handler", "rearm", "lost"}, timer : Nat \ {0}, end : Nat,
          elapsed : 0 .. MaxLate, freed : BOOLEAN]

TimerTypes ==
  /\ timers \in Seq(TimerEntry) /\ since \in Seq(Age) /\ Len(since) = Len(timers)
  /\ walks \in Seq(Frame) /\ asleep \in 0 .. Timers!Longest

(* All walks but the innermost wait for a handler, and their clocks are    *)
(* the older ones.                                                         *)
Stacked ==
  \A i, j \in 1 .. Len(walks) :
    i < j => walks[i].at = "handler" /\ walks[j].elapsed <= walks[i].elapsed

(* A walk that was given no freed memory goes over timers there are.  The  *)
(* application does not sleep in a walk.                                   *)
WalkShape(w, n) ==
  /\ w.freed => w.at \in {"handler", "lost"}
  /\ ~w.freed => w.end <= n
  /\ w.at \in {"handler", "rearm"} => w.timer <= w.end
InWalk ==
  /\ walks # <<>> => asleep = 0
  /\ Stacked
  /\ \A i \in 1 .. Len(walks) : WalkShape(walks[i], Len(timers))

(* What is left of a timer and its age make up what it was armed with, as  *)
(* far as ages are told apart.                                             *)
AddsUp(e, a) ==
  \/ e.left + a.ticks = a.owed
  \/ a.ticks = Timers!Oldest /\ e.left <= a.owed - Timers!Oldest
Armed == \A t \in 1 .. Len(timers) : AddsUp(timers[t], since[t])

(* A walk leaves nothing due behind, and what was added to the Vec in it   *)
(* is not due by its clock.                                                *)
Behind(e, a, late) == e.active /\ a.owed > 0 => e.left + late > 0
Passed(t, w) == ~w.freed /\ (t < w.timer \/ t > w.end)
NoneBehind ==
  \A i \in 1 .. Len(walks), t \in 1 .. Len(timers) :
    Passed(t, walks[i]) => Behind(timers[t], since[t], walks[i].elapsed)

Sleeping ==
  asleep > 0 => \A t \in 1 .. Len(timers) : timers[t].active => timers[t].left >= asleep

(* The inductive invariant of the timers. *)
TimerInv == TimerTypes /\ InWalk /\ Armed /\ NoneBehind /\ Sleeping

(* The bounds, as numbers. *)
LEMMA Bounds ==
  ASSUME FacadeAssumption
  PROVE  /\ Timers!Longest \in Nat /\ Timers!Oldest \in Nat /\ MaxLate \in Nat
         /\ Timers!Oldest = MaxLate + Timers!Longest
         /\ \A ms \in 0 .. MaxInterval : ms * TicksPerMs \in 0 .. Timers!Longest
<1>1. MaxInterval \in Nat /\ TicksPerMs \in Nat /\ MaxLate \in Nat BY DEF FacadeAssumption
<1>2. ASSUME NEW a \in Nat, NEW b \in Nat, NEW t \in Nat, a <= b
      PROVE  a * t \in Nat /\ a * t <= b * t
  BY <1>2
<1>3. Timers!Longest = MaxInterval * TicksPerMs BY DEF Timers!Longest
<1>4. Timers!Longest \in Nat BY <1>1, <1>2, <1>3
<1>5. ASSUME NEW ms \in 0 .. MaxInterval PROVE ms * TicksPerMs \in 0 .. Timers!Longest
  <2>1. ms \in Nat /\ ms <= MaxInterval BY <1>1
  <2>2. ms * TicksPerMs \in Nat /\ ms * TicksPerMs <= MaxInterval * TicksPerMs
    BY <1>1, <1>2, <2>1
  <2> QED BY <1>3, <1>4, <2>2
<1>6. Timers!Oldest = MaxLate + Timers!Longest BY DEF Timers!Oldest
<1> QED BY <1>1, <1>4, <1>5, <1>6

(* What an entry and its age are made of. *)
LEMMA EntryParts ==
  ASSUME TimerTypes
  PROVE  /\ Len(timers) \in Nat /\ Len(since) = Len(timers)
         /\ timers \in [1 .. Len(timers) -> TimerEntry] /\ since \in [1 .. Len(timers) -> Age]
         /\ \A t \in 1 .. Len(timers) :
              /\ timers[t] \in TimerEntry /\ since[t] \in Age
              /\ timers[t].interval \in 0 .. Timers!Longest
              /\ timers[t].left \in -Timers!Oldest .. Timers!Longest
              /\ timers[t].active \in BOOLEAN
              /\ since[t].ticks \in 0 .. Timers!Oldest /\ since[t].owed \in 0 .. Timers!Longest
<1>1. /\ Len(timers) \in Nat /\ Len(since) = Len(timers)
      /\ timers \in [1 .. Len(timers) -> TimerEntry] /\ since \in [1 .. Len(timers) -> Age]
  BY DEF TimerTypes
<1>2. \A t \in 1 .. Len(timers) : timers[t] \in TimerEntry /\ since[t] \in Age BY <1>1
<1> HIDE DEF Timers!Longest, Timers!Oldest
<1> QED BY <1>1, <1>2 DEF TimerEntry, Age

(* What a walk is made of, and which one is the innermost. *)
LEMMA FrameParts ==
  ASSUME FacadeAssumption, TimerTypes
  PROVE  /\ Len(walks) \in Nat /\ walks \in [1 .. Len(walks) -> Frame]
         /\ walks # <<>> => Len(walks) \in 1 .. Len(walks)
         /\ \A i \in 1 .. Len(walks) :
              /\ walks[i] \in Frame
              /\ walks[i].at \in {"look", "handler", "rearm", "lost"}
              /\ walks[i].timer \in Nat \ {0} /\ walks[i].end \in Nat
              /\ walks[i].elapsed \in 0 .. MaxLate /\ walks[i].elapsed \in Nat
              /\ walks[i].freed \in BOOLEAN
<1>1. Len(walks) \in Nat /\ walks \in [1 .. Len(walks) -> Frame] BY DEF TimerTypes
<1>2. walks # <<>> => Len(walks) \in 1 .. Len(walks) BY <1>1 DEF TimerTypes
<1>3. \A i \in 1 .. Len(walks) : walks[i] \in Frame BY <1>1
<1> QED BY <1>1, <1>2, <1>3, Bounds DEF Frame

(* One timer of the vector changes. *)
LEMMA OneTimer ==
  ASSUME TimerInv, NEW t \in 1 .. Len(timers), NEW e \in TimerEntry, NEW a \in Age,
         AddsUp(e, a), asleep = 0, asleep' = 0,
         timers' = [timers EXCEPT ![t] = e], since' = [since EXCEPT ![t] = a],
         walks' \in Seq(Frame), Stacked',
         \A i \in 1 .. Len(walks') : WalkShape(walks'[i], Len(timers)),
         \A i \in 1 .. Len(walks') : Passed(t, walks'[i]) => Behind(e, a, walks'[i].elapsed),
         \A i \in 1 .. Len(walks') : \A k \in 1 .. Len(timers) \ {t} :
           Passed(k, walks'[i]) => Behind(timers[k], since[k], walks'[i].elapsed)
  PROVE  TimerInv'
<1>1. /\ timers' \in Seq(TimerEntry) /\ since' \in Seq(Age)
      /\ Len(timers') = Len(timers) /\ Len(since') = Len(timers)
  BY DEF TimerInv, TimerTypes
<1>2. TimerTypes' BY <1>1 DEF TimerInv, TimerTypes
<1>3. \A k \in 1 .. Len(timers) :
        /\ timers'[k] = (IF k = t THEN e ELSE timers[k])
        /\ since'[k] = (IF k = t THEN a ELSE since[k])
  BY EntryParts DEF TimerInv
<1>4. Armed' BY <1>1, <1>3 DEF TimerInv, Armed
<1>5. NoneBehind'
  <2> SUFFICES ASSUME NEW i \in 1 .. Len(walks'), NEW k \in 1 .. Len(timers), Passed(k, walks'[i])
               PROVE  Behind(timers'[k], since'[k], walks'[i].elapsed)
    BY <1>1 DEF NoneBehind
  <2>1. CASE k = t BY <1>3, <2>1
  <2>2. CASE k # t BY <1>3, <2>2
  <2> QED BY <2>1, <2>2
<1>6. Sleeping' BY DEF Sleeping
<1>7. InWalk' BY <1>1 DEF InWalk
<1> QED BY <1>2, <1>4, <1>5, <1>6, <1>7 DEF TimerInv

(* Only the walks change. *)
LEMMA WalkTimerInv ==
  ASSUME TimerInv, UNCHANGED <<timers, asleep, since>>, asleep = 0,
         walks' \in Seq(Frame), Stacked',
         \A i \in 1 .. Len(walks') : WalkShape(walks'[i], Len(timers)),
         \A i \in 1 .. Len(walks'), k \in 1 .. Len(timers) :
           Passed(k, walks'[i]) => Behind(timers[k], since[k], walks'[i].elapsed)
  PROVE  TimerInv'
<1>1. TimerTypes' BY DEF TimerInv, TimerTypes
<1>2. Armed' BY DEF TimerInv, Armed
<1>3. NoneBehind' BY DEF NoneBehind
<1>4. Sleeping' BY DEF Sleeping
<1>5. InWalk' BY DEF InWalk
<1> QED BY <1>1, <1>2, <1>3, <1>4, <1>5 DEF TimerInv

(* The innermost walk takes a step on its own clock. *)
LEMMA TopStep ==
  ASSUME FacadeAssumption, TimerInv, walks # <<>>, NEW w \in Frame, Timers!Walk(w),
         w.elapsed = Timers!Top.elapsed
  PROVE  /\ walks' \in Seq(Frame) /\ Len(walks') = Len(walks) /\ Stacked'
         /\ \A i \in 1 .. Len(walks) : walks'[i] = IF i = Len(walks) THEN w ELSE walks[i]
<1> DEFINE n == Len(walks)
<1>1. walks' = [walks EXCEPT ![n] = w] BY DEF Timers!Walk
<1>2. n \in 1 .. n /\ n \in Nat BY FrameParts DEF TimerInv
<1>3. /\ walks' \in Seq(Frame) /\ Len(walks') = n
      /\ \A i \in 1 .. n : walks'[i] = IF i = n THEN w ELSE walks[i]
  BY <1>1, <1>2 DEF TimerInv, TimerTypes
<1>4. w.elapsed = walks[n].elapsed BY DEF Timers!Top
<1> HIDE DEF n
<1>5. Stacked'
  <2> SUFFICES ASSUME NEW i \in 1 .. n, NEW j \in 1 .. n, i < j
               PROVE  walks'[i].at = "handler" /\ walks'[j].elapsed <= walks'[i].elapsed
    BY <1>3 DEF Stacked
  <2>1. i # n BY <1>2
  <2>2. walks'[i] = walks[i] /\ walks'[j].elapsed = walks[j].elapsed BY <1>3, <1>4, <2>1
  <2>3. Stacked /\ n = Len(walks) BY DEF TimerInv, InWalk, n
  <2> QED BY <2>2, <2>3 DEF Stacked
<1> QED BY <1>3, <1>5 DEF n

(* The walks under way lose their Vec. *)
LEMMA FreedWalks ==
  ASSUME FacadeAssumption, TimerInv, walks' = Timers!Freed, walks = <<>> \/ Timers!WalkAt("handler")
  PROVE  /\ walks' \in Seq(Frame) /\ Len(walks') = Len(walks) /\ Stacked'
         /\ \A i \in 1 .. Len(walks) : walks'[i].freed
         /\ \A i \in 1 .. Len(walks), n \in Nat : WalkShape(walks'[i], n)
         /\ walks # <<>> <=> walks' # <<>>
<1> DEFINE n == Len(walks)
           F(w) == [w EXCEPT !.freed = TRUE]
<1>1. n \in Nat BY FrameParts DEF TimerInv
<1>2. walks' = [i \in 1 .. n |-> F(walks[i])] BY DEF Timers!Freed
<1>3. \A i \in 1 .. n : /\ F(walks[i]) \in Frame /\ F(walks[i]).freed
                        /\ F(walks[i]).at = walks[i].at /\ F(walks[i]).timer = walks[i].timer
                        /\ F(walks[i]).end = walks[i].end /\ F(walks[i]).elapsed = walks[i].elapsed
  <2> TAKE i \in 1 .. n
  <2>1. walks[i] \in Frame BY FrameParts DEF TimerInv
  <2> QED BY <2>1 DEF Frame
<1> HIDE DEF F
<1>4. walks' \in Seq(Frame) /\ Len(walks') = n /\ \A i \in 1 .. n : walks'[i] = F(walks[i])
  BY <1>1, <1>2, <1>3
<1>5. Stacked'
  <2>1. Stacked BY DEF TimerInv, InWalk
  <2> QED BY <1>3, <1>4, <2>1 DEF Stacked
<1>6. \A i \in 1 .. n : walks[i].at = "handler"
  <2> TAKE i \in 1 .. n
  <2>1. CASE i = n BY <2>1 DEF Timers!WalkAt, Timers!Top, n
  <2>2. CASE i # n
    <3>1. n \in 1 .. n /\ i < n BY <1>1, <2>2
    <3> QED BY <3>1 DEF TimerInv, InWalk, Stacked
  <2> QED BY <2>1, <2>2
<1>7. \A i \in 1 .. n : walks[i].timer <= walks[i].end
  BY <1>6 DEF TimerInv, InWalk, WalkShape
<1>8. \A i \in 1 .. n, m \in Nat : WalkShape(walks'[i], m)
  BY <1>3, <1>4, <1>6, <1>7 DEF WalkShape
<1>9. walks # <<>> <=> walks' # <<>> BY <1>1, <1>4 DEF TimerInv, TimerTypes
<1> QED BY <1>3, <1>4, <1>5, <1>8, <1>9

LEMMA TimersAddTimerInv ==
  ASSUME FacadeAssumption, TimerInv, Timers!TimersAdd
  PROVE  TimerInv'
<1>1. PICK ms \in 0 .. MaxInterval, h \in BOOLEAN :
        /\ timers' = Append(timers, [interval |-> ms * TicksPerMs, left |-> ms * TicksPerMs,
                                     handler |-> h, active |-> TRUE])
        /\ since' = Append(since, [ticks |-> 0, owed |-> ms * TicksPerMs])
  BY DEF Timers!TimersAdd
<1> DEFINE n == ms * TicksPerMs
           e == [interval |-> n, left |-> n, handler |-> h, active |-> TRUE]
           a == [ticks |-> 0, owed |-> n]
           L == Len(timers)
<1>2. n \in 0 .. Timers!Longest BY Bounds
<1>3. timers' = Append(timers, e) /\ since' = Append(since, a) BY <1>1
<1> HIDE DEF n
<1>4. e \in TimerEntry /\ a \in Age /\ e.left = n /\ a.ticks = 0 /\ a.owed = n
  <2> HIDE DEF Timers!Longest, Timers!Oldest
  <2> QED BY <1>2, Bounds DEF TimerEntry, Age
<1> HIDE DEF e, a
<1>5. AddsUp(e, a) BY <1>2, <1>4, Bounds DEF AddsUp
<1>6. /\ asleep = 0 /\ asleep' = asleep /\ (walks' = walks \/ walks' = Timers!Freed)
      /\ walks = <<>> \/ Timers!WalkAt("handler")
  BY DEF Timers!TimersAdd, Timers!Awake, Timers!Idle
<1>7. /\ timers' \in Seq(TimerEntry) /\ since' \in Seq(Age)
      /\ Len(timers') = L + 1 /\ Len(since') = Len(timers')
      /\ \A t \in 1 .. Len(timers') :
           /\ timers'[t] = (IF t = L + 1 THEN e ELSE timers[t])
           /\ since'[t] = (IF t = L + 1 THEN a ELSE since[t])
  BY <1>3, <1>4 DEF TimerInv, TimerTypes
<1>8. L \in Nat BY EntryParts DEF TimerInv
<1>9. Armed' BY <1>5, <1>7, EntryParts DEF TimerInv, Armed
<1>10. Sleeping' BY <1>6 DEF Sleeping
<1>11. CASE walks' = walks
  <2>1. TimerTypes' BY <1>6, <1>7, <1>11 DEF TimerInv, TimerTypes
  <2>2. \A i \in 1 .. Len(walks) : WalkShape(walks[i], L + 1)
    <3> TAKE i \in 1 .. Len(walks)
    <3>1. WalkShape(walks[i], L) /\ walks[i].end \in Nat BY FrameParts DEF TimerInv, InWalk
    <3> QED BY <1>8, <3>1 DEF WalkShape
  <2>3. InWalk' BY <1>6, <1>7, <1>11, <2>2 DEF TimerInv, InWalk, Stacked
  <2>4. NoneBehind'
    <3> SUFFICES ASSUME NEW i \in 1 .. Len(walks), NEW t \in 1 .. L + 1, Passed(t, walks[i])
                 PROVE  Behind(timers'[t], since'[t], walks[i].elapsed)
      BY <1>7, <1>11 DEF NoneBehind
    <3>1. CASE t = L + 1
      <4>1. walks[i].elapsed \in Nat BY FrameParts DEF TimerInv
      <4>2. Behind(e, a, walks[i].elapsed) BY <1>2, <1>4, <4>1, Bounds DEF Behind
      <4> QED BY <1>7, <3>1, <4>2
    <3>2. CASE t # L + 1
      <4>1. t \in 1 .. L BY <1>8, <3>2
      <4> QED BY <1>7, <3>2, <4>1 DEF TimerInv, NoneBehind
    <3> QED BY <3>1, <3>2
  <2> QED BY <1>9, <1>10, <2>1, <2>3, <2>4 DEF TimerInv
<1>12. CASE walks' = Timers!Freed
  <2>1. /\ walks' \in Seq(Frame) /\ Stacked' /\ Len(walks') = Len(walks)
        /\ \A i \in 1 .. Len(walks) : walks'[i].freed
        /\ \A i \in 1 .. Len(walks), m \in Nat : WalkShape(walks'[i], m)
    BY <1>6, <1>12, FreedWalks
  <2>2. TimerTypes' BY <1>6, <1>7, <2>1 DEF TimerInv, TimerTypes
  <2>3. InWalk' BY <1>6, <1>7, <1>8, <2>1 DEF InWalk
  <2>4. NoneBehind' BY <2>1 DEF NoneBehind, Passed
  <2> QED BY <1>9, <1>10, <2>2, <2>3, <2>4 DEF TimerInv
<1> QED BY <1>6, <1>11, <1>12

(* What the walks under way require, when they do not move. *)
LEMMA SameWalks ==
  ASSUME FacadeAssumption, TimerInv, walks' = walks
  PROVE  /\ walks' \in Seq(Frame) /\ Stacked'
         /\ \A i \in 1 .. Len(walks') : WalkShape(walks'[i], Len(timers))
         /\ \A i \in 1 .. Len(walks') : \A k \in 1 .. Len(timers) :
              Passed(k, walks'[i]) => Behind(timers[k], since[k], walks'[i].elapsed)
         /\ \A i \in 1 .. Len(walks') : walks'[i].elapsed \in Nat
BY FrameParts DEF TimerInv, TimerTypes, InWalk, Stacked, NoneBehind

LEMMA TimersCancelTimerInv ==
  ASSUME FacadeAssumption, TimerInv, NEW t \in 1 .. Len(timers), Timers!TimersCancel(t)
  PROVE  TimerInv'
<1> DEFINE e == [timers[t] EXCEPT !.active = FALSE]
<1>1. /\ timers' = [timers EXCEPT ![t] = e] /\ since' = [since EXCEPT ![t] = since[t]]
      /\ UNCHANGED <<walks, asleep>> /\ asleep = 0
  BY EntryParts DEF Timers!TimersCancel, Timers!Awake, TimerInv
<1>2. timers[t] \in TimerEntry /\ since[t] \in Age /\ AddsUp(timers[t], since[t])
  BY EntryParts DEF TimerInv, Armed
<1>3. e \in TimerEntry /\ e.active = FALSE /\ e.left = timers[t].left BY <1>2 DEF TimerEntry
<1> HIDE DEF e
<1>4. AddsUp(e, since[t]) BY <1>2, <1>3 DEF AddsUp
<1>5. \A late : Behind(e, since[t], late) BY <1>3 DEF Behind
<1> QED BY <1>1, <1>2, <1>3, <1>4, <1>5, SameWalks, OneTimer

LEMMA TimersSetIntervalTimerInv ==
  ASSUME FacadeAssumption, TimerInv, NEW t \in 1 .. Len(timers), Timers!TimersSetInterval(t)
  PROVE  TimerInv'
<1>1. PICK ms \in 0 .. MaxInterval : timers' = [timers EXCEPT ![t].interval = ms * TicksPerMs]
  BY DEF Timers!TimersSetInterval
<1> DEFINE n == ms * TicksPerMs
           e == [timers[t] EXCEPT !.interval = n]
<1>2. n \in 0 .. Timers!Longest BY Bounds
<1>3. timers' = [timers EXCEPT ![t] = e] BY <1>1
<1> HIDE DEF n
<1>4. /\ since' = [since EXCEPT ![t] = since[t]]
      /\ UNCHANGED <<walks, asleep>> /\ asleep = 0
  BY EntryParts DEF Timers!TimersSetInterval, Timers!Awake, TimerInv
<1>5. /\ timers[t] \in TimerEntry /\ since[t] \in Age /\ AddsUp(timers[t], since[t])
  BY EntryParts DEF TimerInv, Armed
<1>6. e \in TimerEntry /\ e.active = timers[t].active /\ e.left = timers[t].left
  BY <1>2, <1>5 DEF TimerEntry
<1> HIDE DEF e
<1>7. AddsUp(e, since[t]) BY <1>5, <1>6 DEF AddsUp
<1>8. \A late : Behind(timers[t], since[t], late) => Behind(e, since[t], late)
  BY <1>6 DEF Behind
<1> QED BY <1>3, <1>4, <1>5, <1>6, <1>7, <1>8, SameWalks, OneTimer

LEMMA TimersResetTimerInv ==
  ASSUME FacadeAssumption, TimerInv, NEW t \in 1 .. Len(timers), Timers!TimersReset(t)
  PROVE  TimerInv'
<1> DEFINE n == timers[t].interval
           e == [timers[t] EXCEPT !.left = n, !.active = TRUE]
           a == [ticks |-> 0, owed |-> n]
<1>1. /\ timers' = [timers EXCEPT ![t] = e] /\ since' = [since EXCEPT ![t] = a]
      /\ UNCHANGED <<walks, asleep>> /\ asleep = 0
  BY EntryParts DEF Timers!TimersReset, Timers!Awake, TimerInv
<1>2. timers[t] \in TimerEntry /\ n \in 0 .. Timers!Longest BY EntryParts DEF TimerInv
<1> HIDE DEF n
<1>3. e \in TimerEntry /\ e.left = n /\ a \in Age /\ a.ticks = 0 /\ a.owed = n
  <2> DEFINE e1 == [timers[t] EXCEPT !.left = n]
  <2>5. n \in -Timers!Oldest .. Timers!Longest BY <1>2, Bounds
  <2> HIDE DEF Timers!Longest, Timers!Oldest
  <2>1. e1 \in TimerEntry /\ e1.left = n BY <1>2, <2>5 DEF TimerEntry
  <2>2. e = [e1 EXCEPT !.active = TRUE] BY <1>2 DEF TimerEntry
  <2>3. a \in Age /\ a.ticks = 0 /\ a.owed = n BY <1>2, Bounds DEF Age
  <2> HIDE DEF e1, e, a
  <2>4. e \in TimerEntry /\ e.left = n BY <2>1, <2>2 DEF TimerEntry
  <2> QED BY <2>3, <2>4
<1> HIDE DEF e, a
<1>4. AddsUp(e, a) BY <1>2, <1>3, Bounds DEF AddsUp
<1>5. \A late \in Nat : Behind(e, a, late) BY <1>2, <1>3, Bounds DEF Behind
<1> QED BY <1>1, <1>3, <1>4, <1>5, SameWalks, OneTimer

LEMMA TimersDestroyTimerInv ==
  ASSUME FacadeAssumption, TimerInv, Timers!TimersDestroy
  PROVE  TimerInv'
<1>1. /\ walks' = Timers!Freed /\ asleep = 0 /\ asleep' = asleep
      /\ walks = <<>> \/ Timers!WalkAt("handler")
      /\ timers' = <<>> /\ since' = <<>>
  BY DEF Timers!TimersDestroy, Timers!Awake, Timers!Idle
<1>2. /\ walks' \in Seq(Frame) /\ Stacked' /\ Len(walks') = Len(walks)
      /\ \A i \in 1 .. Len(walks), m \in Nat : WalkShape(walks'[i], m)
  BY <1>1, FreedWalks
<1>3. TimerTypes' BY <1>1, <1>2 DEF TimerInv, TimerTypes
<1>4. Len(timers') = 0 /\ Len(timers') \in Nat BY <1>1
<1>5. InWalk'  BY <1>1, <1>2, <1>4 DEF InWalk
<1>6. NoneBehind' /\ Armed' BY <1>4 DEF NoneBehind, Armed
<1>7. Sleeping' BY <1>1 DEF Sleeping
<1> QED BY <1>3, <1>5, <1>6, <1>7 DEF TimerInv

(* Cutting to whole milliseconds never goes up. *)
LEMMA Cut ==
  ASSUME NEW n \in Nat, NEW t \in Nat \ {0}
  PROVE  (n \div t) * t \in Nat /\ (n \div t) * t <= n
OBVIOUS

LEMMA NextLeftIsLeast ==
  ASSUME FacadeAssumption, TimerInv, Timers!Active # {}
  PROVE  /\ Timers!NextLeft \in -Timers!Oldest .. Timers!Longest
         /\ \A t \in Timers!Active : Timers!NextLeft <= timers[t].left
<1> DEFINE L == {timers[t].left : t \in Timers!Active}
           S == {l + Timers!Oldest : l \in L}
<1>1. \A t \in Timers!Active : t \in 1 .. Len(timers) BY DEF Timers!Active, Timers!Ids
<1>2. L \subseteq -Timers!Oldest .. Timers!Longest /\ L # {}
  BY <1>1, EntryParts DEF TimerInv
<1> HIDE DEF L, Timers!Active
<1>11. Timers!Oldest \in Nat /\ \A k \in L : k \in Int /\ k + Timers!Oldest \in Nat
  BY <1>2, Bounds
<1>3. S \in SUBSET Nat /\ S # {} BY <1>2, <1>11
<1>4. PICK x \in S : \A y \in S : x <= y BY <1>3, LeastNatural
<1>5. PICK l \in L : x = l + Timers!Oldest OBVIOUS
<1>6. \A k \in L : l <= k
  <2> TAKE k \in L
  <2>1. x <= k + Timers!Oldest BY <1>4
  <2> QED BY <1>5, <1>11, <2>1
<1>7. \A t \in Timers!Active : timers[t].left \in L BY DEF L
<1>8. \E m \in L : \A t \in Timers!Active : m <= timers[t].left BY <1>6, <1>7
<1>9. Timers!NextLeft = CHOOSE m \in L : \A t \in Timers!Active : m <= timers[t].left
  BY DEF Timers!NextLeft, L
<1>10. Timers!NextLeft \in L /\ \A t \in Timers!Active : Timers!NextLeft <= timers[t].left
  BY <1>8, <1>9
<1> QED BY <1>2, <1>10

LEMMA TimersTimeoutTimerInv ==
  ASSUME FacadeAssumption, TimerInv, Timers!TimersTimeout
  PROVE  TimerInv'
<1> DEFINE l == Timers!NextLeft
           c == IF l < 0 THEN 0 ELSE l
<1>1. /\ walks = <<>> /\ Timers!Active # {} /\ UNCHANGED <<timers, walks, since>>
      /\ asleep' = (c \div TicksPerMs) * TicksPerMs
  BY DEF Timers!TimersTimeout, Timers!Millis, Timers!Idle
<1>2. l \in -Timers!Oldest .. Timers!Longest /\ \A t \in Timers!Active : l <= timers[t].left
  BY <1>1, NextLeftIsLeast
<1> HIDE DEF l
<1>3. c \in Nat /\ c <= Timers!Longest /\ (c > 0 => l = c) BY <1>2, Bounds
<1> HIDE DEF c
<1>4. asleep' \in Nat /\ asleep' <= c
  <2>1. TicksPerMs \in Nat \ {0} BY DEF FacadeAssumption
  <2> QED BY <1>1, <1>3, <2>1, Cut
<1>5. asleep' \in 0 .. Timers!Longest BY <1>3, <1>4, Bounds
<1>6. TimerTypes' BY <1>1, <1>5 DEF TimerInv, TimerTypes
<1>7. Sleeping'
  <2> SUFFICES ASSUME asleep' > 0, NEW t \in 1 .. Len(timers), timers[t].active
               PROVE  timers[t].left >= asleep'
    BY <1>1 DEF Sleeping
  <2>1. t \in Timers!Active BY DEF Timers!Active, Timers!Ids
  <2>2. l <= timers[t].left /\ l = c BY <1>2, <1>3, <1>4, <2>1
  <2>3. timers[t].left \in Int BY EntryParts, Bounds DEF TimerInv
  <2> QED BY <1>2, <1>3, <1>4, <2>2, <2>3, Bounds
<1>8. InWalk' /\ NoneBehind' /\ Armed'
  BY <1>1 DEF TimerInv, InWalk, NoneBehind, Stacked, Armed
<1> QED BY <1>6, <1>7, <1>8 DEF TimerInv

LEMMA TimersExecuteTimerInv ==
  ASSUME FacadeAssumption, TimerInv, Timers!TimersExecute
  PROVE  TimerInv'
<1> DEFINE w == [at |-> "look", timer |-> 1, end |-> Len(timers), elapsed |-> 0, freed |-> FALSE]
           n == Len(walks)
<1>1. /\ walks' = Append(walks, w) /\ UNCHANGED <<timers, asleep, since>> /\ asleep = 0
      /\ walks = <<>> \/ (walks # <<>> /\ walks[n].at = "handler")
  BY DEF Timers!TimersExecute, Timers!Awake, Timers!Idle, Timers!WalkAt, Timers!Top
<1>2. Len(timers) \in Nat /\ n \in Nat BY EntryParts, FrameParts DEF TimerInv
<1>3. /\ w \in Frame /\ w.elapsed = 0 /\ w.timer = 1 /\ w.end = Len(timers) /\ w.freed = FALSE
      /\ w.at = "look"
  BY <1>2, Bounds DEF Frame
<1> HIDE DEF w
<1>4. /\ walks' \in Seq(Frame) /\ Len(walks') = n + 1
      /\ \A i \in 1 .. n + 1 : walks'[i] = IF i = n + 1 THEN w ELSE walks[i]
  BY <1>1, <1>3 DEF TimerInv, TimerTypes
<1>5. Stacked'
  <2> SUFFICES ASSUME NEW i \in 1 .. n + 1, NEW j \in 1 .. n + 1, i < j
               PROVE  walks'[i].at = "handler" /\ walks'[j].elapsed <= walks'[i].elapsed
    BY <1>4 DEF Stacked
  <2>1. i \in 1 .. n /\ walks'[i] = walks[i] /\ walks # <<>> BY <1>2, <1>4
  <2>2. walks[i].elapsed \in Nat BY <2>1, FrameParts DEF TimerInv
  <2>3. Stacked BY DEF TimerInv, InWalk
  <2>4. walks[i].at = "handler"
    <3>1. CASE i = n BY <1>1, <2>1, <3>1
    <3>2. CASE i # n
      <4>1. n \in 1 .. n /\ i < n BY <1>2, <2>1, <3>2
      <4> QED BY <2>1, <2>3, <4>1 DEF Stacked
    <3> QED BY <3>1, <3>2
  <2>5. CASE j = n + 1 BY <1>3, <1>4, <2>1, <2>2, <2>4, <2>5
  <2>6. CASE j # n + 1
    <3>1. j \in 1 .. n /\ walks'[j] = walks[j] BY <1>2, <1>4, <2>6
    <3> QED BY <2>1, <2>3, <3>1 DEF Stacked
  <2> QED BY <2>5, <2>6
<1>6. ASSUME NEW i \in 1 .. n + 1 PROVE WalkShape(walks'[i], Len(timers))
  <2>1. CASE i = n + 1 BY <1>2, <1>3, <1>4, <2>1 DEF WalkShape
  <2>2. CASE i # n + 1
    <3>1. i \in 1 .. n BY <1>2, <2>2
    <3> QED BY <1>4, <2>2, <3>1 DEF TimerInv, InWalk
  <2> QED BY <2>1, <2>2
<1>7. ASSUME NEW i \in 1 .. n + 1, NEW k \in 1 .. Len(timers), Passed(k, walks'[i])
      PROVE  Behind(timers[k], since[k], walks'[i].elapsed)
  <2>1. CASE i = n + 1
    <3>1. ~Passed(k, w) BY <1>2, <1>3 DEF Passed
    <3> QED BY <1>4, <1>7, <2>1, <3>1
  <2>2. CASE i # n + 1
    <3>1. i \in 1 .. n /\ walks'[i] = walks[i] BY <1>2, <1>4, <2>2
    <3> QED BY <1>7, <3>1 DEF TimerInv, NoneBehind
  <2> QED BY <2>1, <2>2
<1> QED BY <1>1, <1>4, <1>5, <1>6, <1>7, WalkTimerInv

(* A step of the innermost walk over the timers that arms none of them. *)
LEMMA TopTimerInv ==
  ASSUME FacadeAssumption, TimerInv, walks # <<>>, NEW w \in Frame, Timers!Walk(w),
         w.elapsed = Timers!Top.elapsed, UNCHANGED <<timers, asleep, since>>,
         WalkShape(w, Len(timers)),
         \A k \in 1 .. Len(timers) : Passed(k, w) => Behind(timers[k], since[k], w.elapsed)
  PROVE  TimerInv'
<1>1. /\ walks' \in Seq(Frame) /\ Len(walks') = Len(walks) /\ Stacked'
      /\ \A i \in 1 .. Len(walks) : walks'[i] = IF i = Len(walks) THEN w ELSE walks[i]
  BY TopStep
<1>2. asleep = 0 BY DEF TimerInv, InWalk
<1>3. ASSUME NEW i \in 1 .. Len(walks) PROVE WalkShape(walks'[i], Len(timers))
  <2>1. WalkShape(walks[i], Len(timers)) BY DEF TimerInv, InWalk
  <2> QED BY <1>1, <2>1
<1>4. ASSUME NEW i \in 1 .. Len(walks), NEW k \in 1 .. Len(timers), Passed(k, walks'[i])
      PROVE  Behind(timers[k], since[k], walks'[i].elapsed)
  <2>1. CASE i = Len(walks) BY <1>1, <1>4, <2>1
  <2>2. CASE i # Len(walks)
    <3>1. walks'[i] = walks[i] BY <1>1, <2>2
    <3> QED BY <1>4, <3>1 DEF TimerInv, NoneBehind
  <2> QED BY <2>1, <2>2
<1> QED BY <1>1, <1>2, <1>3, <1>4, WalkTimerInv

(* What is known of the innermost walk. *)
LEMMA TopKnown ==
  ASSUME FacadeAssumption, TimerInv, walks # <<>>
  PROVE  /\ Timers!Top \in Frame /\ Timers!Top.timer \in Nat \ {0} /\ Timers!Top.end \in Nat
         /\ Timers!Top.elapsed \in 0 .. MaxLate /\ Timers!Top.elapsed \in Nat
         /\ Timers!Top.freed \in BOOLEAN /\ Len(timers) \in Nat /\ asleep = 0
         /\ WalkShape(Timers!Top, Len(timers))
         /\ \A k \in 1 .. Len(timers) :
              Passed(k, Timers!Top) => Behind(timers[k], since[k], Timers!Top.elapsed)
         /\ \A i \in 1 .. Len(walks) : Timers!Top.elapsed <= walks[i].elapsed
<1> DEFINE n == Len(walks)
<1>1. n \in Nat /\ n \in 1 .. n /\ Timers!Top = walks[n] BY FrameParts DEF TimerInv, Timers!Top
<1>2. \A i \in 1 .. n : walks[n].elapsed <= walks[i].elapsed
  <2> TAKE i \in 1 .. n
  <2>1. CASE i = n BY <2>1, FrameParts DEF TimerInv
  <2>2. CASE i # n
    <3>1. i < n BY <1>1, <2>2
    <3> QED BY <1>1, <3>1 DEF TimerInv, InWalk, Stacked
  <2> QED BY <2>1, <2>2
<1>3. WalkShape(walks[n], Len(timers)) /\ asleep = 0 BY <1>1 DEF TimerInv, InWalk
<1>4. \A k \in 1 .. Len(timers) : Passed(k, walks[n]) => Behind(timers[k], since[k], walks[n].elapsed)
  BY <1>1 DEF TimerInv, NoneBehind
<1>5. Len(timers) \in Nat BY EntryParts DEF TimerInv
<1>6. /\ walks[n] \in Frame /\ walks[n].timer \in Nat \ {0} /\ walks[n].end \in Nat
      /\ walks[n].elapsed \in 0 .. MaxLate /\ walks[n].elapsed \in Nat /\ walks[n].freed \in BOOLEAN
  BY <1>1, FrameParts DEF TimerInv
<1> QED BY <1>1, <1>2, <1>3, <1>4, <1>5, <1>6

LEMMA SkipTimerInv ==
  ASSUME FacadeAssumption, TimerInv, Timers!Skip
  PROVE  TimerInv'
<1> DEFINE o == Timers!Top
           t == o.timer
           w == [o EXCEPT !.timer = t + 1]
<1>1. /\ walks # <<>> /\ o.at = "look" /\ t <= o.end
      /\ ~(timers[t].active /\ timers[t].left + o.elapsed <= 0)
      /\ Timers!Walk(w) /\ UNCHANGED <<timers, asleep, since>>
  BY DEF Timers!Skip, Timers!Due, Timers!WalkAt, Timers!Idle
<1>2. /\ o \in Frame /\ t \in Nat \ {0} /\ o.end \in Nat /\ o.elapsed \in Nat
      /\ o.freed \in BOOLEAN /\ Len(timers) \in Nat /\ WalkShape(o, Len(timers))
      /\ \A k \in 1 .. Len(timers) : Passed(k, o) => Behind(timers[k], since[k], o.elapsed)
  BY <1>1, TopKnown
<1> HIDE DEF o
<1>3. ~o.freed /\ o.end <= Len(timers) BY <1>1, <1>2 DEF WalkShape
<1>4. t \in 1 .. Len(timers) BY <1>1, <1>2, <1>3
<1>5. /\ w \in Frame /\ w.timer = t + 1 /\ w.at = "look" /\ w.end = o.end /\ w.elapsed = o.elapsed
      /\ w.freed = o.freed
  BY <1>1, <1>2 DEF Frame
<1> HIDE DEF w
<1>6. WalkShape(w, Len(timers)) BY <1>3, <1>5 DEF WalkShape
<1>7. timers[t].left \in Int /\ timers[t].active \in BOOLEAN
  BY <1>4, EntryParts, Bounds DEF TimerInv
<1>8. Behind(timers[t], since[t], o.elapsed) BY <1>1, <1>2, <1>7 DEF Behind
<1>9. ASSUME NEW k \in 1 .. Len(timers), Passed(k, w)
      PROVE  Behind(timers[k], since[k], w.elapsed)
  <2>1. k = t \/ Passed(k, o) BY <1>2, <1>5, <1>9 DEF Passed
  <2> QED BY <1>2, <1>5, <1>8, <2>1
<1> QED BY <1>1, <1>5, <1>6, <1>9, TopTimerInv DEF o

LEMMA CallHandlerTimerInv ==
  ASSUME FacadeAssumption, TimerInv, Timers!CallHandler \/ Timers!HandlerReturns
  PROVE  TimerInv'
<1> DEFINE o == Timers!Top
<1>1. /\ walks # <<>> /\ UNCHANGED <<timers, asleep, since>>
      /\ \/ o.at = "look" /\ o.timer <= o.end
         \/ o.at = "handler"
  BY DEF Timers!CallHandler, Timers!HandlerReturns, Timers!WalkAt, Timers!Idle
<1>2. PICK at \in {"handler", "rearm", "lost"} :
        /\ Timers!Walk([o EXCEPT !.at = at])
        /\ o.freed => at = "lost" \/ o.at = "look"
        /\ ~o.freed => at # "lost"
        /\ at = "lost" => o.freed
  BY <1>1 DEF Timers!CallHandler, Timers!HandlerReturns, Timers!WalkAt
<1> DEFINE w == [o EXCEPT !.at = at]
<1>3. /\ o \in Frame /\ o.freed \in BOOLEAN /\ WalkShape(o, Len(timers))
      /\ \A k \in 1 .. Len(timers) : Passed(k, o) => Behind(timers[k], since[k], o.elapsed)
  BY <1>1, TopKnown
<1> HIDE DEF o
<1>4. /\ w \in Frame /\ w.timer = o.timer /\ w.at = at /\ w.end = o.end /\ w.elapsed = o.elapsed
      /\ w.freed = o.freed /\ Timers!Walk(w)
  BY <1>2, <1>3 DEF Frame
<1> HIDE DEF w
<1>5. WalkShape(w, Len(timers)) BY <1>1, <1>2, <1>3, <1>4 DEF WalkShape
<1>6. \A k \in 1 .. Len(timers) : Passed(k, w) => Behind(timers[k], since[k], w.elapsed)
  BY <1>3, <1>4 DEF Passed
<1> QED BY <1>1, <1>4, <1>5, <1>6, TopTimerInv DEF o

LEMMA ExecuteReturnsTimerInv ==
  ASSUME FacadeAssumption, TimerInv, Timers!ExecuteReturns
  PROVE  TimerInv'
<1> DEFINE n == Len(walks)
<1>1. /\ walks # <<>> /\ UNCHANGED <<timers, asleep, since>>
      /\ walks' = SubSeq(walks, 1, n - 1)
  BY DEF Timers!ExecuteReturns, Timers!WalkAt, Timers!Idle
<1>2. n \in Nat /\ n \in 1 .. n BY <1>1, FrameParts DEF TimerInv
<1>3. /\ walks' \in Seq(Frame) /\ Len(walks') = n - 1
      /\ \A i \in 1 .. n - 1 : walks'[i] = walks[i]
  <2>1. \A i \in 1 .. n - 1 : walks[i] \in Frame BY <1>2, FrameParts DEF TimerInv
  <2>2. /\ SubSeq(walks, 1, n - 1) \in Seq(Frame)
        /\ Len(SubSeq(walks, 1, n - 1)) = IF 1 <= n - 1 THEN n - 1 - 1 + 1 ELSE 0
        /\ \A i \in 1 .. n - 1 - 1 + 1 : SubSeq(walks, 1, n - 1)[i] = walks[1 + i - 1]
    <3>1. 1 \in Int /\ n - 1 \in Int BY <1>2
    <3> QED BY <2>1, <3>1, SubSeqProperties
  <2> HIDE DEF n
  <2>3. n \in Nat /\ 1 <= n BY <1>2
  <2>4. (IF 1 <= n - 1 THEN n - 1 - 1 + 1 ELSE 0) = n - 1 /\ n - 1 - 1 + 1 = n - 1 BY <2>3
  <2>5. \A i \in 1 .. n - 1 : 1 + i - 1 = i OBVIOUS
  <2>6. \A i \in 1 .. n - 1 : walks'[i] = walks[i]
    <3> TAKE i \in 1 .. n - 1
    <3>1. walks'[i] = walks[1 + i - 1] BY <1>1, <2>2, <2>4
    <3> QED BY <2>5, <3>1
  <2> QED BY <1>1, <2>2, <2>4, <2>6
<1>4. \A i \in 1 .. n - 1 : i \in 1 .. n BY <1>2
<1>5. Stacked' BY <1>3, <1>4 DEF TimerInv, InWalk, Stacked
<1>6. asleep = 0 BY <1>1 DEF TimerInv, InWalk
<1>7. \A i \in 1 .. Len(walks') : WalkShape(walks'[i], Len(timers))
  BY <1>3, <1>4 DEF TimerInv, InWalk
<1>8. \A i \in 1 .. Len(walks'), k \in 1 .. Len(timers) :
        Passed(k, walks'[i]) => Behind(timers[k], since[k], walks'[i].elapsed)
  BY <1>3, <1>4 DEF TimerInv, NoneBehind
<1> QED BY <1>1, <1>3, <1>5, <1>6, <1>7, <1>8, WalkTimerInv

LEMMA RearmTimerInv ==
  ASSUME FacadeAssumption, TimerInv, Timers!Rearm
  PROVE  TimerInv'
<1> DEFINE o == Timers!Top
           t == o.timer
           n == timers[t].interval
           e == [timers[t] EXCEPT !.left = n - o.elapsed]
           a == [ticks |-> o.elapsed, owed |-> n]
           w == [o EXCEPT !.at = "look", !.timer = t + 1]
<1>1. /\ walks # <<>> /\ o.at = "rearm" /\ UNCHANGED asleep /\ Timers!Walk(w)
      /\ timers' = [timers EXCEPT ![t].left = n - o.elapsed]
      /\ since' = [since EXCEPT ![t] = a]
  BY DEF Timers!Rearm, Timers!Rearmed, Timers!WalkAt, Timers!Idle
<1>2. /\ o \in Frame /\ t \in Nat \ {0} /\ o.end \in Nat /\ o.elapsed \in Nat
      /\ o.elapsed \in 0 .. MaxLate
      /\ o.freed \in BOOLEAN /\ Len(timers) \in Nat /\ WalkShape(o, Len(timers)) /\ asleep = 0
      /\ \A k \in 1 .. Len(timers) : Passed(k, o) => Behind(timers[k], since[k], o.elapsed)
      /\ \A i \in 1 .. Len(walks) : o.elapsed <= walks[i].elapsed
  BY <1>1, TopKnown
<1>3. ~o.freed /\ t \in 1 .. Len(timers) BY <1>1, <1>2 DEF WalkShape
<1>4. timers' = [timers EXCEPT ![t] = e] BY <1>1, <1>3, EntryParts DEF TimerInv
<1>5. timers[t] \in TimerEntry /\ n \in 0 .. Timers!Longest BY <1>3, EntryParts DEF TimerInv
<1>6. /\ w \in Frame /\ w.timer = t + 1 /\ w.at = "look" /\ w.end = o.end /\ w.elapsed = o.elapsed
      /\ w.freed = o.freed
  <2> DEFINE w1 == [o EXCEPT !.at = "look"]
  <2>1. o \in Frame /\ t \in Nat /\ t = o.timer BY <1>2
  <2> HIDE DEF o, t
  <2>2. /\ w1 \in Frame /\ w1.at = "look" /\ w1.timer = o.timer /\ w1.end = o.end
        /\ w1.elapsed = o.elapsed /\ w1.freed = o.freed
    BY <2>1 DEF Frame
  <2>3. w = [w1 EXCEPT !.timer = t + 1] BY <2>1 DEF Frame
  <2> HIDE DEF w1, w
  <2> QED BY <2>1, <2>2, <2>3 DEF Frame
<1>7. /\ walks' \in Seq(Frame) /\ Len(walks') = Len(walks) /\ Stacked'
      /\ \A i \in 1 .. Len(walks) : walks'[i] = IF i = Len(walks) THEN w ELSE walks[i]
  BY <1>1, <1>6, TopStep
<1> HIDE DEF n, t, w, o
<1>8. e \in TimerEntry /\ e.left = n - o.elapsed /\ e.active = timers[t].active
  <2>1. n - o.elapsed \in -Timers!Oldest .. Timers!Longest BY <1>2, <1>5, Bounds
  <2> HIDE DEF Timers!Longest, Timers!Oldest
  <2> QED BY <1>5, <2>1 DEF TimerEntry
<1>9. a \in Age /\ a.ticks = o.elapsed /\ a.owed = n
  <2>1. o.elapsed \in 0 .. Timers!Oldest BY <1>2, Bounds
  <2> HIDE DEF Timers!Longest, Timers!Oldest
  <2> QED BY <1>5, <2>1 DEF Age
<1>10. since' = [since EXCEPT ![t] = a] BY <1>1
<1> HIDE DEF e, a
<1>11. AddsUp(e, a) BY <1>2, <1>5, <1>8, <1>9, Bounds DEF AddsUp
<1>12. \A late \in Nat : o.elapsed <= late => Behind(e, a, late)
  BY <1>2, <1>5, <1>8, <1>9, Bounds DEF Behind
<1>13. ASSUME NEW i \in 1 .. Len(walks) PROVE WalkShape(walks'[i], Len(timers))
  <2>1. WalkShape(walks[i], Len(timers)) BY DEF TimerInv, InWalk
  <2>2. WalkShape(w, Len(timers)) BY <1>2, <1>3, <1>6 DEF WalkShape
  <2> QED BY <1>7, <2>1, <2>2
<1>14. ASSUME NEW i \in 1 .. Len(walks) PROVE Behind(e, a, walks'[i].elapsed)
  <2>1. walks[i].elapsed \in Nat /\ o.elapsed <= walks[i].elapsed BY <1>2, FrameParts DEF TimerInv
  <2>2. CASE i = Len(walks) BY <1>2, <1>6, <1>7, <1>12, <2>2
  <2>3. CASE i # Len(walks) BY <1>7, <1>12, <2>1, <2>3
  <2> QED BY <2>2, <2>3
<1>15. ASSUME NEW i \in 1 .. Len(walks), NEW k \in 1 .. Len(timers) \ {t}, Passed(k, walks'[i])
       PROVE  Behind(timers[k], since[k], walks'[i].elapsed)
  <2>1. CASE i = Len(walks)
    <3>1. Passed(k, w) /\ walks'[i].elapsed = o.elapsed BY <1>6, <1>7, <1>15, <2>1
    <3>2. Passed(k, o) BY <1>2, <1>6, <3>1 DEF Passed, t
    <3> QED BY <1>2, <3>1, <3>2
  <2>2. CASE i # Len(walks)
    <3>1. walks'[i] = walks[i] BY <1>7, <2>2
    <3> QED BY <1>15, <3>1 DEF TimerInv, NoneBehind
  <2> QED BY <2>1, <2>2
<1> QED BY <1>1, <1>2, <1>3, <1>4, <1>7, <1>8, <1>9, <1>10, <1>11, <1>13, <1>14, <1>15, OneTimer

(* A tick, for one timer: what is left and the age move together until the *)
(* age is no longer told apart.                                            *)
Older(e) == [e EXCEPT !.left = IF @ > -Timers!Oldest THEN @ - 1 ELSE @]
Aged(a) == [a EXCEPT !.ticks = IF @ < Timers!Oldest THEN @ + 1 ELSE @]

LEMMA OneTick ==
  ASSUME FacadeAssumption, NEW e \in TimerEntry, NEW a \in Age, AddsUp(e, a)
  PROVE  /\ Older(e) \in TimerEntry /\ Aged(a) \in Age /\ AddsUp(Older(e), Aged(a))
         /\ Aged(a).owed = a.owed /\ Older(e).active = e.active
         /\ Older(e).left = IF e.left > -Timers!Oldest THEN e.left - 1 ELSE e.left
<1>1. /\ e.left \in -Timers!Oldest .. Timers!Longest
      /\ a.ticks \in 0 .. Timers!Oldest /\ a.owed \in 0 .. Timers!Longest
  BY DEF TimerEntry, Age
<1> DEFINE l == IF e.left > -Timers!Oldest THEN e.left - 1 ELSE e.left
           n == IF a.ticks < Timers!Oldest THEN a.ticks + 1 ELSE a.ticks
<1>2. l \in -Timers!Oldest .. Timers!Longest /\ n \in 0 .. Timers!Oldest BY <1>1, Bounds
<1>3. \/ l + n = a.owed
      \/ n = Timers!Oldest /\ l <= a.owed - Timers!Oldest
  BY <1>1, Bounds DEF AddsUp
<1>4. Older(e) = [e EXCEPT !.left = l] /\ Aged(a) = [a EXCEPT !.ticks = n] BY DEF Older, Aged
<1> HIDE DEF l, n, Timers!Longest, Timers!Oldest
<1>5. Older(e) \in TimerEntry /\ Older(e).left = l /\ Older(e).active = e.active
  BY <1>2, <1>4 DEF TimerEntry
<1>6. Aged(a) \in Age /\ Aged(a).ticks = n /\ Aged(a).owed = a.owed
  BY <1>2, <1>4 DEF Age
<1>7. AddsUp(Older(e), Aged(a)) BY <1>3, <1>5, <1>6 DEF AddsUp
<1> QED BY <1>5, <1>6, <1>7 DEF l

LEMMA TickTimerInv ==
  ASSUME FacadeAssumption, TimerInv, Timers!Tick
  PROVE  TimerInv'
<1> DEFINE N == 1 .. Len(timers)
           W == 1 .. Len(walks)
           Later(w) == [w EXCEPT !.elapsed = @ + 1]
<1>1. /\ timers' = [t \in N |-> Older(timers[t])] /\ since' = [t \in N |-> Aged(since[t])]
      /\ walks' = [i \in W |-> Later(walks[i])]
  BY DEF Timers!Tick, Timers!Ids, Older, Aged
<1>2. /\ walks = <<>> \/ walks[1].elapsed < MaxLate
      /\ asleep' = (IF asleep > 0 THEN asleep - 1 ELSE 0)
  BY DEF Timers!Tick, Timers!Idle
<1>3. \A t \in N : timers[t] \in TimerEntry /\ since[t] \in Age /\ AddsUp(timers[t], since[t])
  BY EntryParts DEF TimerInv, Armed
<1>4. /\ \A t \in N : Older(timers[t]) \in TimerEntry /\ Aged(since[t]) \in Age
      /\ \A t \in N : AddsUp(Older(timers[t]), Aged(since[t]))
      /\ \A t \in N : Aged(since[t]).owed = since[t].owed
      /\ \A t \in N : Older(timers[t]).active = timers[t].active
      /\ \A t \in N : Older(timers[t]).left =
                        IF timers[t].left > -Timers!Oldest THEN timers[t].left - 1 ELSE timers[t].left
  BY <1>3, OneTick
<1>5. Len(timers) \in Nat /\ Len(walks) \in Nat BY EntryParts, FrameParts DEF TimerInv
<1>6. /\ timers' \in Seq(TimerEntry) /\ since' \in Seq(Age)
      /\ Len(timers') = Len(timers) /\ Len(since') = Len(timers)
      /\ \A t \in N : timers'[t] = Older(timers[t]) /\ since'[t] = Aged(since[t])
  BY <1>1, <1>4, <1>5
<1>7. ASSUME NEW i \in W PROVE walks[i].elapsed < MaxLate /\ walks[i].elapsed \in Nat
  <2>1. 1 \in W /\ walks[1].elapsed \in Nat /\ walks[i].elapsed \in Nat /\ walks # <<>>
    BY <1>5, FrameParts DEF TimerInv
  <2>2. i = 1 \/ walks[i].elapsed <= walks[1].elapsed
    BY <1>5, <2>1 DEF TimerInv, InWalk, Stacked
  <2> QED BY <1>2, <2>1, <2>2, Bounds
<1>8. ASSUME NEW i \in W
      PROVE  /\ Later(walks[i]) \in Frame /\ Later(walks[i]).at = walks[i].at
             /\ Later(walks[i]).timer = walks[i].timer /\ Later(walks[i]).end = walks[i].end
             /\ Later(walks[i]).freed = walks[i].freed
             /\ Later(walks[i]).elapsed = walks[i].elapsed + 1
  <2>1. walks[i] \in Frame BY FrameParts DEF TimerInv
  <2>2. walks[i].elapsed + 1 \in 0 .. MaxLate BY <1>7, Bounds
  <2> QED BY <2>1, <2>2 DEF Frame
<1> HIDE DEF Later
<1>9. /\ walks' \in Seq(Frame) /\ Len(walks') = Len(walks)
      /\ \A i \in W : walks'[i] = Later(walks[i])
  BY <1>1, <1>5, <1>8
<1>10. asleep \in 0 .. Timers!Longest BY DEF TimerInv, TimerTypes
<1>11. asleep' \in 0 .. Timers!Longest BY <1>2, <1>10, Bounds
<1>12. TimerTypes' BY <1>6, <1>9, <1>11 DEF TimerInv, TimerTypes
<1>13. InWalk'
  <2>1. walks' # <<>> => walks # <<>> BY <1>5, <1>9 DEF TimerInv, TimerTypes
  <2>2. Stacked'
    <3> SUFFICES ASSUME NEW i \in W, NEW j \in W, i < j
                 PROVE  walks'[i].at = "handler" /\ walks'[j].elapsed <= walks'[i].elapsed
      BY <1>9 DEF Stacked
    <3>1. walks[i].at = "handler" /\ walks[j].elapsed <= walks[i].elapsed
      BY DEF TimerInv, InWalk, Stacked
    <3>2. walks[i].elapsed \in Nat /\ walks[j].elapsed \in Nat BY <1>7
    <3> QED BY <1>8, <1>9, <3>1, <3>2
  <2>3. ASSUME NEW i \in W PROVE WalkShape(walks'[i], Len(timers))
    <3>1. WalkShape(walks[i], Len(timers)) BY DEF TimerInv, InWalk
    <3> QED BY <1>8, <1>9, <3>1 DEF WalkShape
  <2> QED BY <1>2, <1>6, <1>9, <2>1, <2>2, <2>3 DEF TimerInv, InWalk
<1>14. Armed' BY <1>4, <1>6 DEF Armed
<1>15. \A t \in N : timers[t].left \in -Timers!Oldest .. Timers!Longest /\ since[t].owed \in Nat
  BY EntryParts, Bounds DEF TimerInv
<1>16. NoneBehind'
  <2> SUFFICES ASSUME NEW i \in W, NEW t \in N, Passed(t, walks'[i])
               PROVE  Behind(timers'[t], since'[t], walks'[i].elapsed)
    BY <1>6, <1>9 DEF NoneBehind
  <2> DEFINE late == walks[i].elapsed
  <2>1. Passed(t, walks[i]) BY <1>8, <1>9 DEF Passed
  <2>2. Behind(timers[t], since[t], late) BY <2>1 DEF TimerInv, NoneBehind
  <2>3. walks'[i].elapsed = late + 1 /\ late \in Nat /\ late < MaxLate BY <1>7, <1>8, <1>9
  <2> HIDE DEF late
  <2>4. timers[t].active /\ since[t].owed > 0 => timers'[t].left = timers[t].left - 1
    BY <1>4, <1>6, <1>15, <2>2, <2>3, Bounds DEF Behind
  <2>5. timers[t].left \in Int BY <1>15, Bounds
  <2> QED BY <1>4, <1>6, <2>2, <2>3, <2>4, <2>5, Bounds DEF Behind
<1>17. Sleeping'
  <2> SUFFICES ASSUME asleep' > 0, NEW t \in N, timers'[t].active
               PROVE  timers'[t].left >= asleep'
    BY <1>6 DEF Sleeping
  <2>1. asleep > 0 /\ asleep' = asleep - 1 BY <1>2, <1>10, Bounds
  <2>2. timers[t].left >= asleep BY <1>4, <1>6, <2>1 DEF TimerInv, Sleeping
  <2>3. timers[t].left \in Int BY <1>15, Bounds
  <2>4. timers'[t].left = timers[t].left - 1 BY <1>4, <1>6, <1>10, <2>1, <2>2, <2>3, Bounds
  <2> QED BY <1>10, <2>1, <2>2, <2>3, <2>4, Bounds
<1> QED BY <1>12, <1>13, <1>14, <1>16, <1>17 DEF TimerInv

LEMMA TimerStutter ==
  ASSUME TimerInv, UNCHANGED timerVars
  PROVE  TimerInv'
BY DEF timerVars, TimerInv, TimerTypes, InWalk, Stacked, Armed, NoneBehind, Sleeping

LEMMA TimersNext ==
  ASSUME FacadeAssumption, TimerInv, Timers!Next
  PROVE  TimerInv'
<1>1. ASSUME NEW t \in 1 .. Len(timers),
             Timers!TimersCancel(t) \/ Timers!TimersSetInterval(t) \/ Timers!TimersReset(t)
      PROVE  TimerInv'
  BY <1>1, TimersCancelTimerInv, TimersSetIntervalTimerInv, TimersResetTimerInv
<1>2. CASE Timers!TimersAdd \/ Timers!TimersDestroy \/ Timers!TimersTimeout \/ Timers!TimersExecute
  BY <1>2, TimersAddTimerInv, TimersDestroyTimerInv, TimersTimeoutTimerInv, TimersExecuteTimerInv
<1>3. CASE \/ Timers!Skip \/ Timers!CallHandler \/ Timers!HandlerReturns \/ Timers!Rearm
           \/ Timers!ExecuteReturns \/ Timers!Tick
  BY <1>3, SkipTimerInv, CallHandlerTimerInv, RearmTimerInv, ExecuteReturnsTimerInv, TickTimerInv
<1>4. CASE Timers!Undefined BY <1>4, TimerStutter DEF Timers!Undefined, Timers!tvars, timerVars
<1> QED BY <1>1, <1>2, <1>3, <1>4 DEF Timers!Next, Timers!Ids

LEMMA TimersInitially ==
  ASSUME FacadeAssumption, Timers!Init
  PROVE  TimerInv
<1>1. TimerTypes BY Bounds DEF Timers!Init, TimerTypes
<1>2. InWalk /\ Armed /\ NoneBehind /\ Sleeping
  BY DEF Timers!Init, InWalk, Stacked, Armed, NoneBehind, Sleeping
<1> QED BY <1>1, <1>2 DEF TimerInv

LEMMA TimerInvPunctual ==
  ASSUME FacadeAssumption, TimerInv
  PROVE  Timers!TypeOK /\ Timers!NoBurst /\ Timers!DueIsServed /\ Timers!NeverOversleeps
<1>1. Timers!TypeOK
  <2>1. \A t \in Timers!Ids : /\ timers[t].left \in -Timers!Oldest .. Timers!Longest
                              /\ timers[t].interval \in 0 .. Timers!Longest
    BY EntryParts DEF TimerInv, Timers!Ids
  <2>2. ASSUME NEW i \in 1 .. Len(walks)
        PROVE  /\ walks[i].at \in {"look", "handler", "rearm", "lost"}
               /\ walks[i].elapsed \in 0 .. MaxLate
               /\ walks[i].at \in {"look", "rearm"} => walks[i].end <= Len(timers)
               /\ walks[i].at = "rearm" => walks[i].timer \in Timers!Ids
    <3>1. WalkShape(walks[i], Len(timers)) BY DEF TimerInv, InWalk
    <3>2. Len(timers) \in Nat BY EntryParts DEF TimerInv
    <3> QED BY <3>1, <3>2, FrameParts DEF TimerInv, Timers!Ids, WalkShape
  <2> HIDE DEF Timers!Oldest, Timers!Longest, Timers!Ids
  <2> QED BY <2>1, <2>2 DEF Timers!TypeOK, TimerInv, TimerTypes
<1>2. Timers!NoBurst
  <2> DEFINE o == Timers!Top
             l == timers[o.timer].left
             n == since[o.timer].ticks
             w == since[o.timer].owed
  <2> SUFFICES ASSUME walks # <<>>, o.at = "look", o.timer <= o.end, l + o.elapsed <= 0
               PROVE  n - o.elapsed >= w
    BY DEF Timers!NoBurst, Timers!WalkAt, Timers!Idle, Timers!Due
  <2>1. /\ o.timer \in Nat \ {0} /\ o.end \in Nat /\ o.elapsed \in 0 .. MaxLate
        /\ WalkShape(o, Len(timers)) /\ Len(timers) \in Nat /\ o.freed \in BOOLEAN
    BY TopKnown
  <2>2. o.timer \in 1 .. Len(timers) BY <2>1 DEF WalkShape
  <2>3. AddsUp(timers[o.timer], since[o.timer]) BY <2>2 DEF TimerInv, Armed
  <2>4. /\ l \in Int /\ n \in Int /\ w \in 0 .. Timers!Longest
    BY <2>2, EntryParts, Bounds DEF TimerInv
  <2>5. l + n = w \/ (n = Timers!Oldest /\ l <= w - Timers!Oldest) BY <2>3 DEF AddsUp
  <2>6. /\ Timers!Oldest = MaxLate + Timers!Longest /\ Timers!Longest \in Nat /\ MaxLate \in Nat
    BY Bounds
  <2> DEFINE late == o.elapsed
  <2>7. late \in 0 .. MaxLate /\ l + late <= 0 BY <2>1
  <2> HIDE DEF l, n, w, late
  <2>8. n - late >= w BY <2>4, <2>5, <2>6, <2>7
  <2> QED BY <2>8 DEF late
<1>3. Timers!DueIsServed
  <2> DEFINE o == Timers!Top
  <2> SUFFICES ASSUME walks # <<>>, o.at = "look", o.timer > o.end,
                      NEW t \in 1 .. Len(timers), timers[t].active, since[t].owed > 0
               PROVE  ~(timers[t].left + o.elapsed <= 0)
    BY DEF Timers!DueIsServed, Timers!WalkAt, Timers!Idle, Timers!Ids, Timers!Due, Timers!Active
  <2>1. /\ o.timer \in Nat \ {0} /\ o.end \in Nat /\ o.elapsed \in Nat
        /\ WalkShape(o, Len(timers)) /\ Len(timers) \in Nat /\ o.freed \in BOOLEAN
        /\ Passed(t, o) => Behind(timers[t], since[t], o.elapsed)
    BY TopKnown
  <2>2. Passed(t, o) BY <2>1 DEF WalkShape, Passed
  <2>3. timers[t].left \in Int BY EntryParts, Bounds DEF TimerInv
  <2> QED BY <2>1, <2>2, <2>3 DEF Behind
<1>4. Timers!NeverOversleeps
  BY DEF Timers!NeverOversleeps, Timers!Active, Timers!Ids, TimerInv, Sleeping
<1> QED BY <1>1, <1>2, <1>3, <1>4

(* Timers are punctual, for any number of them, any intervals, any depth   *)
(* of nested walks and however late the loop is: zmq_timers_execute leaves *)
(* none due that it should have fired and fires none before the interval   *)
(* it was armed with is over, whatever timers the handlers add, change and *)
(* execute, unless the program has gone on in a Vec that moved or was      *)
(* destroyed under its walk; and a sleep of zmq_timers_timeout ends before *)
(* any deadline.                                                           *)
THEOREM TimersAlwaysPunctual == FacadeSpec => []TimersPunctual
<1> DEFINE Inv == part = "timers" => TimerInv
<1>1. FacadeInit => Inv BY TimersInitially, FacadeAssumption DEF FacadeInit
<1>2. Inv /\ [FacadeNext]_facade => Inv'
  <2> SUFFICES ASSUME Inv, part' = "timers", [FacadeNext]_facade PROVE TimerInv'
    OBVIOUS
  <2>1. part' = part BY DEF FacadeNext, facade
  <2>2. CASE FacadeNext
    <3>1. Timers!Next BY <2>1, <2>2 DEF FacadeNext
    <3> QED BY <2>1, <3>1, TimersNext, FacadeAssumption
  <2>3. CASE UNCHANGED facade
    <3>1. UNCHANGED timerVars BY <2>3 DEF facade
    <3> QED BY <2>1, <3>1, TimerStutter
  <2> QED BY <2>2, <2>3
<1>3. Inv => TimersPunctual BY TimerInvPunctual, FacadeAssumption DEF TimersPunctual
<1> QED BY <1>1, <1>2, <1>3, PTL DEF FacadeSpec

-----------------------------------------------------------------------------
(* Pollers of the C ABI. *)

Watched == [what : PollSockets \cup PollFds, events : SUBSET Poller!Events]
Look == [op : {"wait", "poll"}, look : Seq(Watched), next : Nat \ {0}, ready : Seq(Watched)]
Slumber == [op |-> "asleep"]

PollTypes ==
  /\ entries \in Seq(Watched) /\ holder \in PollThreads \cup {Poller!Nobody}
  /\ inbox \subseteq PollSockets /\ rose \in [PollThreads -> SUBSET PollSockets]
  /\ call \in [PollThreads -> Look \cup {Poller!NotCalling, Slumber}]

Once == \A i, j \in 1 .. Len(entries) : entries[i].what = entries[j].what => i = j

(* A wait has the lock, so what it looks at is what is registered. *)
WaitHolds == \A t \in PollThreads : call[t].op = "wait" => holder = t /\ call[t].look = entries

(* What a call reports it has looked at, for these events. *)
Found(c) ==
  \A i \in 1 .. Len(c.ready) : \E j \in 1 .. Len(c.look) :
    c.look[j].what = c.ready[i].what /\ c.ready[i].events \subseteq c.look[j].events

(* A call that has found nothing missed nothing so far. *)
IsReady(e, box) == e.what \notin PollFds /\ ("out" \in e.events \/ ("in" \in e.events /\ e.what \in box))
NoneMissed(c, box, since_then) ==
  c.ready = <<>> =>
    \A i \in 1 .. Len(c.look) : i < c.next /\ IsReady(c.look[i], box) => c.look[i].what \in since_then

CallSound(t) == call[t] \in Look => Found(call[t]) /\ NoneMissed(call[t], inbox, rose[t])

(* The inductive invariant of the pollers. *)
PollInv == PollTypes /\ Once /\ WaitHolds /\ \A t \in PollThreads : CallSound(t)

LEMMA SameCardinality == \A S : Poller!Cardinality(S) = Cardinality(S)
BY DEF Poller!Cardinality, Cardinality

LEMMA NobodyIsNoThread ==
  ASSUME FacadeAssumption, PollInv, holder = Poller!Nobody
  PROVE  \A t \in PollThreads : call[t].op # "wait"
BY DEF FacadeAssumption, PollInv, WaitHolds, Poller!Nobody

LEMMA NotLook == Poller!NotCalling \notin Look /\ Slumber \notin Look
                 /\ Poller!NotCalling.op = "none" /\ Slumber.op = "asleep"
<1>1. \A c \in Look : c.op \in {"wait", "poll"} BY DEF Look
<1>2. Poller!NotCalling.op = "none" /\ Slumber.op = "asleep" BY DEF Poller!NotCalling, Slumber
<1> QED BY <1>1, <1>2

(* The entries change while nobody holds the lock. *)
LEMMA EntriesPollInv ==
  ASSUME FacadeAssumption, PollInv, holder = Poller!Nobody,
         UNCHANGED <<holder, call, inbox, rose>>, entries' \in Seq(Watched), Once'
  PROVE  PollInv'
<1>1. PollTypes' BY DEF PollInv, PollTypes
<1>2. WaitHolds' BY NobodyIsNoThread DEF WaitHolds
<1>3. \A t \in PollThreads : CallSound(t)' BY DEF PollInv, CallSound
<1> QED BY <1>1, <1>2, <1>3 DEF PollInv

LEMMA PollerAddPollInv ==
  ASSUME FacadeAssumption, PollInv, NEW t \in PollThreads, NEW x \in PollSockets \cup PollFds,
         NEW events \in SUBSET Poller!Events, Poller!PollerAdd(t, x, events)
  PROVE  PollInv'
<1> DEFINE e == [what |-> x, events |-> events]
<1>1. /\ holder = Poller!Nobody /\ UNCHANGED <<holder, call, inbox, rose>>
      /\ entries' = Append(entries, e) /\ x \notin Poller!Registered
  BY DEF Poller!PollerAdd, Poller!CanLock, Poller!MayAdd
<1>2. e \in Watched /\ e.what = x BY DEF Watched
<1> HIDE DEF e
<1>3. entries \in Seq(Watched) /\ \A i \in 1 .. Len(entries) : entries[i].what # x
  BY <1>1 DEF PollInv, PollTypes, Poller!Registered
<1>4. /\ entries' \in Seq(Watched) /\ Len(entries') = Len(entries) + 1
      /\ \A i \in 1 .. Len(entries) + 1 : entries'[i] = IF i = Len(entries) + 1 THEN e ELSE entries[i]
  BY <1>1, <1>2, <1>3
<1>5. Once'
  <2> SUFFICES ASSUME NEW i \in 1 .. Len(entries'), NEW j \in 1 .. Len(entries'),
                      entries'[i].what = entries'[j].what
               PROVE  i = j
    BY DEF Once
  <2>1. Len(entries) \in Nat BY <1>3
  <2> QED BY <1>2, <1>3, <1>4, <2>1 DEF PollInv, Once
<1> QED BY <1>1, <1>4, <1>5, EntriesPollInv

LEMMA PollerModifyPollInv ==
  ASSUME FacadeAssumption, PollInv, NEW t \in PollThreads, NEW x \in PollSockets \cup PollFds,
         NEW events \in SUBSET Poller!Events, Poller!PollerModify(t, x, events)
  PROVE  PollInv'
<1> DEFINE m(e) == IF e.what = x THEN [e EXCEPT !.events = events] ELSE e
<1>1. /\ holder = Poller!Nobody /\ UNCHANGED <<holder, call, inbox, rose>>
      /\ entries' = [i \in 1 .. Len(entries) |-> m(entries[i])]
  BY DEF Poller!PollerModify, Poller!CanLock
<1>2. entries \in Seq(Watched) /\ Len(entries) \in Nat /\ \A i \in 1 .. Len(entries) : entries[i] \in Watched
  BY DEF PollInv, PollTypes
<1>3. \A e \in Watched : m(e) \in Watched /\ m(e).what = e.what BY DEF Watched
<1> HIDE DEF m
<1>4. /\ entries' \in Seq(Watched) /\ Len(entries') = Len(entries)
      /\ \A i \in 1 .. Len(entries) : entries'[i] = m(entries[i])
  BY <1>1, <1>2, <1>3
<1>5. Once' BY <1>2, <1>3, <1>4 DEF PollInv, Once
<1> QED BY <1>1, <1>4, <1>5, EntriesPollInv

LEMMA PollerRemovePollInv ==
  ASSUME FacadeAssumption, PollInv, NEW t \in PollThreads, NEW x \in PollSockets \cup PollFds,
         Poller!PollerRemove(t, x)
  PROVE  PollInv'
<1> DEFINE kept == {i \in 1 .. Len(entries) : entries[i].what # x}
           n == Cardinality(kept)
<1>1. /\ holder = Poller!Nobody /\ UNCHANGED <<holder, call, inbox, rose>> /\ Poller!Retain(x)
  BY DEF Poller!PollerRemove, Poller!CanLock
<1>2. Poller!Cardinality(kept) = n BY SameCardinality
<1>3. PICK from \in [1 .. n -> kept] :
        /\ \A i, j \in 1 .. n : i < j => from[i] < from[j]
        /\ entries' = [i \in 1 .. n |-> entries[from[i]]]
  BY <1>1, <1>2 DEF Poller!Retain
<1>4. entries \in Seq(Watched) /\ Len(entries) \in Nat BY DEF PollInv, PollTypes
<1>5. n \in Nat
  <2>1. IsFiniteSet(1 .. Len(entries)) BY <1>4, FS_Interval
  <2>2. IsFiniteSet(kept) BY <2>1, FS_Subset
  <2> QED BY <2>2, FS_CardinalityType
<1>6. \A i \in 1 .. n : from[i] \in 1 .. Len(entries) OBVIOUS
<1> HIDE DEF n, kept
<1>7. /\ entries' \in Seq(Watched) /\ Len(entries') = n
      /\ \A i \in 1 .. n : entries'[i] = entries[from[i]]
  BY <1>3, <1>4, <1>5, <1>6
<1>8. \A i, j \in 1 .. n : from[i] = from[j] => i = j BY <1>3, <1>5, <1>6
<1>9. Once' BY <1>6, <1>7, <1>8 DEF PollInv, Once
<1> QED BY <1>1, <1>7, <1>9, EntriesPollInv

(* One thread's call changes. *)
LEMMA OneCall ==
  ASSUME PollInv, NEW t \in PollThreads, NEW c \in Look \cup {Poller!NotCalling, Slumber},
         call' = [call EXCEPT ![t] = c], UNCHANGED <<entries, inbox>>,
         holder' \in PollThreads \cup {Poller!Nobody},
         rose' \in [PollThreads -> SUBSET PollSockets],
         \A u \in PollThreads \ {t} : rose'[u] = rose[u],
         \A u \in PollThreads \ {t} : call[u].op = "wait" => holder' = u,
         c.op = "wait" => holder' = t /\ c.look = entries,
         c \in Look => Found(c) /\ NoneMissed(c, inbox, rose'[t])
  PROVE  PollInv'
<1>1. /\ call \in [PollThreads -> Look \cup {Poller!NotCalling, Slumber}]
      /\ call' \in [PollThreads -> Look \cup {Poller!NotCalling, Slumber}]
      /\ call'[t] = c /\ \A u \in PollThreads \ {t} : call'[u] = call[u]
  BY DEF PollInv, PollTypes
<1>2. PollTypes' BY <1>1 DEF PollInv, PollTypes
<1>3. Once' BY DEF PollInv, Once
<1>4. WaitHolds' BY <1>1 DEF PollInv, WaitHolds
<1>5. ASSUME NEW u \in PollThreads PROVE CallSound(u)'
  <2>1. CASE u = t BY <1>1, <2>1 DEF CallSound
  <2>2. CASE u # t BY <1>1, <2>2 DEF PollInv, CallSound
  <2> QED BY <2>1, <2>2
<1> QED BY <1>2, <1>3, <1>4, <1>5 DEF PollInv

LEMMA PollerWaitPollInv ==
  ASSUME FacadeAssumption, PollInv, NEW t \in PollThreads, Poller!PollerWait(t)
  PROVE  PollInv'
<1> DEFINE c == [op |-> "wait", look |-> entries, next |-> 1, ready |-> <<>>]
<1>1. /\ holder = Poller!Nobody /\ holder' = t /\ call' = [call EXCEPT ![t] = c]
      /\ UNCHANGED <<entries, inbox, rose>>
  BY DEF Poller!PollerWait, Poller!CanLock
<1>2. entries \in Seq(Watched) /\ rose \in [PollThreads -> SUBSET PollSockets]
  BY DEF PollInv, PollTypes
<1>3. c \in Look /\ c.look = entries /\ c.next = 1 /\ c.ready = <<>> BY <1>2 DEF Look
<1> HIDE DEF c
<1>4. Found(c) /\ NoneMissed(c, inbox, rose'[t]) BY <1>3 DEF Found, NoneMissed
<1>5. \A u \in PollThreads : call[u].op # "wait" BY <1>1, NobodyIsNoThread
<1> QED BY <1>1, <1>2, <1>3, <1>4, <1>5, OneCall

LEMMA PollPollInv ==
  ASSUME FacadeAssumption, PollInv, NEW t \in PollThreads, Poller!Poll(t, {"in"})
  PROVE  PollInv'
<1>1. PICK items \in {i \in PollSockets \X PollSockets : i[1] # i[2]} :
        call' = [call EXCEPT ![t] = [op |-> "poll", next |-> 1, ready |-> <<>>,
                   look |-> [i \in 1 .. 2 |-> [what |-> items[i], events |-> {"in"}]]]]
  BY DEF Poller!Poll
<1> DEFINE look == [i \in 1 .. 2 |-> [what |-> items[i], events |-> {"in"}]]
           c == [op |-> "poll", next |-> 1, ready |-> <<>>, look |-> look]
<1>2. look \in Seq(Watched)
  <2>1. \A i \in 1 .. 2 : items[i] \in PollSockets BY <1>1
  <2>2. {"in"} \in SUBSET Poller!Events BY DEF Poller!Events
  <2>3. \A i \in 1 .. 2 : [what |-> items[i], events |-> {"in"}] \in Watched
    BY <2>1, <2>2 DEF Watched
  <2> QED BY <2>3
<1> HIDE DEF look
<1>3. c \in Look /\ c.op = "poll" /\ c.next = 1 /\ c.ready = <<>> BY <1>2 DEF Look
<1>4. call' = [call EXCEPT ![t] = c] BY <1>1 DEF look
<1> HIDE DEF c
<1>5. UNCHANGED <<entries, holder, inbox, rose>> BY DEF Poller!Poll
<1>6. Found(c) /\ NoneMissed(c, inbox, rose'[t]) BY <1>3 DEF Found, NoneMissed
<1>7. holder' \in PollThreads \cup {Poller!Nobody} /\ rose' \in [PollThreads -> SUBSET PollSockets]
      /\ \A u \in PollThreads : call[u].op = "wait" => holder' = u
  BY <1>5 DEF PollInv, PollTypes, WaitHolds
<1> QED BY <1>3, <1>4, <1>5, <1>6, <1>7, OneCall

(* socket_revents finds something exactly when the entry is ready. *)
LEMMA ReventsReady ==
  ASSUME PollInv, NEW e \in Watched
  PROVE  /\ Poller!Revents(e) # {} <=> IsReady(e, inbox)
         /\ Poller!Revents(e) \subseteq e.events
<1>1. e.events \subseteq {"in", "out"} BY DEF Watched, Poller!Events
<1>2. Poller!Revents(e) = IF e.what \in PollFds THEN {}
                          ELSE ({"out"} \cup (IF e.what \in inbox THEN {"in"} ELSE {})) \cap e.events
  BY DEF Poller!Revents, Poller!IsFd, Poller!SocketEvents
<1>3. CASE e.what \in PollFds BY <1>2, <1>3 DEF IsReady
<1>4. CASE e.what \notin PollFds /\ e.what \in inbox
  <2>1. Poller!Revents(e) = {"out", "in"} \cap e.events BY <1>2, <1>4
  <2> QED BY <1>4, <2>1 DEF IsReady
<1>5. CASE e.what \notin PollFds /\ e.what \notin inbox
  <2>1. Poller!Revents(e) = {"out"} \cap e.events BY <1>2, <1>5
  <2> QED BY <1>5, <2>1 DEF IsReady
<1> QED BY <1>3, <1>4, <1>5

LEMMA InCallIsLook ==
  ASSUME PollInv, NEW t \in PollThreads
  PROVE  Poller!InCall(t) <=> call[t] \in Look
<1>1. call[t] \in Look \cup {Poller!NotCalling, Slumber} BY DEF PollInv, PollTypes
<1>2. \A c \in Look : c.op \in {"wait", "poll"} BY DEF Look
<1> HIDE DEF Poller!NotCalling, Slumber
<1> QED BY <1>1, <1>2, NotLook DEF Poller!InCall

LEMMA LookPollInv ==
  ASSUME FacadeAssumption, PollInv, NEW t \in PollThreads, Poller!Look(t)
  PROVE  PollInv'
<1> DEFINE o == call[t]
           i == o.next
           e == o.look[i]
           w == [what |-> e.what, events |-> Poller!Revents(e)]
           r == IF Poller!Revents(e) = {} THEN o.ready ELSE Append(o.ready, w)
           c == [o EXCEPT !.next = i + 1, !.ready = r]
<1>1. o \in Look /\ i <= Len(o.look) /\ UNCHANGED <<entries, holder, inbox, rose>>
  BY InCallIsLook DEF Poller!Look, Poller!Looking
<1>2. /\ o.look \in Seq(Watched) /\ o.ready \in Seq(Watched) /\ i \in Nat \ {0}
      /\ i \in 1 .. Len(o.look) /\ e \in Watched
  <2>1. o.look \in Seq(Watched) /\ o.ready \in Seq(Watched) /\ i \in Nat \ {0} BY <1>1 DEF Look
  <2>2. i \in 1 .. Len(o.look) BY <1>1, <2>1
  <2>3. e \in Watched BY <2>1, <2>2
  <2> QED BY <2>1, <2>2, <2>3
<1>3. call' = [call EXCEPT ![t] = c]
  <2>1. call \in [PollThreads -> Look \cup {Poller!NotCalling, Slumber}] BY DEF PollInv, PollTypes
  <2> HIDE DEF Poller!Revents
  <2> QED BY <2>1 DEF Poller!Look
<1>4. /\ Poller!Revents(e) # {} <=> IsReady(e, inbox)
      /\ Poller!Revents(e) \subseteq e.events
  BY <1>2, ReventsReady
<1> HIDE DEF Poller!Revents
<1>5. w \in Watched /\ w.what = e.what /\ w.events = Poller!Revents(e)
  <2>1. e.what \in PollSockets \cup PollFds /\ e.events \in SUBSET Poller!Events BY <1>2 DEF Watched
  <2>2. Poller!Revents(e) \in SUBSET Poller!Events BY <1>4, <2>1
  <2> QED BY <2>1, <2>2 DEF Watched
<1> HIDE DEF w, e, i
<1>6. r \in Seq(Watched) BY <1>2, <1>5
<1> HIDE DEF o
<1>7. r = <<>> => o.ready = <<>> /\ ~IsReady(e, inbox)
  <2>1. CASE Poller!Revents(e) = {}
    <3>1. r = o.ready BY <2>1
    <3> QED BY <1>4, <2>1, <3>1, Zenon
  <2>2. CASE Poller!Revents(e) # {}
    <3>1. r = Append(o.ready, w) BY <2>2
    <3>2. Len(o.ready) \in Nat /\ Len(Append(o.ready, w)) = Len(o.ready) + 1 BY <1>2, <1>5
    <3>3. Len(r) # 0 BY <3>1, <3>2
    <3> QED BY <3>3
  <2> QED BY <2>1, <2>2
<1>8. \A k \in 1 .. Len(r) : r[k] = w \/ (k \in 1 .. Len(o.ready) /\ r[k] = o.ready[k])
  BY <1>2, <1>5
<1> HIDE DEF r
<1>9. c \in Look /\ c.op = o.op /\ c.look = o.look /\ c.next = i + 1 /\ c.ready = r
  <2> DEFINE c1 == [o EXCEPT !.next = i + 1]
  <2>1. c1 \in Look /\ c1.op = o.op /\ c1.look = o.look /\ c1.next = i + 1 BY <1>1, <1>2 DEF Look
  <2>2. c = [c1 EXCEPT !.ready = r] BY <1>1 DEF Look
  <2> HIDE DEF c1, c
  <2> QED BY <1>6, <2>1, <2>2 DEF Look
<1> HIDE DEF c
<1>10. Found(o) /\ NoneMissed(o, inbox, rose[t]) BY <1>1 DEF PollInv, CallSound, o
<1>11. Found(c)
  <2> SUFFICES ASSUME NEW k \in 1 .. Len(r)
               PROVE  \E j \in 1 .. Len(o.look) :
                        o.look[j].what = r[k].what /\ r[k].events \subseteq o.look[j].events
    BY <1>9 DEF Found
  <2>1. CASE r[k] = w BY <1>2, <1>4, <1>5, <2>1 DEF e
  <2>2. CASE k \in 1 .. Len(o.ready) /\ r[k] = o.ready[k] BY <1>10, <2>2 DEF Found
  <2> QED BY <1>8, <2>1, <2>2
<1>12. NoneMissed(c, inbox, rose[t])
  <2> SUFFICES ASSUME r = <<>>, NEW k \in 1 .. Len(o.look), k < i + 1, IsReady(o.look[k], inbox)
               PROVE  o.look[k].what \in rose[t]
    BY <1>9 DEF NoneMissed
  <2>1. k # i BY <1>7 DEF e
  <2>2. k < i BY <1>2, <2>1
  <2> QED BY <1>7, <1>10, <2>2 DEF NoneMissed, i
<1>13. /\ holder' \in PollThreads \cup {Poller!Nobody} /\ rose' \in [PollThreads -> SUBSET PollSockets]
       /\ \A u \in PollThreads : call[u].op = "wait" => holder' = u
       /\ o.op = "wait" => holder' = t /\ o.look = entries
  BY <1>1 DEF PollInv, PollTypes, WaitHolds, o
<1>14. /\ \A u \in PollThreads \ {t} : rose'[u] = rose[u]
       /\ \A u \in PollThreads \ {t} : call[u].op = "wait" => holder' = u
       /\ c.op = "wait" => holder' = t /\ c.look = entries
       /\ c \in Look => Found(c) /\ NoneMissed(c, inbox, rose'[t])
  BY <1>1, <1>9, <1>11, <1>12, <1>13
<1> QED BY <1>1, <1>3, <1>9, <1>13, <1>14, OneCall

(* A call ends, or its thread goes to sleep. *)
LEMMA EndsPollInv ==
  ASSUME FacadeAssumption, PollInv, NEW t \in PollThreads,
         Poller!Returns(t) \/ Poller!Sleeps(t) \/ Poller!Wakes(t)
  PROVE  PollInv'
<1>1. PICK c \in {Poller!NotCalling, Slumber} : call' = [call EXCEPT ![t] = c]
  BY DEF Poller!Returns, Poller!Sleeps, Poller!Wakes, Slumber
<1>2. c \notin Look /\ c.op # "wait" BY NotLook
<1>3. /\ UNCHANGED <<entries, inbox>> /\ holder' \in {holder, Poller!Unlock(t)}
      /\ rose' \in {rose, [rose EXCEPT ![t] = {}]}
  BY DEF Poller!Returns, Poller!Sleeps, Poller!Wakes, Poller!Unlock
<1>4. rose \in [PollThreads -> SUBSET PollSockets] /\ holder \in PollThreads \cup {Poller!Nobody}
  BY DEF PollInv, PollTypes
<1>5. rose' \in [PollThreads -> SUBSET PollSockets] /\ \A u \in PollThreads \ {t} : rose'[u] = rose[u]
  BY <1>3, <1>4
<1>6. holder' \in PollThreads \cup {Poller!Nobody}
      /\ \A u \in PollThreads \ {t} : holder = u => holder' = u
  BY <1>3, <1>4 DEF Poller!Unlock
<1>7. \A u \in PollThreads \ {t} : call[u].op = "wait" => holder' = u
  BY <1>6 DEF PollInv, WaitHolds
<1> HIDE DEF Poller!NotCalling, Slumber
<1> QED BY <1>1, <1>2, <1>3, <1>5, <1>6, <1>7, OneCall

LEMMA MessageArrivesPollInv ==
  ASSUME FacadeAssumption, PollInv, NEW s \in PollSockets, Poller!MessageArrives(s)
  PROVE  PollInv'
<1>1. /\ inbox' = inbox \cup {s} /\ UNCHANGED <<entries, holder, call>>
      /\ rose' = [t \in PollThreads |-> IF Poller!InCall(t) THEN rose[t] \cup {s} ELSE {}]
  BY DEF Poller!MessageArrives, Poller!Rise
<1>2. PollTypes' BY <1>1 DEF PollInv, PollTypes
<1>3. Once' /\ WaitHolds' BY <1>1 DEF PollInv, Once, WaitHolds
<1>4. ASSUME NEW t \in PollThreads PROVE CallSound(t)'
  <2> SUFFICES ASSUME call[t] \in Look PROVE Found(call[t]) /\ NoneMissed(call[t], inbox', rose'[t])
    BY <1>1 DEF CallSound
  <2>1. Found(call[t]) /\ NoneMissed(call[t], inbox, rose[t]) BY DEF PollInv, CallSound
  <2>2. rose'[t] = rose[t] \cup {s} BY <1>1, InCallIsLook
  <2>3. \A e : IsReady(e, inbox') => IsReady(e, inbox) \/ e.what = s BY <1>1 DEF IsReady
  <2>4. NoneMissed(call[t], inbox', rose'[t]) BY <2>1, <2>2, <2>3 DEF NoneMissed
  <2> QED BY <2>1, <2>4
<1> QED BY <1>2, <1>3, <1>4 DEF PollInv

LEMMA MessageReadPollInv ==
  ASSUME FacadeAssumption, PollInv, NEW s \in PollSockets, Poller!MessageRead(s)
  PROVE  PollInv'
<1>1. inbox' = inbox \ {s} /\ UNCHANGED <<entries, holder, call, rose>> BY DEF Poller!MessageRead
<1>2. PollTypes' BY <1>1 DEF PollInv, PollTypes
<1>3. Once' /\ WaitHolds' BY <1>1 DEF PollInv, Once, WaitHolds
<1>4. ASSUME NEW t \in PollThreads PROVE CallSound(t)'
  <2> SUFFICES ASSUME call[t] \in Look PROVE Found(call[t]) /\ NoneMissed(call[t], inbox', rose[t])
    BY <1>1 DEF CallSound
  <2>1. Found(call[t]) /\ NoneMissed(call[t], inbox, rose[t]) BY DEF PollInv, CallSound
  <2>2. \A e : IsReady(e, inbox') => IsReady(e, inbox) BY <1>1 DEF IsReady
  <2>3. NoneMissed(call[t], inbox', rose[t]) BY <2>1, <2>2 DEF NoneMissed
  <2> QED BY <2>1, <2>3
<1> QED BY <1>2, <1>3, <1>4 DEF PollInv

LEMMA PollerNext ==
  ASSUME FacadeAssumption, PollInv, Poller!Next
  PROVE  PollInv'
<1>1. \A events \in {{"in"}, Poller!Events} : events \in SUBSET Poller!Events BY DEF Poller!Events
<1>2. ASSUME NEW t \in PollThreads, NEW x \in PollSockets \cup PollFds,
             \/ \E events \in {{"in"}, Poller!Events} :
                  Poller!PollerAdd(t, x, events) \/ Poller!PollerModify(t, x, events)
             \/ Poller!PollerRemove(t, x)
      PROVE  PollInv'
  <2> HIDE DEF Poller!Events
  <2> QED BY <1>1, <1>2, PollerAddPollInv, PollerModifyPollInv, PollerRemovePollInv
<1>3. ASSUME NEW t \in PollThreads,
             \/ Poller!PollerWait(t) \/ Poller!Poll(t, {"in"})
             \/ Poller!Look(t) \/ Poller!Returns(t) \/ Poller!Sleeps(t) \/ Poller!Wakes(t)
      PROVE  PollInv'
  BY <1>3, PollerWaitPollInv, PollPollInv, LookPollInv, EndsPollInv
<1>4. ASSUME NEW s \in PollSockets, Poller!MessageArrives(s) \/ Poller!MessageRead(s)
      PROVE  PollInv'
  BY <1>4, MessageArrivesPollInv, MessageReadPollInv
<1> QED BY <1>2, <1>3, <1>4 DEF Poller!Next

LEMMA PollerInitially ==
  ASSUME FacadeAssumption, Poller!Init
  PROVE  PollInv
<1>1. PollTypes BY DEF Poller!Init, PollTypes
<1>2. Once BY DEF Poller!Init, Once
<1>3. WaitHolds /\ \A t \in PollThreads : CallSound(t)
  <2> HIDE DEF Poller!NotCalling
  <2> QED BY NotLook DEF Poller!Init, WaitHolds, CallSound
<1> QED BY <1>1, <1>2, <1>3 DEF PollInv

LEMMA PollInvReports ==
  ASSUME FacadeAssumption, PollInv
  PROVE  /\ Poller!TypeOK
         /\ Poller!ReportedIsRegistered /\ Poller!RegisteredOnce /\ Poller!NothingMissed
<1>1. entries \in Seq(Watched) /\ Len(entries) \in Nat /\ \A i \in 1 .. Len(entries) : entries[i] \in Watched
  BY DEF PollInv, PollTypes
<1>2. ASSUME NEW t \in PollThreads
      PROVE  /\ call[t] \in Look \cup {Poller!NotCalling, Slumber}
             /\ call[t].op \in {"none", "wait", "poll", "asleep"}
  <2>1. call[t] \in Look \cup {Poller!NotCalling, Slumber} BY DEF PollInv, PollTypes
  <2>2. \A c \in Look : c.op \in {"wait", "poll"} BY DEF Look
  <2> HIDE DEF Poller!NotCalling, Slumber
  <2> QED BY <2>1, <2>2, NotLook
<1>3. Poller!TypeOK
  <2>1. \A i \in 1 .. Len(entries) : entries[i].what \in PollSockets \cup PollFds
    BY <1>1 DEF Watched
  <2> QED BY <1>2, <2>1 DEF Poller!TypeOK, PollInv, PollTypes
<1>4. Poller!ReportedIsRegistered
  <2> SUFFICES ASSUME NEW t \in PollThreads, call[t].op = "wait", NEW i \in 1 .. Len(call[t].ready)
               PROVE  \E j \in 1 .. Len(entries) :
                        /\ entries[j].what = call[t].ready[i].what
                        /\ call[t].ready[i].events \subseteq entries[j].events
    BY DEF Poller!ReportedIsRegistered
  <2>1. call[t] \in Look BY InCallIsLook DEF Poller!InCall
  <2>2. Found(call[t]) /\ call[t].look = entries BY <2>1 DEF PollInv, CallSound, WaitHolds
  <2> QED BY <2>2 DEF Found
<1>5. Poller!RegisteredOnce
  <2> DEFINE n == Len(entries)
             R == Poller!Registered
             f == [i \in 1 .. n |-> entries[i].what]
  <2>1. R = {entries[i].what : i \in 1 .. n} BY DEF Poller!Registered
  <2>2. f \in [1 .. n -> R] /\ (\A y \in R : \E i \in 1 .. n : f[i] = y) BY <2>1
  <2>3. \A i, j \in 1 .. n : f[i] = f[j] => i = j BY DEF PollInv, Once
  <2> HIDE DEF f, R
  <2>4. f \in Bijection(1 .. n, R)
    BY <2>2, <2>3 DEF Bijection, Injection, Surjection, IsInjective
  <2>5. Cardinality(R) = n BY <1>1, <2>4, FS_CountingElements DEF ExistsBijection
  <2>6. Poller!Cardinality(R) = n BY <2>5, SameCardinality
  <2> QED BY <2>6 DEF Poller!RegisteredOnce, R
<1>6. Poller!NothingMissed
  <2> SUFFICES ASSUME NEW t \in PollThreads, Poller!Looked(t), call[t].ready = <<>>,
                      NEW i \in 1 .. Len(call[t].look), Poller!Revents(call[t].look[i]) # {}
               PROVE  call[t].look[i].what \in rose[t]
    BY DEF Poller!NothingMissed
  <2>1. call[t] \in Look /\ call[t].next > Len(call[t].look) BY InCallIsLook DEF Poller!Looked
  <2>2. call[t].look \in Seq(Watched) /\ call[t].next \in Nat BY <2>1 DEF Look
  <2>3. call[t].look[i] \in Watched /\ i < call[t].next BY <2>1, <2>2
  <2>4. IsReady(call[t].look[i], inbox) BY <2>3, ReventsReady
  <2>5. NoneMissed(call[t], inbox, rose[t]) BY <2>1 DEF PollInv, CallSound
  <2> QED BY <2>3, <2>4, <2>5 DEF NoneMissed
<1> QED BY <1>3, <1>4, <1>5, <1>6

(* Pollers report truly, for any number of threads, sockets and            *)
(* descriptors: what a wait is about to report is registered at that       *)
(* moment, because it keeps the lock from its first look on; nothing is    *)
(* registered twice; and a call that found nothing missed nothing that was *)
(* ready when it began.                                                    *)
THEOREM PollersAlwaysReportTruly == FacadeSpec => []PollerReportsTruly
<1> DEFINE Inv == part = "poller" => PollInv
<1>1. FacadeInit => Inv BY PollerInitially, FacadeAssumption DEF FacadeInit
<1>2. Inv /\ [FacadeNext]_facade => Inv'
  <2> SUFFICES ASSUME Inv, part' = "poller", [FacadeNext]_facade PROVE PollInv'
    OBVIOUS
  <2>1. part' = part BY DEF FacadeNext, facade
  <2>2. CASE FacadeNext
    <3>1. Poller!Next BY <2>1, <2>2 DEF FacadeNext
    <3> QED BY <2>1, <3>1, PollerNext, FacadeAssumption
  <2>3. CASE UNCHANGED facade
    <3>1. UNCHANGED pollerVars BY <2>3 DEF facade
    <3> QED BY <2>1, <3>1 DEF pollerVars, PollInv, PollTypes, Once, WaitHolds, CallSound
  <2> QED BY <2>2, <2>3
<1>3. Inv => PollerReportsTruly BY PollInvReports, FacadeAssumption DEF PollerReportsTruly
<1> QED BY <1>1, <1>2, <1>3, PTL DEF FacadeSpec

-----------------------------------------------------------------------------
(* The context behind its C calls. *)

Pair == [ipv6 : BOOLEAN, blocky : BOOLEAN]
Making == [step : {"id", "defaults"}, late : BOOLEAN, seen : SUBSET Pair, id : Nat]
MadeSocket == [id : Nat, by : CtxThreads \cup {"zap"}, late : BOOLEAN, apt : BOOLEAN]

CtxTypes ==
  /\ life \in {"running", "shutting_down", "terminated"} /\ ended \in BOOLEAN
  /\ nextId \in 1 .. MaxIds + 1 /\ defaults \in Pair
  /\ prefix \in Seq(-4 .. 9) /\ Len(prefix) <= 16
  /\ maker \in [CtxThreads -> Making \cup {Context!Idle}]
  /\ made \subseteq MadeSocket

(* A context that runs was never shut down, so a call in progress began    *)
(* before; and what the defaults are now, every such call has seen.        *)
CallsInTime ==
  /\ life = "running" => ~ended
  /\ \A t \in CtxThreads : maker[t].step # "idle" => ~maker[t].late /\ defaults \in maker[t].seen

(* Every id in use was handed out. *)
HandedOut ==
  /\ \A s \in made : s.id < nextId /\ ~s.late /\ s.apt
  /\ \A t \in CtxThreads : maker[t].step = "defaults" => maker[t].id < nextId

(* The inductive invariant of the context. *)
CtxInv == CtxTypes /\ CallsInTime /\ HandedOut /\ Context!IdsDistinct

LEMMA IdleIsNoCall ==
  /\ Context!Idle.step = "idle"
  /\ \A c \in Making : /\ c.step \in {"id", "defaults"} /\ c.late \in BOOLEAN
                       /\ c.seen \in SUBSET Pair /\ c.id \in Nat
BY DEF Context!Idle, Making

LEMMA CallParts ==
  ASSUME CtxInv, NEW t \in CtxThreads
  PROVE  /\ maker[t] \in Making \/ maker[t] = Context!Idle
         /\ maker[t].step \in {"idle", "id", "defaults"}
         /\ maker[t].step # "idle" => maker[t] \in Making
<1>1. maker[t] \in Making \/ maker[t] = Context!Idle BY DEF CtxInv, CtxTypes
<1> HIDE DEF Context!Idle
<1> QED BY <1>1, IdleIsNoCall

LEMMA EndCtxInv ==
  ASSUME FacadeAssumption, CtxInv, Context!Shutdown \/ Context!Terminate
  PROVE  CtxInv'
<1>1. /\ life' \in {"shutting_down", "terminated"} /\ ended' = TRUE
      /\ UNCHANGED <<nextId, defaults, prefix, maker, made>>
  BY DEF Context!Shutdown, Context!Terminate
<1>2. CtxTypes' BY <1>1 DEF CtxInv, CtxTypes
<1>3. CallsInTime' /\ HandedOut' /\ Context!IdsDistinct'
  BY <1>1 DEF CtxInv, CallsInTime, HandedOut, Context!IdsDistinct
<1> QED BY <1>2, <1>3 DEF CtxInv

LEMMA SetDefaultCtxInv ==
  ASSUME FacadeAssumption, CtxInv, NEW name \in {"ipv6", "blocky"}, NEW value \in BOOLEAN,
         Context!SetDefault(name, value)
  PROVE  CtxInv'
<1> DEFINE d == [defaults EXCEPT ![name] = value]
           m(c) == IF c.step = "idle" THEN Context!Idle ELSE [c EXCEPT !.seen = @ \cup {d}]
<1>1. /\ defaults' = d /\ UNCHANGED <<life, ended, nextId, prefix, made>>
      /\ maker' = [t \in CtxThreads |-> m(maker[t])]
  BY DEF Context!SetDefault, Context!Seen
<1>2. d \in Pair BY DEF CtxInv, CtxTypes, Pair
<1> HIDE DEF d
<1>3. \A c \in Making : /\ m(c) \in Making /\ m(c).step = c.step /\ m(c).late = c.late
                        /\ m(c).id = c.id /\ d \in m(c).seen
  BY <1>2 DEF Making
<1>4. m(Context!Idle) = Context!Idle BY DEF Context!Idle
<1> HIDE DEF m
<1>5. ASSUME NEW t \in CtxThreads
      PROVE  /\ maker'[t] \in Making \cup {Context!Idle} /\ maker'[t].step = maker[t].step
             /\ maker[t].step # "idle" =>
                  maker'[t].late = maker[t].late /\ maker'[t].id = maker[t].id /\ d \in maker'[t].seen
  <2>1. maker'[t] = m(maker[t]) BY <1>1
  <2> HIDE DEF Context!Idle
  <2> QED BY <1>3, <1>4, <2>1, CallParts
<1>6. maker' \in [CtxThreads -> Making \cup {Context!Idle}] BY <1>1, <1>5
<1>7. CtxTypes' BY <1>1, <1>2, <1>6 DEF CtxInv, CtxTypes
<1>8. CallsInTime' BY <1>1, <1>5 DEF CtxInv, CallsInTime
<1>9. HandedOut' BY <1>1, <1>5 DEF CtxInv, HandedOut
<1>10. Context!IdsDistinct' BY <1>1, <1>5 DEF CtxInv, Context!IdsDistinct
<1> QED BY <1>7, <1>8, <1>9, <1>10 DEF CtxInv

LEMMA SocketCtxInv ==
  ASSUME FacadeAssumption, CtxInv, NEW t \in CtxThreads, Context!Socket(t)
  PROVE  CtxInv'
<1> DEFINE c == [step |-> "id", late |-> ended, seen |-> {defaults}, id |-> 0]
<1>1. /\ life = "running" /\ maker' = [maker EXCEPT ![t] = c]
      /\ UNCHANGED <<life, ended, nextId, defaults, prefix, made>>
  BY DEF Context!Socket, Context!EnsureRunning
<1>2. /\ maker \in [CtxThreads -> Making \cup {Context!Idle}] /\ defaults \in Pair
      /\ ended \in BOOLEAN /\ ~ended
  BY <1>1 DEF CtxInv, CtxTypes, CallsInTime
<1>3. c \in Making /\ c.step = "id" /\ c.late = ended /\ defaults \in c.seen BY <1>2 DEF Making
<1> HIDE DEF c
<1>4. /\ maker' \in [CtxThreads -> Making \cup {Context!Idle}] /\ maker'[t] = c
      /\ \A u \in CtxThreads \ {t} : maker'[u] = maker[u]
  BY <1>1, <1>2, <1>3
<1>5. CtxTypes' BY <1>1, <1>4 DEF CtxInv, CtxTypes
<1>6. CallsInTime' BY <1>1, <1>2, <1>3, <1>4 DEF CtxInv, CallsInTime
<1>7. HandedOut' BY <1>1, <1>3, <1>4 DEF CtxInv, HandedOut
<1>8. Context!IdsDistinct' BY <1>1, <1>3, <1>4 DEF CtxInv, Context!IdsDistinct
<1> QED BY <1>5, <1>6, <1>7, <1>8 DEF CtxInv

LEMMA TakeIdCtxInv ==
  ASSUME FacadeAssumption, CtxInv, NEW t \in CtxThreads, Context!TakeId(t)
  PROVE  CtxInv'
<1> DEFINE c == [maker[t] EXCEPT !.step = "defaults", !.id = nextId]
<1>1. /\ maker[t].step = "id" /\ nextId <= MaxIds /\ nextId' = nextId + 1
      /\ maker' = [maker EXCEPT ![t].step = "defaults", ![t].id = nextId]
      /\ UNCHANGED <<life, ended, defaults, prefix, made>>
  BY DEF Context!TakeId, Context!FetchAdd
<1>2. /\ maker \in [CtxThreads -> Making \cup {Context!Idle}] /\ nextId \in 1 .. MaxIds + 1
      /\ MaxIds \in Nat /\ nextId \in Nat
  BY DEF CtxInv, CtxTypes, FacadeAssumption
<1>3. maker[t] \in Making /\ ~maker[t].late /\ defaults \in maker[t].seen
  BY <1>1, CallParts DEF CtxInv, CallsInTime
<1>4. maker' = [maker EXCEPT ![t] = c] BY <1>1, <1>2
<1>5. /\ c \in Making /\ c.step = "defaults" /\ c.id = nextId /\ c.late = maker[t].late
      /\ c.seen = maker[t].seen
  <2> DEFINE c1 == [maker[t] EXCEPT !.step = "defaults"]
  <2>1. c1 \in Making /\ c1.step = "defaults" /\ c1.late = maker[t].late /\ c1.seen = maker[t].seen
    BY <1>3 DEF Making
  <2>2. c = [c1 EXCEPT !.id = nextId] BY <1>3 DEF Making
  <2> HIDE DEF c1, c
  <2> QED BY <1>2, <2>1, <2>2 DEF Making
<1> HIDE DEF c
<1>6. /\ maker' \in [CtxThreads -> Making \cup {Context!Idle}] /\ maker'[t] = c
      /\ \A u \in CtxThreads \ {t} : maker'[u] = maker[u]
  BY <1>2, <1>4, <1>5
<1>7. nextId' \in 1 .. MaxIds + 1 BY <1>1, <1>2
<1>8. CtxTypes' BY <1>1, <1>6, <1>7 DEF CtxInv, CtxTypes
<1>9. CallsInTime' BY <1>1, <1>3, <1>5, <1>6 DEF CtxInv, CallsInTime
<1>10. /\ \A s \in made : s.id \in Nat /\ s.id < nextId /\ ~s.late /\ s.apt
       /\ \A u \in CtxThreads : maker[u].step = "defaults" => maker[u].id \in Nat /\ maker[u].id < nextId
  <2>1. \A s \in made : s.id \in Nat BY DEF CtxInv, CtxTypes, MadeSocket
  <2>2. \A u \in CtxThreads : maker[u].step = "defaults" => maker[u].id \in Nat
    BY CallParts, IdleIsNoCall
  <2> QED BY <2>1, <2>2 DEF CtxInv, HandedOut
<1>11. HandedOut' BY <1>1, <1>2, <1>5, <1>6, <1>10 DEF HandedOut
<1>12. Context!IdsDistinct'
  BY <1>1, <1>2, <1>5, <1>6, <1>10 DEF CtxInv, Context!IdsDistinct
<1> QED BY <1>8, <1>9, <1>11, <1>12 DEF CtxInv

LEMMA TakeDefaultsCtxInv ==
  ASSUME FacadeAssumption, CtxInv, NEW t \in CtxThreads, Context!TakeDefaults(t)
  PROVE  CtxInv'
<1> DEFINE s0 == [id |-> maker[t].id, by |-> t, late |-> maker[t].late,
                  apt |-> defaults \in maker[t].seen]
<1>1. /\ maker[t].step = "defaults" /\ made' = made \cup {s0}
      /\ maker' = [maker EXCEPT ![t] = Context!Idle]
      /\ UNCHANGED <<life, ended, nextId, defaults, prefix>>
  BY DEF Context!TakeDefaults, Context!SocketDefaults
<1>2. maker[t] \in Making /\ ~maker[t].late /\ defaults \in maker[t].seen /\ maker[t].id < nextId
  BY <1>1, CallParts DEF CtxInv, CallsInTime, HandedOut
<1>3. s0 \in MadeSocket /\ s0.id = maker[t].id /\ ~s0.late /\ s0.apt
  <2>1. maker[t].id \in Nat /\ maker[t].late \in BOOLEAN BY <1>2, IdleIsNoCall
  <2>2. (defaults \in maker[t].seen) = TRUE BY <1>2
  <2>3. s0 = [id |-> maker[t].id, by |-> t, late |-> maker[t].late, apt |-> TRUE] BY <2>2
  <2> HIDE DEF s0
  <2> QED BY <1>2, <2>1, <2>3 DEF MadeSocket
<1> HIDE DEF s0
<1>4. maker \in [CtxThreads -> Making \cup {Context!Idle}] BY DEF CtxInv, CtxTypes
<1>5. /\ maker' \in [CtxThreads -> Making \cup {Context!Idle}] /\ maker'[t].step = "idle"
      /\ \A u \in CtxThreads \ {t} : maker'[u] = maker[u]
  BY <1>1, <1>4, IdleIsNoCall
<1>6. CtxTypes' BY <1>1, <1>3, <1>5 DEF CtxInv, CtxTypes
<1>7. CallsInTime' BY <1>1, <1>5 DEF CtxInv, CallsInTime
<1>8. HandedOut' BY <1>1, <1>2, <1>3, <1>5 DEF CtxInv, HandedOut
<1>9. Context!IdsDistinct' BY <1>1, <1>3, <1>5 DEF CtxInv, Context!IdsDistinct
<1> QED BY <1>6, <1>7, <1>8, <1>9 DEF CtxInv

LEMMA TransientIdCtxInv ==
  ASSUME FacadeAssumption, CtxInv, Context!TransientId
  PROVE  CtxInv'
<1> DEFINE s0 == [id |-> nextId, by |-> "zap", late |-> FALSE, apt |-> TRUE]
<1>1. /\ nextId <= MaxIds /\ nextId' = nextId + 1 /\ made' = made \cup {s0}
      /\ UNCHANGED <<life, ended, defaults, prefix, maker>>
  BY DEF Context!TransientId
<1>2. nextId \in 1 .. MaxIds + 1 /\ MaxIds \in Nat /\ nextId \in Nat
  BY DEF CtxInv, CtxTypes, FacadeAssumption
<1>3. s0 \in MadeSocket /\ s0.id = nextId /\ ~s0.late /\ s0.apt BY <1>2 DEF MadeSocket
<1> HIDE DEF s0
<1>4. /\ \A s \in made : s.id \in Nat /\ s.id < nextId /\ ~s.late /\ s.apt
      /\ \A u \in CtxThreads : maker[u].step = "defaults" => maker[u].id \in Nat /\ maker[u].id < nextId
  <2>1. \A s \in made : s.id \in Nat BY DEF CtxInv, CtxTypes, MadeSocket
  <2>2. \A u \in CtxThreads : maker[u].step = "defaults" => maker[u].id \in Nat
    BY CallParts, IdleIsNoCall
  <2> QED BY <2>1, <2>2 DEF CtxInv, HandedOut
<1>5. nextId' \in 1 .. MaxIds + 1 BY <1>1, <1>2
<1>6. CtxTypes' BY <1>1, <1>3, <1>5 DEF CtxInv, CtxTypes
<1>7. CallsInTime' BY <1>1 DEF CtxInv, CallsInTime
<1>8. HandedOut' BY <1>1, <1>2, <1>3, <1>4 DEF HandedOut
<1>9. Context!IdsDistinct' BY <1>1, <1>2, <1>3, <1>4 DEF CtxInv, Context!IdsDistinct
<1> QED BY <1>6, <1>7, <1>8, <1>9 DEF CtxInv

LEMMA ContextNext ==
  ASSUME FacadeAssumption, CtxInv, Context!LifeNext
  PROVE  CtxInv'
BY EndCtxInv, TransientIdCtxInv, SetDefaultCtxInv, SocketCtxInv, TakeIdCtxInv, TakeDefaultsCtxInv
   DEF Context!LifeNext

LEMMA ContextInitially ==
  ASSUME FacadeAssumption, Context!Init
  PROVE  CtxInv
<1>1. maker = [t \in CtxThreads |-> Context!Idle] /\ made = {} BY DEF Context!Init
<1>2. \A t \in CtxThreads : maker[t].step = "idle" BY <1>1, IdleIsNoCall
<1>3. defaults \in Pair BY DEF Context!Init, Pair
<1>4. nextId \in 1 .. MaxIds + 1 BY DEF Context!Init, FacadeAssumption
<1>5. CtxTypes
  <2>1. prefix \in Seq(-4 .. 9) /\ Len(prefix) <= 16 BY DEF Context!Init
  <2>2. life \in {"running", "shutting_down", "terminated"} /\ ended \in BOOLEAN BY DEF Context!Init
  <2>3. maker \in [CtxThreads -> Making \cup {Context!Idle}] /\ made \subseteq MadeSocket BY <1>1
  <2> QED BY <1>3, <1>4, <2>1, <2>2, <2>3 DEF CtxTypes
<1>6. CallsInTime /\ HandedOut /\ Context!IdsDistinct
  BY <1>1, <1>2 DEF Context!Init, CallsInTime, HandedOut, Context!IdsDistinct
<1> QED BY <1>5, <1>6 DEF CtxInv

(* Sockets are made right, for any number of threads: an id is handed out  *)
(* once, to a socket or to the sender of a ZAP request, the defaults of a  *)
(* socket are a pair the context had while it was made, and no call that   *)
(* began after shutdown or terminate makes one.                            *)
THEOREM SocketsAlwaysMadeRight == FacadeSpec => []SocketsMadeRight
<1> DEFINE Inv == part = "context" => CtxInv
<1>1. FacadeInit => Inv BY ContextInitially, FacadeAssumption DEF FacadeInit
<1>2. Inv /\ [FacadeNext]_facade => Inv'
  <2> SUFFICES ASSUME Inv, part' = "context", [FacadeNext]_facade PROVE CtxInv'
    OBVIOUS
  <2>1. part' = part BY DEF FacadeNext, facade
  <2>2. CASE FacadeNext
    <3>1. Context!LifeNext BY <2>1, <2>2 DEF FacadeNext
    <3> QED BY <2>1, <3>1, ContextNext, FacadeAssumption
  <2>3. CASE UNCHANGED facade
    <3>1. UNCHANGED contextVars BY <2>3 DEF facade
    <3> QED BY <2>1, <3>1 DEF contextVars, CtxInv, CtxTypes, CallsInTime, HandedOut, Context!IdsDistinct
  <2> QED BY <2>2, <2>3
<1>3. Inv => SocketsMadeRight
  <2> SUFFICES ASSUME CtxInv
               PROVE  /\ Context!TypeOK
                      /\ Context!IdsDistinct /\ Context!NoSocketAfterEnd /\ Context!DefaultsTogether
    BY DEF SocketsMadeRight
  <2>1. Context!TypeOK BY CallParts DEF CtxInv, CtxTypes, Context!TypeOK, Pair
  <2> QED BY <2>1 DEF CtxInv, HandedOut, Context!NoSocketAfterEnd, Context!DefaultsTogether
<1> QED BY <1>1, <1>2, <1>3, PTL DEF FacadeSpec
=============================================================================
