--------------------------- MODULE PipelineProofs ---------------------------
(***************************************************************************)
(* For every number of PUSH and PULL sockets, every setup and every bound: *)
(* no queue grows beyond the high-water mark, messages between two sockets *)
(* are whole, and plain sends are balanced.                                *)
(***************************************************************************)
EXTENDS Pipeline, Integers, FiniteSetTheorems, TLAPS

(* The queues keep to the mark that was set. *)
MarkKept == setup.tuned => \A q \in Pull : Len(inbox[q]) <= setup.hwm

(* The peer list: each PULL that takes part at most once, and nobody when
   the PULL binds. *)
PeersListed ==
  /\ \A i \in 1 .. Len(peers) : peers[i] \in setup.pull
  /\ \A i, j \in 1 .. Len(peers) : peers[i] = peers[j] => i = j
  /\ ~setup.pushBinds => peers = <<>>

IInv == TypeOK /\ MarkKept /\ PeersListed

-----------------------------------------------------------------------------
(* What the assumption says of the setup in force. *)
LEMMA SetupType ==
  ASSUME TypeOK
  PROVE  /\ setup \in Setup
         /\ setup.push \subseteq Push /\ setup.pull \subseteq Pull
         /\ setup.pushBinds \in BOOLEAN /\ setup.tuned \in BOOLEAN
         /\ setup.conflate \in BOOLEAN /\ setup.polls \in BOOLEAN
         /\ setup.hwm \in Nat \ {0}
         /\ setup.parts \in 1 .. MaxParts
         /\ setup.conflate => setup.tuned
  BY PipelineAssumption DEF TypeOK, Setup

(* A queue is empty after a receive if it held one frame. *)
LEMMA TailEmpty ==
  ASSUME NEW S, NEW s \in Seq(S), s # <<>>
  PROVE  (Tail(s) = <<>>) <=> (Len(s) = 1)
  <1> DEFINE t == Tail(s)
  <1>1. t \in Seq(S) /\ Len(t) = Len(s) - 1 /\ Len(s) \in Nat
    OBVIOUS
  <1>2. Len(t) = 0 <=> Len(s) = 1
    BY <1>1
  <1> HIDE DEF t
  <1>3. (t = <<>>) <=> (Len(t) = 0)
    BY <1>1
  <1>4. (t = <<>>) <=> (Len(s) = 1)
    BY <1>2, <1>3
  <1> QED BY <1>4 DEF t

(* A frame that is accepted lengthens the queue by one, or replaces it. *)
LEMMA QueuedType ==
  ASSUME NEW queue \in Seq(Frame), NEW f \in Frame
  PROVE  /\ Queued(queue, f) \in Seq(Frame)
         /\ Len(Queued(queue, f)) = IF setup.conflate THEN 1 ELSE Len(queue) + 1
  BY DEF Queued

(* The picked queue is one of a PULL that takes part. *)
LEMMA OutboxTakesPart ==
  ASSUME TypeOK, PeersListed, NEW q \in Pull, Outbox(q)
  PROVE  /\ q \in setup.pull
         /\ setup.pushBinds => /\ Len(peers) \in Nat \ {0}
                               /\ nextPeer % Len(peers) \in 0 .. Len(peers) - 1
                               /\ q = peers[(nextPeer % Len(peers)) + 1]
  <1>1. CASE ~setup.pushBinds
    BY <1>1 DEF Outbox
  <1>2. CASE setup.pushBinds
    <2>1. peers # <<>> /\ q = peers[(nextPeer % Len(peers)) + 1]
      BY <1>2 DEF Outbox
    <2>2. Len(peers) \in Nat \ {0} /\ nextPeer \in Nat
      BY <2>1, PipelineAssumption DEF TypeOK
    <2>3. nextPeer % Len(peers) \in 0 .. Len(peers) - 1
      BY <2>2
    <2> QED BY <2>1, <2>2, <2>3 DEF PeersListed
  <1> QED BY <1>1, <1>2

LEMMA AdvanceType ==
  ASSUME TypeOK
  PROVE  AdvancePeer \in 0 .. Wrap - 1
  <1>1. nextPeer + 1 \in Nat /\ Wrap \in Nat \ {0}
    BY PipelineAssumption DEF TypeOK
  <1> QED BY <1>1 DEF AdvancePeer

LEMMA InitIInv == Init => IInv
  <1> SUFFICES ASSUME Init PROVE IInv
    OBVIOUS
  <1> USE PipelineAssumption
  <1>1. TypeOK
    BY DEF Init, TypeOK
  <1>2. MarkKept
    <2>1. \A q \in Pull : Len(inbox[q]) = 0
      BY DEF Init
    <2> QED BY <2>1, <1>1, SetupType DEF MarkKept
  <1>3. PeersListed
    BY DEF Init, PeersListed
  <1> QED BY <1>1, <1>2, <1>3 DEF IInv

(* The peer list after a connect and after a disconnect. *)
LEMMA PeersAppended ==
  ASSUME TypeOK, PeersListed, NEW q \in Pull, Connect(q)
  PROVE  peers' \in Seq(Pull) /\ PeersListed'
  <1>1. /\ peers \in Seq(Pull) /\ peers' = Append(peers, q)
        /\ q \in setup.pull /\ setup.pushBinds /\ setup' = setup
        /\ \A i \in 1 .. Len(peers) : peers[i] # q
    BY DEF TypeOK, Connect, Joined
  <1>2. /\ peers' \in Seq(Pull) /\ Len(peers') = Len(peers) + 1
        /\ peers'[Len(peers) + 1] = q
        /\ \A i \in 1 .. Len(peers) : peers'[i] = peers[i]
    BY <1>1
  <1>3. Len(peers) \in Nat
    BY <1>1
  <1>4. \A i \in 1 .. Len(peers') : i = Len(peers) + 1 \/ i \in 1 .. Len(peers)
    BY <1>2, <1>3
  <1> QED BY <1>1, <1>2, <1>3, <1>4 DEF PeersListed

LEMMA PeersShortened ==
  ASSUME TypeOK, PeersListed, NEW q \in Pull, Disconnect(q)
  PROVE  peers' \in Seq(Pull) /\ PeersListed'
  <1>1. peers \in Seq(Pull) /\ setup' = setup /\ setup.pushBinds
    BY DEF TypeOK, Disconnect
  <1>2. PICK i \in 1 .. Len(peers) : peers' = PeersWithout(i)
    BY DEF Disconnect
  <1> DEFINE n == Len(peers) - 1
             at(j) == IF j < i THEN j ELSE j + 1
  <1>3. n \in Nat /\ Len(peers) = n + 1
    BY <1>1, <1>2
  <1>4. \A j \in 1 .. n : at(j) \in 1 .. Len(peers)
    BY <1>2, <1>3
  <1>5. \A j, k \in 1 .. n : at(j) = at(k) => j = k
    BY <1>2, <1>3
  <1>6. peers' = [j \in 1 .. n |-> peers[at(j)]]
    BY <1>2 DEF PeersWithout
  <1> HIDE DEF n, at
  <1>7. \A j \in 1 .. n : peers[at(j)] \in Pull
    BY <1>1, <1>4
  <1>8. peers' \in Seq(Pull) /\ Len(peers') = n
    BY <1>3, <1>6, <1>7
  <1>9. \A j \in 1 .. Len(peers') : peers'[j] = peers[at(j)]
    BY <1>6, <1>8
  <1> QED BY <1>1, <1>4, <1>5, <1>8, <1>9 DEF PeersListed

(* A frame that is accepted, or refused. *)
LEMMA SendIInv ==
  ASSUME IInv, NEW p \in setup.push, NEW q \in Pull, NEW more \in BOOLEAN,
         Send(p, q, more)
  PROVE  IInv'
  <1> USE PipelineAssumption
  <1> DEFINE f == [from |-> p, number |-> number[p], part |-> parts[p], more |-> more]
  <1>1. TypeOK /\ MarkKept /\ PeersListed
    BY DEF IInv
  <1>2. p \in Push
    BY <1>1, SetupType
  <1>3. f \in Frame
    BY <1>1, <1>2 DEF TypeOK, Frame
  <1>4. inbox' = [inbox EXCEPT ![q] = Queued(inbox[q], f)]
    BY <1>1 DEF Send, TypeOK
  <1> HIDE DEF f
  <1>5. inbox[q] \in Seq(Frame)
    BY <1>1 DEF TypeOK
  <1>6. inbox' \in [Pull -> Seq(Frame)]
    BY <1>1, <1>3, <1>4, <1>5, QueuedType DEF TypeOK
  <1>7. parts' \in [Push -> 0 .. MaxParts - 1]
    <2>1. parts \in [Push -> 0 .. MaxParts - 1] /\ setup.parts \in 1 .. MaxParts
      BY <1>1, SetupType DEF TypeOK
    <2>2. (IF more THEN parts[p] + 1 ELSE 0) \in 0 .. MaxParts - 1
      BY <1>2, <2>1 DEF Send
    <2> QED BY <2>1, <2>2 DEF Send
  <1>8. number' \in [Push -> 0 .. Tags - 1]
    <2>1. number \in [Push -> 0 .. Tags - 1] /\ Tags \in Nat \ {0}
      BY <1>1 DEF TypeOK
    <2>2. NumberAfter(number[p]) \in 0 .. Tags - 1
      BY <1>2, <2>1 DEF NumberAfter
    <2> QED BY <2>1, <2>2 DEF Send
  <1>9. ret' \in [Push -> {"none", "ok", "again"}]
    BY <1>1 DEF Send, TypeOK
  <1>10. nextPeer' \in 0 .. Wrap - 1
    <2>1. nextPeer' = AdvancePeer \/ nextPeer' = nextPeer
      BY DEF Send
    <2> QED BY <1>1, <2>1, AdvanceType DEF TypeOK
  <1>11. share' \in [Pull -> 0 .. 2]
    <2> DEFINE given == [share EXCEPT ![q] = IF @ = 2 THEN 2 ELSE @ + 1]
    <2>1. share \in [Pull -> 0 .. 2]
      BY <1>1 DEF TypeOK
    <2>2. given \in [Pull -> 0 .. 2]
      BY <2>1
    <2>3. ASSUME \A i \in 1 .. Len(peers) : given[peers[i]] > 0
          PROVE  [r \in Pull |-> IF Joined(r) THEN given[r] - 1 ELSE 0] \in [Pull -> 0 .. 2]
      <3>1. \A r \in Pull : Joined(r) => given[r] > 0
        BY <2>3 DEF Joined
      <3> HIDE DEF given
      <3> QED BY <2>2, <3>1
    <2>4. CountedFor(q) \in [Pull -> 0 .. 2]
      BY <2>2, <2>3 DEF CountedFor
    <2> QED BY <2>1, <2>4 DEF Send
  <1>12. TypeOK'
    BY <1>1, <1>6, <1>7, <1>8, <1>9, <1>10, <1>11 DEF TypeOK, Send
  <1>13. MarkKept'
    <2>1. setup' = setup
      BY DEF Send
    <2> SUFFICES ASSUME setup.tuned, NEW r \in Pull PROVE Len(inbox'[r]) <= setup.hwm
      BY <2>1 DEF MarkKept
    <2>2. CASE r # q
      BY <1>1, <1>4, <2>2 DEF MarkKept, TypeOK
    <2>3. CASE r = q
      <3>1. inbox'[q] = Queued(inbox[q], f)
        BY <1>1, <1>4 DEF TypeOK
      <3>2. setup.conflate \/ Len(inbox[q]) < setup.hwm
        BY DEF Send, Room
      <3>3. setup.hwm \in Nat \ {0} /\ Len(inbox[q]) \in Nat
        BY <1>1, <1>5, SetupType
      <3>4. Len(inbox'[q]) = IF setup.conflate THEN 1 ELSE Len(inbox[q]) + 1
        BY <1>3, <1>5, <3>1, QueuedType
      <3> QED BY <2>3, <3>2, <3>3, <3>4
    <2> QED BY <2>2, <2>3
  <1>14. PeersListed'
    BY <1>1 DEF Send, PeersListed
  <1> QED BY <1>12, <1>13, <1>14 DEF IInv

LEMMA RecvIInv ==
  ASSUME IInv, NEW q \in Pull, Recv(q)
  PROVE  IInv'
  <1>1. TypeOK /\ MarkKept /\ PeersListed
    BY DEF IInv
  <1>2. inbox[q] \in Seq(Frame) /\ inbox[q] # <<>>
    BY <1>1 DEF Recv, TypeOK
  <1>3. Head(inbox[q]) \in Frame /\ Tail(inbox[q]) \in Seq(Frame)
        /\ Len(Tail(inbox[q])) = Len(inbox[q]) - 1 /\ Len(inbox[q]) \in Nat
    BY <1>2
  <1>4. inbox' = [inbox EXCEPT ![q] = Tail(inbox[q])]
        /\ lastRead' = [lastRead EXCEPT ![q] = Head(inbox[q])]
        /\ UNCHANGED <<setup, peers, nextPeer, parts, number, ret, share>>
    BY DEF Recv
  <1>5. TypeOK'
    BY <1>1, <1>3, <1>4 DEF TypeOK
  <1>6. MarkKept'
    <2> SUFFICES ASSUME setup.tuned, NEW r \in Pull PROVE Len(inbox'[r]) <= setup.hwm
      BY <1>4 DEF MarkKept
    <2>1. Len(inbox[r]) <= setup.hwm /\ setup.hwm \in Nat
      BY <1>1, SetupType DEF MarkKept
    <2>2. inbox'[r] = IF r = q THEN Tail(inbox[q]) ELSE inbox[r]
      BY <1>1, <1>4 DEF TypeOK
    <2> QED BY <1>3, <2>1, <2>2
  <1>7. PeersListed'
    BY <1>1, <1>4 DEF PeersListed
  <1> QED BY <1>5, <1>6, <1>7 DEF IInv

LEMMA NextIInv == IInv /\ [Next]_vars => IInv'
  <1> SUFFICES ASSUME IInv, [Next]_vars PROVE IInv'
    OBVIOUS
  <1>0. TypeOK /\ MarkKept /\ PeersListed
    BY DEF IInv
  <1>1. ASSUME NEW q \in Pull, Connect(q) PROVE IInv'
    <2>1. TypeOK'
      BY <1>0, <1>1, PeersAppended DEF TypeOK, Connect
    <2>2. MarkKept'
      BY <1>0, <1>1 DEF MarkKept, Connect
    <2> QED BY <1>0, <1>1, <2>1, <2>2, PeersAppended DEF IInv
  <1>2. ASSUME NEW q \in Pull, Disconnect(q) PROVE IInv'
    <2>1. TypeOK'
      BY <1>0, <1>2, PeersShortened DEF TypeOK, Disconnect
    <2>2. MarkKept'
      BY <1>0, <1>2 DEF MarkKept, Disconnect
    <2> QED BY <1>0, <1>2, <2>1, <2>2, PeersShortened DEF IInv
  <1>3. ASSUME NEW p \in setup.push, NEW q \in Pull, SendAgain(p, q) PROVE IInv'
    <2>1. nextPeer' \in 0 .. Wrap - 1
      <3>1. nextPeer' = AdvancePeer \/ nextPeer' = nextPeer
        BY <1>3 DEF SendAgain
      <3> QED BY <1>0, <3>1, AdvanceType DEF TypeOK
    <2>2. TypeOK'
      BY <1>0, <1>3, <2>1, SetupType DEF TypeOK, SendAgain
    <2> QED BY <1>0, <1>3, <2>2 DEF IInv, MarkKept, PeersListed, SendAgain
  <1>4. ASSUME NEW p \in setup.push, Poll(p) PROVE IInv'
    <2>1. TypeOK'
      BY <1>0, <1>4, AdvanceType DEF TypeOK, Poll
    <2> QED BY <1>0, <1>4, <2>1 DEF IInv, MarkKept, PeersListed, Poll
  <1>5. CASE UNCHANGED vars
    BY <1>0, <1>5 DEF IInv, TypeOK, MarkKept, PeersListed, vars
  <1> QED BY <1>1, <1>2, <1>3, <1>4, <1>5, SendIInv, RecvIInv DEF Next, TrySend

LEMMA AlwaysIInv == Spec => []IInv
  BY InitIInv, NextIInv, PTL DEF Spec

(***************************************************************************)
(* Types are preserved and no queue grows beyond the high-water mark that  *)
(* was set, for any number of PUSH sockets that share it (Socket::send).   *)
(***************************************************************************)
THEOREM AlwaysBelowHwm == Spec => []BelowHwm
  <1>1. IInv => BelowHwm
    BY DEF IInv, MarkKept, BelowHwm
  <1> QED BY <1>1, AlwaysIInv, PTL

-----------------------------------------------------------------------------
(* Messages between two sockets are whole. *)

TwoAlone ==
  /\ Cardinality(setup.push) = 1 /\ Cardinality(setup.pull) = 1
  /\ ~setup.conflate

(* The frame the next one has to follow. *)
Latest(q) == IF inbox[q] = <<>> THEN lastRead[q] ELSE inbox[q][Len(inbox[q])]

(* What was received last and the queue are in order ... *)
Chained(q) ==
  /\ \A i \in 1 .. Len(inbox[q]) - 1 : Follows(inbox[q][i], inbox[q][i + 1])
  /\ lastRead[q] # NoFrame /\ inbox[q] # <<>> => Follows(lastRead[q], inbox[q][1])

(* ... and the PUSH goes on where they end. *)
GoesOn(p, q) ==
  IF Latest(q) # NoFrame /\ Latest(q).more
  THEN /\ Latest(q).from = p /\ Latest(q).number = number[p]
       /\ parts[p] = Latest(q).part + 1
  ELSE parts[p] = 0

(***************************************************************************)
(* WholeBetweenTwo is not inductive by itself: the PUSH's own count of     *)
(* frames has to agree with the last frame on the way.                     *)
(***************************************************************************)
WholeInv ==
  TwoAlone => /\ \A q \in Pull : Chained(q)
              /\ \A q \in setup.pull, p \in setup.push : GoesOn(p, q)

LEMMA AloneMeans ==
  ASSUME TypeOK, TwoAlone
  PROVE  /\ \E p \in Push : setup.push = {p}
         /\ \E q \in Pull : setup.pull = {q}
  <1>1. setup.push \subseteq Push /\ setup.pull \subseteq Pull
    BY SetupType
  <1>2. IsFiniteSet(setup.push) /\ IsFiniteSet(setup.pull)
    BY <1>1, PipelineAssumption, FS_Subset
  <1> QED BY <1>1, <1>2, FS_Singleton DEF TwoAlone

LEMMA SendWhole ==
  ASSUME IInv, WholeInv, TwoAlone, NEW p \in setup.push, NEW q \in Pull,
         NEW more \in BOOLEAN, Send(p, q, more)
  PROVE  WholeInv'
  <1> DEFINE f == [from |-> p, number |-> number[p], part |-> parts[p], more |-> more]
             n == Len(inbox[q])
  <1>1. TypeOK /\ PeersListed
    BY DEF IInv
  <1>2. setup.push = {p} /\ setup.pull = {q} /\ p \in Push
    BY <1>1, AloneMeans, OutboxTakesPart DEF Send
  <1>3. Chained(q) /\ GoesOn(p, q) /\ \A r \in Pull : Chained(r)
    BY <1>2 DEF WholeInv
  <1>4. /\ inbox' = [inbox EXCEPT ![q] = Queued(inbox[q], f)]
        /\ UNCHANGED <<setup, lastRead>>
    BY <1>1 DEF Send, TypeOK
  <1>5. /\ parts'[p] = (IF more THEN parts[p] + 1 ELSE 0)
        /\ more => number'[p] = number[p]
    BY <1>1, <1>2 DEF Send, TypeOK
  <1>6. /\ f.from = p /\ f.number = number[p] /\ f.part = parts[p] /\ f.more = more
        /\ f \in Frame
    BY <1>1, <1>2 DEF TypeOK, Frame
  <1> HIDE DEF f
  <1>7. inbox[q] \in Seq(Frame) /\ inbox'[q] = Append(inbox[q], f) /\ n \in Nat
    BY <1>1, <1>4 DEF Queued, TwoAlone, TypeOK
  <1>8. /\ inbox'[q] \in Seq(Frame) /\ Len(inbox'[q]) = n + 1
        /\ inbox'[q][n + 1] = f
        /\ \A i \in 1 .. n : inbox'[q][i] = inbox[q][i]
        /\ inbox'[q] # <<>>
    BY <1>6, <1>7
  <1>9. Latest(q) # NoFrame => Follows(Latest(q), f)
    BY <1>3, <1>6 DEF Follows, GoesOn
  <1>10. Chained(q)'
    <2>1. ASSUME NEW i \in 1 .. n PROVE Follows(inbox'[q][i], inbox'[q][i + 1])
      <3>1. CASE i = n
        <4>1. inbox[q] # <<>> /\ Latest(q) = inbox[q][n] /\ inbox[q][n] \in Frame
          BY <1>7, <3>1, <2>1 DEF Latest
        <4>2. inbox[q][n] # NoFrame
          BY <4>1, PipelineAssumption
        <4> QED BY <1>8, <1>9, <3>1, <4>1, <4>2
      <3>2. CASE i \in 1 .. n - 1
        <4>1. i + 1 \in 1 .. n
          BY <1>7, <3>2
        <4> QED BY <1>3, <1>8, <3>2, <4>1 DEF Chained
      <3> QED BY <1>7, <3>1, <3>2
    <2>2. ASSUME lastRead[q] # NoFrame PROVE Follows(lastRead[q], inbox'[q][1])
      <3>1. CASE inbox[q] = <<>>
        <4>1. n = 0 /\ Latest(q) = lastRead[q]
          BY <3>1 DEF Latest
        <4> QED BY <1>8, <1>9, <2>2, <4>1
      <3>2. CASE inbox[q] # <<>>
        <4>1. 1 \in 1 .. n
          BY <1>7, <3>2
        <4> QED BY <1>3, <1>8, <2>2, <3>2, <4>1 DEF Chained
      <3> QED BY <3>1, <3>2
    <2>3. Len(inbox'[q]) - 1 = n
      BY <1>7, <1>8
    <2> HIDE DEF n
    <2> QED BY <1>4, <2>1, <2>2, <2>3 DEF Chained, Follows
  <1>11. GoesOn(p, q)'
    <2>1. Latest(q)' = f
      BY <1>7, <1>8 DEF Latest
    <2>2. f # NoFrame
      BY <1>6, PipelineAssumption
    <2> QED BY <1>5, <1>6, <2>1, <2>2 DEF GoesOn
  <1>12. ASSUME NEW r \in Pull, r # q PROVE Chained(r)'
    <2>1. inbox'[r] = inbox[r]
      BY <1>1, <1>4, <1>12 DEF TypeOK
    <2> QED BY <1>3, <1>4, <2>1 DEF Chained, Follows
  <1> QED BY <1>2, <1>4, <1>10, <1>11, <1>12 DEF WholeInv

LEMMA RecvWhole ==
  ASSUME IInv, WholeInv, TwoAlone, NEW q \in Pull, Recv(q)
  PROVE  WholeInv'
  <1> DEFINE n == Len(inbox[q])
  <1>1. TypeOK
    BY DEF IInv
  <1>2. inbox[q] \in Seq(Frame) /\ inbox[q] # <<>> /\ n \in Nat \ {0}
    BY <1>1 DEF Recv, TypeOK
  <1>3. /\ inbox' = [inbox EXCEPT ![q] = Tail(inbox[q])]
        /\ lastRead' = [lastRead EXCEPT ![q] = inbox[q][1]]
        /\ UNCHANGED <<setup, parts, number>>
    BY <1>2 DEF Recv
  <1>4. inbox'[q] = Tail(inbox[q]) /\ lastRead'[q] = inbox[q][1]
    BY <1>1, <1>3 DEF TypeOK
  <1>5. /\ inbox'[q] \in Seq(Frame) /\ Len(inbox'[q]) = n - 1
        /\ \A i \in 1 .. n - 1 : inbox'[q][i] = inbox[q][i + 1]
    BY <1>2, <1>4
  <1>6. inbox'[q] = <<>> <=> n = 1
    BY <1>2, <1>4, TailEmpty
  <1>7. n \in Nat \ {0}
    BY <1>2
  <1>8. n = Len(inbox[q])
    OBVIOUS
  <1> HIDE DEF n
  <1>9. Chained(q)'
    <2>1. Chained(q)
      BY DEF WholeInv
    <2>2. ASSUME NEW i \in 1 .. n - 2 PROVE Follows(inbox'[q][i], inbox'[q][i + 1])
      <3>1. i \in 1 .. n - 1 /\ i + 1 \in 1 .. n - 1
        BY <1>7
      <3> QED BY <1>5, <1>8, <2>1, <3>1 DEF Chained
    <2>3. ASSUME inbox'[q] # <<>> PROVE Follows(lastRead'[q], inbox'[q][1])
      <3>1. n - 1 # 0
        BY <1>6, <1>7, <2>3
      <3>2. 1 \in 1 .. n - 1
        BY <1>7, <3>1
      <3> QED BY <1>4, <1>5, <1>8, <2>1, <3>2 DEF Chained
    <2>4. Len(inbox'[q]) - 1 = n - 2
      BY <1>5, <1>7
    <2> QED BY <2>2, <2>3, <2>4 DEF Chained, Follows
  <1>10. Latest(q)' = Latest(q)
    <2>1. CASE n = 1
      <3>1. inbox'[q] = <<>>
        BY <1>6, <2>1
      <3> QED BY <1>2, <1>4, <1>8, <2>1, <3>1 DEF Latest
    <2>2. CASE n # 1
      <3>1. inbox'[q] # <<>> /\ n - 1 \in 1 .. n - 1 /\ (n - 1) + 1 = n
        BY <1>6, <1>7, <2>2
      <3>2. inbox'[q][n - 1] = inbox[q][n]
        BY <1>5, <3>1
      <3> QED BY <1>2, <1>5, <1>8, <3>1, <3>2 DEF Latest
    <2> QED BY <2>1, <2>2
  <1>11. ASSUME NEW r \in Pull, r # q PROVE Chained(r)' /\ Latest(r)' = Latest(r)
    <2>1. inbox'[r] = inbox[r] /\ lastRead'[r] = lastRead[r]
      BY <1>1, <1>3, <1>11 DEF TypeOK
    <2>2. Chained(r)
      BY DEF WholeInv
    <2> QED BY <2>1, <2>2 DEF Chained, Follows, Latest
  <1>12. ASSUME NEW r \in setup.pull, NEW p \in setup.push PROVE GoesOn(p, r)'
    <2>1. GoesOn(p, r)
      BY DEF WholeInv
    <2>2. r \in Pull
      BY <1>1, SetupType
    <2>3. Latest(r)' = Latest(r)
      BY <1>10, <1>11, <2>2
    <2> QED BY <1>3, <2>1, <2>3 DEF GoesOn
  <1>13. setup' = setup
    BY <1>3
  <1> QED BY <1>9, <1>11, <1>12, <1>13 DEF WholeInv

LEMMA InitWhole == Init => WholeInv
  <1> SUFFICES ASSUME Init, TwoAlone PROVE WholeInv
    BY DEF WholeInv
  <1>1. TypeOK
    BY InitIInv DEF IInv
  <1>2. setup.push \subseteq Push /\ setup.pull \subseteq Pull
    BY <1>1, SetupType
  <1>3. \A q \in Pull : inbox[q] = <<>> /\ lastRead[q] = NoFrame
    BY DEF Init
  <1>4. \A q \in Pull : Chained(q)
    BY <1>3 DEF Chained
  <1>5. \A q \in setup.pull, p \in setup.push : GoesOn(p, q)
    BY <1>2, <1>3 DEF GoesOn, Latest, Init
  <1> QED BY <1>4, <1>5 DEF WholeInv

LEMMA NextWhole == IInv /\ WholeInv /\ [Next]_vars => WholeInv'
  <1> SUFFICES ASSUME IInv, WholeInv, [Next]_vars PROVE WholeInv'
    OBVIOUS
  <1>1. setup' = setup
    BY DEF Next, TrySend, Connect, Disconnect, Recv, Send, SendAgain, Poll, vars
  <1>2. CASE ~TwoAlone
    BY <1>1, <1>2 DEF WholeInv, TwoAlone
  <1>3. CASE TwoAlone
    <2>1. ASSUME UNCHANGED <<inbox, lastRead, parts, number>> PROVE WholeInv'
      BY <1>1, <1>3, <2>1 DEF WholeInv, Chained, GoesOn, Latest, Follows
    <2>2. ASSUME NEW q \in Pull, Connect(q) \/ Disconnect(q) PROVE WholeInv'
      BY <2>1, <2>2 DEF Connect, Disconnect
    <2>3. ASSUME NEW p, NEW q, SendAgain(p, q) \/ Poll(p) PROVE WholeInv'
      BY <2>1, <2>3 DEF SendAgain, Poll
    <2>4. CASE UNCHANGED vars
      BY <2>1, <2>4 DEF vars
    <2> QED BY <1>3, <2>2, <2>3, <2>4, SendWhole, RecvWhole DEF Next, TrySend
  <1> QED BY <1>2, <1>3

(* The stream of a PULL is in order when its parts are. *)
LEMMA ChainedStream ==
  ASSUME TypeOK, NEW q \in Pull, Chained(q)
  PROVE  \A i \in 1 .. Len(Stream(q)) - 1 : Follows(Stream(q)[i], Stream(q)[i + 1])
  <1> DEFINE s == inbox[q]
             l == lastRead[q]
  <1>1. s \in Seq(Frame) /\ Len(s) \in Nat
    BY DEF TypeOK
  <1>2. CASE l = NoFrame
    <2>1. Stream(q) = s
      BY <1>1, <1>2 DEF Stream
    <2> QED BY <2>1 DEF Chained
  <1>3. CASE l # NoFrame
    <2>1. l \in Frame
      BY <1>3 DEF TypeOK
    <2>2. Stream(q) = <<l>> \o s
      BY <1>3 DEF Stream
    <2>3. \A i \in 1 .. Len(s) - 1 : Follows(s[i], s[i + 1])
      BY DEF Chained
    <2>4. s # <<>> => Follows(l, s[1])
      BY <1>3 DEF Chained
    <2> HIDE DEF s, l
    <2>5. /\ Len(<<l>> \o s) = Len(s) + 1 /\ (<<l>> \o s)[1] = l
          /\ \A i \in 2 .. Len(s) + 1 : (<<l>> \o s)[i] = s[i - 1]
      BY <1>1, <2>1
    <2> SUFFICES ASSUME NEW i \in 1 .. Len(s)
                 PROVE  Follows(Stream(q)[i], Stream(q)[i + 1])
      BY <1>1, <2>2, <2>5
    <2>6. i \in Nat /\ i + 1 \in 2 .. Len(s) + 1 /\ (i + 1) - 1 = i
      BY <1>1
    <2>7. Stream(q)[i + 1] = s[i]
      BY <2>2, <2>5, <2>6
    <2>8. CASE i = 1
      <3>1. s # <<>>
        BY <1>1, <2>8
      <3> QED BY <2>2, <2>4, <2>5, <2>7, <2>8, <3>1
    <2>9. CASE i # 1
      <3>1. i \in 2 .. Len(s) + 1 /\ i - 1 \in 1 .. Len(s) - 1 /\ (i - 1) + 1 = i
        BY <1>1, <2>6, <2>9
      <3>2. Stream(q)[i] = s[i - 1]
        BY <2>2, <2>5, <3>1
      <3>3. Follows(s[i - 1], s[(i - 1) + 1])
        BY <2>3, <3>1
      <3> QED BY <2>7, <3>1, <3>2, <3>3
    <2> QED BY <2>8, <2>9
  <1> QED BY <1>2, <1>3

(***************************************************************************)
(* Between one PUSH and one PULL multipart messages arrive whole, for      *)
(* messages of any length, across EAGAIN in mid-message, polling,          *)
(* disconnects and reconnects (try_send_inproc_fast, remove_peer).         *)
(***************************************************************************)
THEOREM AlwaysWholeBetweenTwo == Spec => []WholeBetweenTwo
  <1>1. IInv /\ WholeInv => WholeBetweenTwo
    <2> SUFFICES ASSUME IInv, WholeInv, TwoAlone PROVE MessagesWhole
      BY DEF WholeBetweenTwo, MessagesWhole, TwoAlone
    <2>1. TypeOK /\ \A q \in Pull : Chained(q)
      BY DEF IInv, WholeInv
    <2> QED BY <2>1, ChainedStream DEF MessagesWhole
  <1> QED BY <1>1, InitWhole, NextWhole, AlwaysIInv, PTL DEF Spec

-----------------------------------------------------------------------------
(* Plain sends are balanced. *)

Plain == (setup.tuned => setup.conflate) /\ setup.parts = 1 /\ ~setup.polls

(* Is place i among the m places before place k + 1 in a circle of n? *)
HadTurn(i, m, k, n) == (k + 1 <= i + m /\ i <= k) \/ k + n + 1 <= i + m

(***************************************************************************)
(* Balance alone is not inductive: that nobody is served twice rests on    *)
(* who has been served.  In each round the peers that had their turn are   *)
(* the ones just before the peer that next_peer picks.                     *)
(***************************************************************************)
Turns(m) ==
  \A i \in 1 .. Len(peers) :
    share[peers[i]] = IF HadTurn(i, m, nextPeer % Len(peers), Len(peers)) THEN 1 ELSE 0

BalanceInv ==
  Plain /\ peers # <<>> => \E m \in 0 .. Len(peers) - 1 : Turns(m)

(* Quotient and remainder. *)
LEMMA DivMod ==
  ASSUME NEW x \in Nat, NEW n \in Nat \ {0}
  PROVE  /\ x = n * (x \div n) + (x % n)
         /\ x % n \in 0 .. n - 1 /\ x \div n \in Nat
  OBVIOUS

LEMMA ModUnique ==
  ASSUME NEW n \in Nat \ {0}, NEW a \in Nat, NEW r \in 0 .. n - 1
  PROVE  (n * a + r) % n = r
  OBVIOUS

(* The counter that wraps at a multiple w of n goes round the n peers. *)
LEMMA NextTurn ==
  ASSUME NEW x \in Nat, NEW n \in Nat \ {0}, NEW w \in Nat \ {0},
         w % n = 0, x < w
  PROVE  ((x + 1) % w) % n = IF (x % n) + 1 = n THEN 0 ELSE (x % n) + 1
  <1>1. PICK a \in Nat : x = n * a + (x % n)
    BY DivMod
  <1>2. PICK b \in Nat : w = n * b
    <2>1. w \div n \in Nat /\ w = n * (w \div n) + (w % n)
      BY DivMod
    <2>2. n * (w \div n) \in Nat
      BY <2>1
    <2> QED BY <2>1, <2>2
  <1>3. PICK r \in 0 .. n - 1 : r = x % n
    BY DivMod
  <1>4. x = n * a + r
    BY <1>1, <1>3
  <1>5. CASE x + 1 = w
    <2>1. (x + 1) % w = 0
      BY <1>5
    <2>2. n * (b - a) = r + 1
      BY <1>2, <1>4, <1>5
    <2>3. b - a >= 1
      BY <2>2
    <2>4. n * (b - a) >= n
      BY <2>3
    <2>5. r + 1 = n
      BY <2>2, <2>4
    <2>6. 0 % n = 0
      OBVIOUS
    <2> QED BY <1>3, <2>1, <2>5, <2>6
  <1>6. CASE x + 1 < w
    <2>1. (x + 1) % w = x + 1
      BY <1>6
    <2>2. CASE r + 1 = n
      <3>1. x + 1 = n * (a + 1) + 0 /\ a + 1 \in Nat /\ 0 \in 0 .. n - 1
        BY <1>4, <2>2
      <3>2. (n * (a + 1) + 0) % n = 0
        BY <3>1, ModUnique
      <3> QED BY <1>3, <2>1, <2>2, <3>1, <3>2
    <2>3. CASE r + 1 # n
      <3>1. x + 1 = n * a + (r + 1) /\ r + 1 \in 0 .. n - 1
        BY <1>4, <2>3
      <3>2. (x + 1) % n = r + 1
        BY <3>1, ModUnique
      <3> QED BY <1>3, <2>1, <2>3, <3>2
    <2> QED BY <2>2, <2>3
  <1> QED BY <1>5, <1>6

(* Every number of peers divides Wrap. *)
LEMMA WrapFits ==
  ASSUME TypeOK, PeersListed, peers # <<>>
  PROVE  /\ Len(peers) \in Nat \ {0} /\ Wrap % Len(peers) = 0
         /\ nextPeer \in Nat /\ nextPeer < Wrap /\ Wrap \in Nat \ {0}
  <1> DEFINE n == Len(peers)
  <1>1. n \in Nat \ {0} /\ peers \in [1 .. n -> Pull]
    BY DEF TypeOK
  <1>2. IsFiniteSet(1 .. n) /\ Cardinality(1 .. n) = n
    BY <1>1, FS_Interval
  <1>3. IsFiniteSet(Pull) /\ Cardinality(Pull) \in Nat
    BY PipelineAssumption, FS_CardinalityType
  <1>4. ~(Cardinality(Pull) < n)
    <2> SUFFICES ASSUME Cardinality(Pull) < n PROVE FALSE
      OBVIOUS
    <2>1. \E i, j \in 1 .. n : i # j /\ peers[i] = peers[j]
      BY <1>1, <1>2, <1>3, FS_PigeonHole
    <2> QED BY <2>1 DEF PeersListed
  <1>5. n \in 1 .. Cardinality(Pull)
    BY <1>1, <1>3, <1>4
  <1>6. Wrap % n = 0
    BY <1>5, PipelineAssumption
  <1> QED BY <1>1, <1>6, PipelineAssumption DEF TypeOK

(* One more turn: the circle with place k + 1 served. *)
LEMMA OneMoreTurn ==
  ASSUME NEW n \in Nat \ {0}, NEW k \in 0 .. n - 1, NEW m \in 0 .. n - 1,
         NEW next, next = IF k + 1 = n THEN 0 ELSE k + 1
  PROVE  /\ ~HadTurn(k + 1, m, k, n)
         /\ \A i \in 1 .. n :
              /\ m + 1 < n => (HadTurn(i, m + 1, next, n) <=> i = k + 1 \/ HadTurn(i, m, k, n))
              /\ m + 1 = n => (i = k + 1 \/ HadTurn(i, m, k, n))
              /\ ~HadTurn(i, 0, next, n)
         /\ m + 1 < n => \E j \in 1 .. n : j # k + 1 /\ ~HadTurn(j, m, k, n)
  <1> USE DEF HadTurn
  <1>1. ~HadTurn(k + 1, m, k, n)
    OBVIOUS
  <1>2. CASE k + 1 = n
    <2>1. m + 1 < n => 1 # k + 1 /\ ~HadTurn(1, m, k, n) /\ 1 \in 1 .. n
      BY <1>2
    <2> QED BY <1>1, <1>2, <2>1
  <1>3. CASE k + 1 # n
    <2>1. m + 1 < n => k + 2 # k + 1 /\ ~HadTurn(k + 2, m, k, n) /\ k + 2 \in 1 .. n
      BY <1>3
    <2> QED BY <1>1, <1>3, <2>1
  <1> QED BY <1>2, <1>3

LEMMA SendBalanced ==
  ASSUME IInv, BalanceInv, Plain, NEW p \in setup.push, NEW q \in Pull,
         NEW more \in BOOLEAN, Send(p, q, more), peers # <<>>
  PROVE  BalanceInv'
  <1> DEFINE n == Len(peers)
             k == nextPeer % n
             next == IF k + 1 = n THEN 0 ELSE k + 1
             given == [share EXCEPT ![q] = IF @ = 2 THEN 2 ELSE @ + 1]
  <1>1. TypeOK /\ PeersListed
    BY DEF IInv
  <1>2. setup.pushBinds /\ peers' = peers /\ setup' = setup
    BY <1>1 DEF PeersListed, Send
  <1>3. ~more
    <2>1. p \in Push /\ parts[p] \in Nat
      BY <1>1, SetupType, PipelineAssumption DEF TypeOK
    <2> QED BY <2>1 DEF Send, Plain
  <1>4. /\ n \in Nat \ {0} /\ k \in 0 .. n - 1 /\ q = peers[k + 1]
        /\ peers \in Seq(Pull)
    BY <1>1, <1>2, OutboxTakesPart DEF Send, TypeOK
  <1>5. nextPeer' % n = next
    <2>1. nextPeer' = AdvancePeer
      BY <1>2 DEF Send
    <2>2. AdvancePeer % n = next
      BY <1>1, WrapFits, NextTurn DEF AdvancePeer
    <2> QED BY <2>1, <2>2
  <1>6. PICK m \in 0 .. n - 1 : Turns(m)
    BY DEF BalanceInv
  <1>7. share' = CountedFor(q)
    BY <1>2, <1>3 DEF Send
  <1>8. \A i \in 1 .. n : share[peers[i]] = IF HadTurn(i, m, k, n) THEN 1 ELSE 0
    BY <1>6 DEF Turns
  <1>9. n \in Nat \ {0} /\ k \in 0 .. n - 1 /\ next \in 0 .. n - 1
    BY <1>4
  <1>10. k + 1 \in 1 .. n /\ next = IF k + 1 = n THEN 0 ELSE k + 1
    BY <1>9
  <1> HIDE DEF n, k, next
  <1>11. /\ ~HadTurn(k + 1, m, k, n)
         /\ \A i \in 1 .. n :
              /\ m + 1 < n => (HadTurn(i, m + 1, next, n) <=> i = k + 1 \/ HadTurn(i, m, k, n))
              /\ m + 1 = n => (i = k + 1 \/ HadTurn(i, m, k, n))
              /\ ~HadTurn(i, 0, next, n)
         /\ m + 1 < n => \E j \in 1 .. n : j # k + 1 /\ ~HadTurn(j, m, k, n)
    BY <1>6, <1>9, <1>10, OneMoreTurn
  <1>12. share[q] = 0
    BY <1>4, <1>8, <1>10, <1>11
  <1>13. given = [share EXCEPT ![q] = 1] /\ share \in [Pull -> 0 .. 2]
    BY <1>1, <1>12 DEF TypeOK
  <1> HIDE DEF given
  <1>14. ASSUME NEW i \in 1 .. n
         PROVE  given[peers[i]] = IF i = k + 1 \/ HadTurn(i, m, k, n) THEN 1 ELSE 0
    <2>1. peers[i] \in Pull
      BY <1>4 DEF n
    <2>2. peers[i] = q <=> i = k + 1
      BY <1>1, <1>4, <1>10 DEF PeersListed, n
    <2> QED BY <1>8, <1>13, <2>1, <2>2
  <1>15. CountedFor(q) = IF \A i \in 1 .. n : given[peers[i]] > 0
                         THEN [r \in Pull |-> IF Joined(r) THEN given[r] - 1 ELSE 0]
                         ELSE given
    BY DEF CountedFor, given, n
  <1>16. CASE m + 1 = n
    <2>1. \A i \in 1 .. n : given[peers[i]] = 1
      BY <1>11, <1>14, <1>16
    <2>2. share' = [r \in Pull |-> IF Joined(r) THEN given[r] - 1 ELSE 0]
      BY <1>7, <1>15, <2>1
    <2>3. \A i \in 1 .. n : peers[i] \in Pull /\ Joined(peers[i])
      BY <1>4 DEF Joined, n
    <2>4. \A i \in 1 .. n : share'[peers[i]] = 0
      BY <2>1, <2>2, <2>3
    <2>5. Turns(0)'
      BY <1>2, <1>5, <1>11, <2>4 DEF Turns, n
    <2>6. 0 \in 0 .. Len(peers') - 1
      BY <1>2, <1>9 DEF n
    <2> QED BY <2>5, <2>6 DEF BalanceInv
  <1>17. CASE m + 1 < n
    <2>1. PICK j \in 1 .. n : j # k + 1 /\ ~HadTurn(j, m, k, n)
      BY <1>11, <1>17
    <2>2. given[peers[j]] = 0
      BY <1>14, <2>1
    <2>3. share' = given
      BY <1>7, <1>15, <2>2
    <2>4. Turns(m + 1)'
      BY <1>2, <1>5, <1>11, <1>14, <1>17, <2>3 DEF Turns, n
    <2>5. m + 1 \in 0 .. Len(peers') - 1
      BY <1>2, <1>6, <1>9, <1>17 DEF n
    <2> QED BY <2>4, <2>5 DEF BalanceInv
  <1>18. m + 1 = n \/ m + 1 < n
    BY <1>6, <1>9
  <1> QED BY <1>16, <1>17, <1>18

LEMMA NextBalance == IInv /\ BalanceInv /\ [Next]_vars => BalanceInv'
  <1> SUFFICES ASSUME IInv, BalanceInv, [Next]_vars PROVE BalanceInv'
    OBVIOUS
  <1>0. TypeOK /\ PeersListed /\ IInv'
    BY NextIInv DEF IInv
  <1>1. setup' = setup
    BY DEF Next, TrySend, Connect, Disconnect, Recv, Send, SendAgain, Poll, vars
  <1>2. CASE ~Plain
    BY <1>1, <1>2 DEF BalanceInv, Plain
  <1>3. CASE Plain
    <2>1. ASSUME NEW q \in Pull, Connect(q) \/ Disconnect(q) PROVE BalanceInv'
      <3> SUFFICES ASSUME peers' # <<>> PROVE BalanceInv'
        BY DEF BalanceInv
      <3>1. share' = [r \in Pull |-> 0]
        BY <2>1 DEF Connect, Disconnect
      <3>2. /\ peers' \in Seq(Pull) /\ Len(peers') \in Nat \ {0}
            /\ nextPeer' % Len(peers') \in 0 .. Len(peers') - 1
        <4>1. peers' \in Seq(Pull) /\ nextPeer' \in Nat
          BY <1>0, PipelineAssumption DEF IInv, TypeOK
        <4> QED BY <4>1
      <3>3. \A i \in 1 .. Len(peers') : share'[peers'[i]] = 0
        BY <3>1, <3>2
      <3>4. \A i \in 1 .. Len(peers') : ~HadTurn(i, 0, nextPeer' % Len(peers'), Len(peers'))
        BY <3>2 DEF HadTurn
      <3>5. Turns(0)' /\ 0 \in 0 .. Len(peers') - 1
        BY <3>2, <3>3, <3>4 DEF Turns, HadTurn
      <3> QED BY <3>5 DEF BalanceInv
    <2>2. ASSUME UNCHANGED <<peers, nextPeer, share>> PROVE BalanceInv'
      BY <1>1, <2>2 DEF BalanceInv, Turns, HadTurn, Plain
    <2>3. ASSUME NEW p \in setup.push, NEW q \in Pull, SendAgain(p, q) PROVE BalanceInv'
      BY <1>3, <2>3 DEF SendAgain, Room, Plain
    <2>4. ASSUME NEW p \in setup.push, Poll(p) PROVE BalanceInv'
      BY <1>3, <2>4 DEF Poll, Plain
    <2>5. ASSUME NEW p \in setup.push, NEW q \in Pull, NEW more \in BOOLEAN,
                 Send(p, q, more)
          PROVE  BalanceInv'
      <3>1. CASE peers = <<>>
        BY <2>5, <3>1 DEF Send, BalanceInv
      <3> QED BY <1>3, <2>5, <3>1, SendBalanced
    <2>6. CASE UNCHANGED vars
      BY <2>2, <2>6 DEF vars
    <2>7. ASSUME NEW q \in Pull, Recv(q) PROVE BalanceInv'
      BY <2>2, <2>7 DEF Recv
    <2> QED BY <2>1, <2>3, <2>4, <2>5, <2>6, <2>7 DEF Next, TrySend
  <1> QED BY <1>2, <1>3

(***************************************************************************)
(* Single frames that are neither refused nor interleaved with ZMQ_EVENTS  *)
(* are shared out evenly among any number of peers that come and go        *)
(* (InprocEndpoint::next_peer).                                            *)
(***************************************************************************)
THEOREM AlwaysPlainlyBalanced == Spec => []PlainlyBalanced
  <1>1. Init => BalanceInv
    BY DEF Init, BalanceInv
  <1>2. IInv /\ BalanceInv => PlainlyBalanced
    <2> SUFFICES ASSUME BalanceInv, Plain, NEW i \in 1 .. Len(peers), NEW j \in 1 .. Len(peers),
                        TypeOK
                 PROVE  share[peers[i]] <= share[peers[j]] + 1
      BY DEF PlainlyBalanced, Plain, IInv
    <2>1. peers # <<>>
      BY DEF TypeOK
    <2>2. PICK m \in 0 .. Len(peers) - 1 : Turns(m)
      BY <2>1 DEF BalanceInv
    <2>3. share[peers[i]] \in {0, 1} /\ share[peers[j]] \in {0, 1}
      BY <2>2 DEF Turns
    <2> QED BY <2>3
  <1> QED BY <1>1, <1>2, NextBalance, AlwaysIInv, PTL DEF Spec
=============================================================================
