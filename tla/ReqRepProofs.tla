---------------------------- MODULE ReqRepProofs ----------------------------
(***************************************************************************)
(* Proofs about ReqRep, for any number of REQ sockets, relaxed or not,     *)
(* that come and go as they like: its types, that a reply goes to a socket *)
(* that asked, for single-part requests that it answers nobody else, and   *)
(* for strict sockets that one request is under way while they wait, and   *)
(* that the reply is to the latest.                                        *)
(***************************************************************************)
EXTENDS ReqRep, FiniteSetTheorems, TLAPS

Socket == Req \cup {Rep}
Request == [from : Req, tag : Tag, more : BOOLEAN]
Reply == [answers : SUBSET Tag, more : BOOLEAN]

LEMMA SendTypes ==
  ASSUME TypeOK, NEW s \in Socket, NEW more \in BOOLEAN, NextPart(s, more)
  PROVE  /\ parts' \in [Socket -> 0 .. MaxParts - 1]
         /\ AfterSend(s, more) \in [Socket -> {"send", "recv"}]
  <1> USE ReqRepAssumption
  <1>1. parts \in [Socket -> 0 .. MaxParts - 1] /\ state \in [Socket -> {"send", "recv"}]
    BY DEF TypeOK, Socket
  <1>2. AfterSend(s, more) \in [Socket -> {"send", "recv"}]
    BY <1>1 DEF AfterSend
  <1>3. parts[s] \in 0 .. MaxParts - 1
    BY <1>1
  <1>4. (IF more THEN parts[s] + 1 ELSE 0) \in 0 .. MaxParts - 1
    <2>1. CASE more
      BY <1>3, <2>1 DEF NextPart
    <2>2. CASE ~more
      BY <2>2
    <2> QED BY <2>1, <2>2
  <1>5. parts' = [parts EXCEPT ![s] = IF more THEN parts[s] + 1 ELSE 0]
    BY DEF NextPart
  <1> QED BY <1>1, <1>2, <1>4, <1>5

LEMMA AfterRecvType ==
  ASSUME TypeOK, NEW s \in Socket, NEW more
  PROVE  AfterRecv(s, more) \in [Socket -> {"send", "recv"}]
  BY DEF TypeOK, Socket, AfterRecv

LEMMA TagOfType ==
  ASSUME TypeOK, NEW r \in Req
  PROVE  TagOf(r) \in 0 .. Tags - 1
  <1>1. asked[r] \in 0 .. Tags - 1 /\ asked[r] \in Nat /\ Tags \in Nat \ {0, 1}
    BY ReqRepAssumption DEF TypeOK
  <1>2. (asked[r] + 1) % Tags \in 0 .. Tags - 1
    BY <1>1
  <1> QED BY <1>1, <1>2 DEF TagOf

(* Every step keeps the types, and the queues below the high-water mark. *)
LEMMA TypeStep == TypeOK /\ [Next]_vars => TypeOK'
  <1> SUFFICES ASSUME TypeOK, [Next]_vars PROVE TypeOK'
    OBVIOUS
  <1> USE ReqRepAssumption
  <1>a. /\ repInbox \in Seq(Request) /\ Len(repInbox) <= Hwm
        /\ reqInbox \in [Req -> Seq(Reply)]
        /\ \A r \in Req : Len(reqInbox[r]) <= Hwm
        /\ state \in [Socket -> {"send", "recv"}]
        /\ lastId \in Req \cup {NoReq}
    BY DEF TypeOK, Request, Reply, Socket
  <1>1. ASSUME NEW r \in Req, Connect(r) PROVE TypeOK'
    BY <1>1 DEF Connect, TypeOK
  <1>2. ASSUME NEW r \in Req, Disconnect(r) PROVE TypeOK'
    BY <1>2 DEF Disconnect, TypeOK
  <1>3. ASSUME NEW r \in Req, NEW more \in BOOLEAN, ReqSend(r, more) PROVE TypeOK'
    <2> DEFINE f == [from |-> r, tag |-> <<r, TagOf(r)>>, more |-> more]
    <2>1. f \in Request
      BY TagOfType DEF Request, Tag
    <2>2. repInbox' = Append(repInbox, f) /\ Len(repInbox) < Hwm
      BY <1>3 DEF ReqSend, HasRoom
    <2>3. repInbox' \in Seq(Request) /\ Len(repInbox') <= Hwm
      <3> HIDE DEF f
      <3> QED BY <1>a, <2>1, <2>2
    <2>4. asked' \in [Req -> 0 .. Tags - 1]
      BY <1>3, TagOfType DEF ReqSend, TypeOK
    <2>5. parts' \in [Socket -> 0 .. MaxParts - 1] /\ state' \in [Socket -> {"send", "recv"}]
      BY <1>3, SendTypes DEF ReqSend, Socket
    <2> QED BY <1>3, <2>3, <2>4, <2>5 DEF ReqSend, TypeOK, Socket, Request
  <1>4. CASE RepRecv
    <2> DEFINE f == Head(repInbox)
    <2>1. f \in Request /\ repInbox' = Tail(repInbox) /\ repInbox # <<>>
      BY <1>4, <1>a DEF RepRecv
    <2>2. repInbox' \in Seq(Request) /\ Len(repInbox') <= Hwm
      BY <1>a, <2>1
    <2>3. f.from \in Req /\ f.tag \in Tag
      BY <2>1 DEF Request
    <2>4. lastId' = f.from /\ reading' = reading \cup {f.tag}
      BY <1>4 DEF RepRecv
    <2>5. state' \in [Socket -> {"send", "recv"}]
      BY <1>4, AfterRecvType DEF RepRecv, Socket
    <2> QED BY <1>4, <2>2, <2>3, <2>4, <2>5 DEF RepRecv, TypeOK, Socket, Request
  <1>5. ASSUME NEW more \in BOOLEAN, RepSend(more) PROVE TypeOK'
    <2> DEFINE f == [answers |-> reading, more |-> more]
    <2>1. lastId \in Req /\ f \in Reply
      BY <1>5, <1>a DEF RepSend, ReplyTo, TypeOK, Reply
    <2>2. /\ reqInbox' = [reqInbox EXCEPT ![lastId] = Append(reqInbox[lastId], f)]
          /\ Len(reqInbox[lastId]) < Hwm
      BY <1>5 DEF RepSend, ReplyTo, HasRoom
    <2>3. /\ Append(reqInbox[lastId], f) \in Seq(Reply)
          /\ Len(Append(reqInbox[lastId], f)) <= Hwm
      <3> HIDE DEF f
      <3> QED BY <1>a, <2>1, <2>2
    <2>4. reqInbox' \in [Req -> Seq(Reply)] /\ \A r \in Req : Len(reqInbox'[r]) <= Hwm
      <3> HIDE DEF f
      <3> QED BY <1>a, <2>1, <2>2, <2>3
    <2>5. parts' \in [Socket -> 0 .. MaxParts - 1] /\ state' \in [Socket -> {"send", "recv"}]
      BY <1>5, SendTypes DEF RepSend, Socket
    <2> QED BY <1>5, <2>4, <2>5 DEF RepSend, TypeOK, Socket, Reply
  <1>6. ASSUME NEW r \in Req, ReqRecv(r) PROVE TypeOK'
    <2>1. /\ reqInbox' = [reqInbox EXCEPT ![r] = Tail(reqInbox[r])]
          /\ reqInbox[r] # <<>> /\ reqInbox[r] \in Seq(Reply)
      BY <1>6, <1>a DEF ReqRecv
    <2>2. Tail(reqInbox[r]) \in Seq(Reply) /\ Len(Tail(reqInbox[r])) <= Hwm
      BY <1>a, <2>1
    <2>3. reqInbox' \in [Req -> Seq(Reply)] /\ \A t \in Req : Len(reqInbox'[t]) <= Hwm
      BY <1>a, <2>1, <2>2
    <2>4. state' \in [Socket -> {"send", "recv"}]
      BY <1>6, AfterRecvType DEF ReqRecv, Socket
    <2> QED BY <1>6, <2>3, <2>4 DEF ReqRecv, TypeOK, Socket, Reply
  <1>7. CASE UNCHANGED vars
    BY <1>7 DEF vars, TypeOK
  <1> QED BY <1>1, <1>2, <1>3, <1>4, <1>5, <1>6, <1>7 DEF Next, ReqStep, RepStep

LEMMA InitTypeOK == Init => TypeOK
  BY ReqRepAssumption DEF Init, TypeOK

(* The types are right and no queue ever exceeds the high-water mark, for
   any number of REQ sockets, any high-water mark and messages of any length:
   the test in Socket::send is made under the mutex of the queue. *)
THEOREM QueuesBounded == Spec => []TypeOK
  BY InitTypeOK, TypeStep, PTL DEF Spec

-----------------------------------------------------------------------------
(* Queued frames carry the id of their sender. *)
FramesMarked ==
  \A i \in 1 .. Len(repInbox) : repInbox[i].tag[1] = repInbox[i].from

(* While the REP replies, it replies to somebody whose request it has read. *)
ReadingAsker == state[Rep] = "send" => \E tag \in reading : tag[1] = lastId

AskerInv == TypeOK /\ FramesMarked /\ ReadingAsker /\ TracedBack

LEMMA AskerStep ==
  ASSUME AskerInv, [Next]_vars
  PROVE  (FramesMarked /\ ReadingAsker /\ TracedBack)'
  <1> USE ReqRepAssumption
  <1>a. /\ TypeOK
        /\ repInbox \in Seq(Request)
        /\ reqInbox \in [Req -> Seq(Reply)]
        /\ state \in [Socket -> {"send", "recv"}]
        /\ Rep \in Socket
    BY DEF AskerInv, TypeOK, Request, Reply, Socket
  <1>1. ASSUME NEW r \in Req, Connect(r) \/ Disconnect(r)
        PROVE  (FramesMarked /\ ReadingAsker /\ TracedBack)'
    BY <1>1 DEF Connect, Disconnect, AskerInv, FramesMarked, ReadingAsker, TracedBack
  <1>2. ASSUME NEW r \in Req, NEW more \in BOOLEAN, ReqSend(r, more)
        PROVE  (FramesMarked /\ ReadingAsker /\ TracedBack)'
    <2> DEFINE f == [from |-> r, tag |-> <<r, TagOf(r)>>, more |-> more]
    <2>1. f.tag[1] = f.from /\ f \in Request
      BY <1>a, TagOfType DEF Request, Tag
    <2>2. repInbox' = Append(repInbox, f)
      BY <1>2 DEF ReqSend
    <2>3. FramesMarked'
      <3> HIDE DEF f
      <3> SUFFICES ASSUME NEW i \in 1 .. Len(repInbox')
                   PROVE  repInbox'[i].tag[1] = repInbox'[i].from
        BY DEF FramesMarked
      <3>1. CASE i \in 1 .. Len(repInbox)
        BY <1>a, <2>1, <2>2, <3>1 DEF AskerInv, FramesMarked
      <3>2. CASE i = Len(repInbox) + 1
        BY <1>a, <2>1, <2>2, <3>2
      <3> QED BY <1>a, <2>1, <2>2, <3>1, <3>2
    <2>4. state'[Rep] = state[Rep]
      BY <1>a, <1>2 DEF ReqSend, AfterSend, Socket
    <2> QED BY <1>2, <2>3, <2>4 DEF ReqSend, AskerInv, ReadingAsker, TracedBack
  <1>3. ASSUME RepRecv
        PROVE  (FramesMarked /\ ReadingAsker /\ TracedBack)'
    <2> DEFINE f == Head(repInbox)
    <2>1. repInbox # <<>> /\ repInbox' = Tail(repInbox)
      BY <1>3 DEF RepRecv
    <2>2. f.tag[1] = f.from
      BY <1>a, <2>1 DEF AskerInv, FramesMarked
    <2>3. f.tag \in reading' /\ lastId' = f.from
      BY <1>3 DEF RepRecv
    <2>4. FramesMarked'
      BY <1>a, <2>1 DEF AskerInv, FramesMarked
    <2> QED BY <1>3, <2>2, <2>3, <2>4 DEF RepRecv, AskerInv, ReadingAsker, TracedBack
  <1>4. ASSUME NEW more \in BOOLEAN, RepSend(more)
        PROVE  (FramesMarked /\ ReadingAsker /\ TracedBack)'
    <2> DEFINE f == [answers |-> reading, more |-> more]
    <2>1. state[Rep] = "send"
      BY <1>4 DEF RepSend, CanSend
    <2>2. ReadingAsker'
      <3>1. CASE more
        BY <1>4, <2>1, <3>1 DEF RepSend, AskerInv, ReadingAsker
      <3>2. CASE ~more
        BY <1>a, <1>4, <3>2 DEF RepSend, AfterSend, ReadingAsker
      <3> QED BY <3>1, <3>2
    <2>3. lastId \in Req /\ f \in Reply
      BY <1>a, <1>4 DEF RepSend, ReplyTo, TypeOK, Reply
    <2>4. reqInbox' = [reqInbox EXCEPT ![lastId] = Append(reqInbox[lastId], f)]
      BY <1>4 DEF RepSend, ReplyTo
    <2>5. \E tag \in f.answers : tag[1] = lastId
      BY <2>1 DEF AskerInv, ReadingAsker
    <2>6. TracedBack'
      <3> HIDE DEF f
      <3> SUFFICES ASSUME NEW r \in Req, NEW i \in 1 .. Len(reqInbox'[r])
                   PROVE  \E tag \in reqInbox'[r][i].answers : tag[1] = r
        BY DEF TracedBack
      <3>1. CASE r # lastId
        BY <1>a, <2>3, <2>4, <3>1 DEF AskerInv, TracedBack
      <3>2. CASE r = lastId
        <4>1. reqInbox'[r] = Append(reqInbox[r], f) /\ reqInbox[r] \in Seq(Reply)
          BY <1>a, <2>3, <2>4, <3>2
        <4>2. CASE i \in 1 .. Len(reqInbox[r])
          BY <2>3, <4>1, <4>2 DEF AskerInv, TracedBack
        <4>3. CASE i = Len(reqInbox[r]) + 1
          BY <2>3, <2>5, <3>2, <4>1, <4>3
        <4> QED BY <2>3, <4>1, <4>2, <4>3
      <3> QED BY <3>1, <3>2
    <2> QED BY <1>4, <2>2, <2>6 DEF RepSend, AskerInv, FramesMarked
  <1>5. ASSUME NEW r \in Req, ReqRecv(r)
        PROVE  (FramesMarked /\ ReadingAsker /\ TracedBack)'
    <2>1. state'[Rep] = state[Rep]
      BY <1>a, <1>5 DEF ReqRecv, AfterRecv, Socket
    <2>2. /\ reqInbox' = [reqInbox EXCEPT ![r] = Tail(reqInbox[r])]
          /\ reqInbox[r] \in Seq(Reply) /\ reqInbox[r] # <<>>
      BY <1>a, <1>5 DEF ReqRecv
    <2>3. TracedBack'
      <3> SUFFICES ASSUME NEW t \in Req, NEW i \in 1 .. Len(reqInbox'[t])
                   PROVE  \E tag \in reqInbox'[t][i].answers : tag[1] = t
        BY DEF TracedBack
      <3>1. CASE t # r
        BY <1>a, <2>2, <3>1 DEF AskerInv, TracedBack
      <3>2. CASE t = r
        <4>1. reqInbox'[t][i] = reqInbox[t][i + 1] /\ i + 1 \in 1 .. Len(reqInbox[t])
          BY <1>a, <2>2, <3>2
        <4> QED BY <4>1 DEF AskerInv, TracedBack
      <3> QED BY <3>1, <3>2
    <2> QED BY <1>5, <2>1, <2>3 DEF ReqRecv, AskerInv, FramesMarked, ReadingAsker
  <1>6. CASE UNCHANGED vars
    BY <1>6 DEF vars, AskerInv, FramesMarked, ReadingAsker, TracedBack
  <1> QED BY <1>1, <1>2, <1>3, <1>4, <1>5, <1>6 DEF Next, ReqStep, RepStep

(* A reply of the REP is queued at a socket whose request it answers, for
   messages of any number of frames, although the frames of all requests
   share the REP's inbox and REQ sockets disconnect and come back. *)
THEOREM RepliesTracedBack == Spec => []TracedBack
  <1>1. Init => AskerInv
    BY InitTypeOK, ReqRepAssumption
       DEF Init, AskerInv, FramesMarked, ReadingAsker, TracedBack
  <1>2. AskerInv /\ [Next]_vars => AskerInv'
    <2> SUFFICES ASSUME AskerInv, [Next]_vars PROVE AskerInv'
      OBVIOUS
    <2>1. TypeOK'
      BY TypeStep DEF AskerInv
    <2>2. (FramesMarked /\ ReadingAsker /\ TracedBack)'
      BY AskerStep
    <2> QED BY <2>1, <2>2 DEF AskerInv
  <1>3. AskerInv => TracedBack
    BY DEF AskerInv
  <1> QED BY <1>1, <1>2, <1>3, PTL DEF Spec

-----------------------------------------------------------------------------
(* Queued requests carry the id of their sender and are whole messages. *)
RequestsMarked ==
  \A i \in 1 .. Len(repInbox) :
    repInbox[i].tag[1] = repInbox[i].from /\ ~repInbox[i].more

(* What the REP has read is one request, of the socket it will reply to. *)
ReadingOne ==
  /\ \A tag \in reading : tag[1] = lastId
  /\ state[Rep] = "recv" => reading = {}

TracebackInv == TypeOK /\ RequestsMarked /\ ReadingOne /\ ReplyToRequester

(* A single-part message has no more flag. *)
LEMMA NoMoreParts ==
  ASSUME TypeOK, MaxParts = 1, NEW s \in Socket, NEW more \in BOOLEAN,
         NextPart(s, more)
  PROVE  ~more
  <1>1. parts[s] \in 0 .. MaxParts - 1
    BY DEF TypeOK, Socket
  <1> QED BY <1>1 DEF NextPart

LEMMA TracebackStep ==
  ASSUME MaxParts = 1, TracebackInv, [Next]_vars
  PROVE  (RequestsMarked /\ ReadingOne /\ ReplyToRequester)'
  <1> USE ReqRepAssumption
  <1>a. /\ TypeOK
        /\ repInbox \in Seq(Request)
        /\ reqInbox \in [Req -> Seq(Reply)]
        /\ state \in [Socket -> {"send", "recv"}]
        /\ Rep \in Socket
    BY DEF TracebackInv, TypeOK, Request, Reply, Socket
  <1>1. ASSUME NEW r \in Req, Connect(r) \/ Disconnect(r)
        PROVE  (RequestsMarked /\ ReadingOne /\ ReplyToRequester)'
    BY <1>1 DEF Connect, Disconnect, TracebackInv, RequestsMarked, ReadingOne,
                ReplyToRequester
  <1>2. ASSUME NEW r \in Req, NEW more \in BOOLEAN, ReqSend(r, more)
        PROVE  (RequestsMarked /\ ReadingOne /\ ReplyToRequester)'
    <2> DEFINE f == [from |-> r, tag |-> <<r, TagOf(r)>>, more |-> more]
    <2>1. f.tag[1] = f.from /\ ~f.more /\ f \in Request
      BY <1>a, <1>2, NoMoreParts, TagOfType DEF ReqSend, Socket, Request, Tag
    <2>2. repInbox' = Append(repInbox, f)
      BY <1>2 DEF ReqSend
    <2>3. RequestsMarked'
      <3> HIDE DEF f
      <3> SUFFICES ASSUME NEW i \in 1 .. Len(repInbox')
                   PROVE  repInbox'[i].tag[1] = repInbox'[i].from /\ ~repInbox'[i].more
        BY DEF RequestsMarked
      <3>1. CASE i \in 1 .. Len(repInbox)
        BY <1>a, <2>1, <2>2, <3>1 DEF TracebackInv, RequestsMarked
      <3>2. CASE i = Len(repInbox) + 1
        BY <1>a, <2>1, <2>2, <3>2
      <3> QED BY <1>a, <2>1, <2>2, <3>1, <3>2
    <2>4. state'[Rep] = state[Rep]
      BY <1>a, <1>2 DEF ReqSend, AfterSend, Socket
    <2> QED BY <1>2, <2>3, <2>4 DEF ReqSend, TracebackInv, ReadingOne, ReplyToRequester
  <1>3. ASSUME RepRecv
        PROVE  (RequestsMarked /\ ReadingOne /\ ReplyToRequester)'
    <2> DEFINE f == Head(repInbox)
    <2>1. repInbox # <<>> /\ repInbox' = Tail(repInbox) /\ state[Rep] = "recv"
      BY <1>3 DEF RepRecv
    <2>2. f.tag[1] = f.from /\ ~f.more
      BY <1>a, <2>1 DEF TracebackInv, RequestsMarked
    <2>3. reading' = {f.tag} /\ lastId' = f.from
      BY <1>3, <2>1 DEF RepRecv, TracebackInv, ReadingOne
    <2>4. state'[Rep] = "send"
      BY <1>a, <1>3, <2>2 DEF RepRecv, AfterRecv
    <2>5. RequestsMarked'
      BY <1>a, <2>1 DEF TracebackInv, RequestsMarked
    <2> QED BY <1>3, <2>2, <2>3, <2>4, <2>5
         DEF RepRecv, TracebackInv, ReadingOne, ReplyToRequester
  <1>4. ASSUME NEW more \in BOOLEAN, RepSend(more)
        PROVE  (RequestsMarked /\ ReadingOne /\ ReplyToRequester)'
    <2> DEFINE f == [answers |-> reading, more |-> more]
    <2>1. ~more
      BY <1>a, <1>4, NoMoreParts DEF RepSend
    <2>2. reading' = {}
      BY <1>4, <2>1 DEF RepSend
    <2>3. lastId \in Req /\ f \in Reply
      BY <1>a, <1>4 DEF RepSend, ReplyTo, TypeOK, Reply
    <2>4. reqInbox' = [reqInbox EXCEPT ![lastId] = Append(reqInbox[lastId], f)]
      BY <1>4 DEF RepSend, ReplyTo
    <2>5. \A tag \in f.answers : tag[1] = lastId
      BY DEF TracebackInv, ReadingOne
    <2>6. ReplyToRequester'
      <3> HIDE DEF f
      <3> SUFFICES ASSUME NEW r \in Req, NEW i \in 1 .. Len(reqInbox'[r]),
                          NEW tag \in reqInbox'[r][i].answers
                   PROVE  tag[1] = r
        BY DEF ReplyToRequester
      <3>1. CASE r # lastId
        BY <1>a, <2>3, <2>4, <3>1 DEF TracebackInv, ReplyToRequester
      <3>2. CASE r = lastId
        <4>1. reqInbox'[r] = Append(reqInbox[r], f) /\ reqInbox[r] \in Seq(Reply)
          BY <1>a, <2>3, <2>4, <3>2
        <4>2. CASE i \in 1 .. Len(reqInbox[r])
          BY <2>3, <4>1, <4>2 DEF TracebackInv, ReplyToRequester
        <4>3. CASE i = Len(reqInbox[r]) + 1
          BY <2>3, <2>5, <3>2, <4>1, <4>3
        <4> QED BY <2>3, <4>1, <4>2, <4>3
      <3> QED BY <3>1, <3>2
    <2> QED BY <1>4, <2>2, <2>6 DEF RepSend, TracebackInv, RequestsMarked, ReadingOne
  <1>5. ASSUME NEW r \in Req, ReqRecv(r)
        PROVE  (RequestsMarked /\ ReadingOne /\ ReplyToRequester)'
    <2>1. state'[Rep] = state[Rep]
      BY <1>a, <1>5 DEF ReqRecv, AfterRecv, Socket
    <2>2. /\ reqInbox' = [reqInbox EXCEPT ![r] = Tail(reqInbox[r])]
          /\ reqInbox[r] \in Seq(Reply) /\ reqInbox[r] # <<>>
      BY <1>a, <1>5 DEF ReqRecv
    <2>3. ReplyToRequester'
      BY <1>a, <2>2 DEF TracebackInv, ReplyToRequester
    <2> QED BY <1>5, <2>1, <2>3 DEF ReqRecv, TracebackInv, RequestsMarked, ReadingOne
  <1>6. CASE UNCHANGED vars
    BY <1>6 DEF vars, TracebackInv, RequestsMarked, ReadingOne, ReplyToRequester
  <1> QED BY <1>1, <1>2, <1>3, <1>4, <1>5, <1>6 DEF Next, ReqStep, RepStep

(* When requests are single frames, a reply is queued at the socket whose
   request it answers, although all requests share the REP's inbox and REQ
   sockets disconnect and come back in between. *)
THEOREM SinglePartTraceback ==
  ASSUME MaxParts = 1
  PROVE  Spec => []ReplyToRequester
  <1>1. Init => TracebackInv
    BY InitTypeOK DEF Init, TracebackInv, RequestsMarked, ReadingOne, ReplyToRequester
  <1>2. TracebackInv /\ [Next]_vars => TracebackInv'
    <2> SUFFICES ASSUME TracebackInv, [Next]_vars PROVE TracebackInv'
      OBVIOUS
    <2>1. TypeOK'
      BY TypeStep DEF TracebackInv
    <2>2. (RequestsMarked /\ ReadingOne /\ ReplyToRequester)'
      BY TracebackStep
    <2> QED BY <2>1, <2>2 DEF TracebackInv
  <1>3. TracebackInv => ReplyToRequester
    BY DEF TracebackInv
  <1> QED BY <1>1, <1>2, <1>3, PTL DEF Spec

-----------------------------------------------------------------------------
(* Counting the frames of a queue that are in W. *)
Where(q, W) == {i \in 1 .. Len(q) : q[i] \in W}

LEMMA WhereFinite ==
  ASSUME NEW S, NEW q \in Seq(S), NEW W
  PROVE  IsFiniteSet(Where(q, W)) /\ Cardinality(Where(q, W)) \in Nat
  <1>1. IsFiniteSet(1 .. Len(q))
    BY FS_Interval
  <1>2. Where(q, W) \in SUBSET (1 .. Len(q))
    BY DEF Where
  <1> QED BY <1>1, <1>2, FS_Subset, FS_CardinalityType

LEMMA CountAppend ==
  ASSUME NEW S, NEW q \in Seq(S), NEW f \in S, NEW W
  PROVE  Cardinality(Where(Append(q, f), W))
           = Cardinality(Where(q, W)) + (IF f \in W THEN 1 ELSE 0)
  <1>1. PICK n \in Nat : n = Len(q)
    OBVIOUS
  <1>2. /\ Len(Append(q, f)) = n + 1 /\ Append(q, f)[n + 1] = f
        /\ \A i \in 1 .. n : Append(q, f)[i] = q[i]
    BY <1>1
  <1>3. IsFiniteSet(Where(q, W)) /\ Cardinality(Where(q, W)) \in Nat
    BY WhereFinite
  <1>4. n + 1 \notin Where(q, W)
    BY <1>1 DEF Where
  <1>5. \A i : i \in 1 .. n + 1 <=> i \in 1 .. n \/ i = n + 1
    BY <1>1
  <1>6. CASE f \in W
    <2>1. Where(Append(q, f), W) = Where(q, W) \cup {n + 1}
      BY <1>1, <1>2, <1>5, <1>6 DEF Where
    <2> QED BY <1>3, <1>4, <1>6, <2>1, FS_AddElement
  <1>7. CASE f \notin W
    <2>1. Where(Append(q, f), W) = Where(q, W)
      BY <1>1, <1>2, <1>5, <1>7 DEF Where
    <2> QED BY <1>3, <1>7, <2>1
  <1> QED BY <1>6, <1>7

LEMMA CountTail ==
  ASSUME NEW S, NEW q \in Seq(S), q # <<>>, NEW W
  PROVE  Cardinality(Where(q, W))
           = Cardinality(Where(Tail(q), W)) + (IF Head(q) \in W THEN 1 ELSE 0)
  <1>1. PICK n \in Nat : n = Len(q)
    OBVIOUS
  <1>2. /\ n >= 1 /\ Head(q) = q[1] /\ Tail(q) \in Seq(S) /\ Len(Tail(q)) = n - 1
        /\ \A i \in 1 .. n - 1 : Tail(q)[i] = q[i + 1]
    BY <1>1
  <1> DEFINE A == Where(Tail(q), W)
             B == Where(q, W) \ {1}
             shift == [i \in A |-> i + 1]
  <1>3. /\ IsFiniteSet(A) /\ Cardinality(A) \in Nat
        /\ IsFiniteSet(Where(q, W)) /\ Cardinality(Where(q, W)) \in Nat
    BY <1>2, WhereFinite
  <1>4. \A i \in A : i \in 1 .. n - 1 /\ i + 1 \in B
    BY <1>1, <1>2 DEF Where
  <1>5. \A i \in B : i - 1 \in A /\ i - 1 + 1 = i
    <2> SUFFICES ASSUME NEW i \in B PROVE i - 1 \in A /\ i - 1 + 1 = i
      OBVIOUS
    <2>1. i \in 1 .. n /\ i # 1 /\ q[i] \in W
      BY <1>1 DEF Where
    <2>2. i - 1 \in 1 .. n - 1 /\ i - 1 + 1 = i
      BY <2>1
    <2>3. Tail(q)[i - 1] = q[i]
      BY <1>2, <2>2
    <2> QED BY <1>2, <2>1, <2>2, <2>3 DEF Where
  <1>6. shift \in Bijection(A, B)
    <2>1. shift \in [A -> B]
      BY <1>4
    <2>2. \A a, b \in A : a + 1 = b + 1 => a = b
      BY <1>4
    <2>3. IsInjective(shift)
      BY <2>2 DEF IsInjective
    <2>4. \A t \in B : \E s \in A : shift[s] = t
      BY <1>5
    <2> QED BY <2>1, <2>3, <2>4 DEF Bijection, Injection, Surjection
  <1>7. Cardinality(B) = Cardinality(A)
    BY <1>3, <1>6, FS_Bijection DEF ExistsBijection
  <1>8. Head(q) \in W <=> 1 \in Where(q, W)
    BY <1>1, <1>2 DEF Where
  <1> HIDE DEF A, B
  <1>9. Cardinality(B) = IF 1 \in Where(q, W) THEN Cardinality(Where(q, W)) - 1
                         ELSE Cardinality(Where(q, W))
    BY <1>3, FS_RemoveElement DEF B
  <1> QED BY <1>3, <1>7, <1>8, <1>9 DEF A

(* The last frames of the requests of r, and of replies. *)
FinalFrom(r) == {f \in Request : f.from = r /\ ~f.more}
FinalReply == {f \in Reply : ~f.more}

LEMMA FinalsAre ==
  /\ \A q \in Seq(Request), r \in Req :
       {i \in 1 .. Len(q) : q[i].from = r /\ ~q[i].more} = Where(q, FinalFrom(r))
  /\ \A q \in Seq(Reply) : {i \in 1 .. Len(q) : ~q[i].more} = Where(q, FinalReply)
  <1>1. ASSUME NEW q \in Seq(Request), NEW r \in Req
        PROVE  {i \in 1 .. Len(q) : q[i].from = r /\ ~q[i].more} = Where(q, FinalFrom(r))
    <2>1. \A i \in 1 .. Len(q) : q[i] \in Request
      OBVIOUS
    <2> QED BY <2>1 DEF Where, FinalFrom
  <1>2. ASSUME NEW q \in Seq(Reply)
        PROVE  {i \in 1 .. Len(q) : ~q[i].more} = Where(q, FinalReply)
    <2>1. \A i \in 1 .. Len(q) : q[i] \in Reply
      OBVIOUS
    <2> QED BY <2>1 DEF Where, FinalReply
  <1> QED BY <1>1, <1>2

LEMMA CountsAre ==
  ASSUME TypeOK, NEW r \in Req
  PROVE  /\ RequestsOf(r) = Cardinality(Where(repInbox, FinalFrom(r)))
         /\ RepliesTo(r) = Cardinality(Where(reqInbox[r], FinalReply))
         /\ RequestsOf(r) \in Nat /\ RepliesTo(r) \in Nat /\ ServedNow(r) \in {0, 1}
  <1>1. repInbox \in Seq(Request) /\ reqInbox[r] \in Seq(Reply)
    BY DEF TypeOK, Request, Reply
  <1>2. /\ Cardinality(Where(repInbox, FinalFrom(r))) \in Nat
        /\ Cardinality(Where(reqInbox[r], FinalReply)) \in Nat
    BY <1>1, WhereFinite
  <1> QED BY <1>1, <1>2, FinalsAre DEF RequestsOf, RepliesTo, ServedNow

LEMMA CountsAreNext ==
  ASSUME TypeOK', NEW r \in Req
  PROVE  /\ RequestsOf(r)' = Cardinality(Where(repInbox', FinalFrom(r)))
         /\ RepliesTo(r)' = Cardinality(Where(reqInbox'[r], FinalReply))
         /\ RequestsOf(r)' \in Nat /\ RepliesTo(r)' \in Nat /\ ServedNow(r)' \in {0, 1}
  <1>1. repInbox' \in Seq(Request) /\ reqInbox'[r] \in Seq(Reply)
    BY DEF TypeOK, Request, Reply
  <1>2. /\ Cardinality(Where(repInbox', FinalFrom(r))) \in Nat
        /\ Cardinality(Where(reqInbox'[r], FinalReply)) \in Nat
    BY <1>1, WhereFinite
  <1> QED BY <1>1, <1>2, FinalsAre DEF RequestsOf, RepliesTo, ServedNow

(***************************************************************************)
(* What each operation of a strict socket does to the counts.              *)
(***************************************************************************)
One(b) == IF b THEN 1 ELSE 0

LEMMA ReqSendCounts ==
  ASSUME TypeOK, TypeOK', ~Relaxed, NEW r \in Req, NEW more \in BOOLEAN, ReqSend(r, more),
         NEW t \in Req
  PROVE  /\ state[r] = "send" /\ state'[r] = (IF more THEN "send" ELSE "recv")
         /\ t # r => state'[t] = state[t]
         /\ RequestsOf(t)' = RequestsOf(t) + One(t = r /\ ~more)
         /\ ServedNow(t)' = ServedNow(t)
         /\ RepliesTo(t)' = RepliesTo(t)
  <1>1. state \in [Socket -> {"send", "recv"}] /\ r \in Socket /\ t \in Socket /\ Rep # r /\ Rep \in Socket
    BY ReqRepAssumption DEF TypeOK, Socket
  <1>2. state[r] = "send" /\ state' = AfterSend(r, more)
    BY ReqRepAssumption DEF ReqSend, CanSend
  <1>3. /\ state'[r] = (IF more THEN "send" ELSE "recv") /\ state'[Rep] = state[Rep]
        /\ t # r => state'[t] = state[t]
    BY <1>1, <1>2 DEF AfterSend
  <1>4. PICK f : f = [from |-> r, tag |-> <<r, TagOf(r)>>, more |-> more]
    OBVIOUS
  <1>5. f \in Request /\ f.from = r /\ f.more = more
    BY <1>4, TagOfType DEF Request, Tag
  <1>6. repInbox \in Seq(Request) /\ repInbox' = Append(repInbox, f)
    BY <1>4 DEF ReqSend, TypeOK, Request
  <1>7. f \in FinalFrom(t) <=> t = r /\ ~more
    BY <1>5 DEF FinalFrom
  <1>8. RequestsOf(t)' = Cardinality(Where(repInbox', FinalFrom(t)))
    BY CountsAreNext
  <1>9. Cardinality(Where(repInbox', FinalFrom(t)))
          = Cardinality(Where(repInbox, FinalFrom(t))) + (IF f \in FinalFrom(t) THEN 1 ELSE 0)
    BY <1>5, <1>6, CountAppend
  <1>10. RequestsOf(t)' = RequestsOf(t) + One(t = r /\ ~more)
    BY <1>7, <1>8, <1>9, CountsAre DEF One
  <1>11. reqInbox' = reqInbox /\ lastId' = lastId
    BY DEF ReqSend
  <1> QED BY <1>2, <1>3, <1>10, <1>11 DEF ServedNow, RepliesTo

LEMMA RepRecvCounts ==
  ASSUME TypeOK, TypeOK', RepRecv, NEW t \in Req, NEW f, f = Head(repInbox)
  PROVE  /\ f \in Request /\ lastId' = f.from
         /\ \A r \in Req : state'[r] = state[r]
         /\ state[Rep] = "recv" /\ state'[Rep] = (IF f.more THEN "recv" ELSE "send")
         /\ RequestsOf(t) = RequestsOf(t)' + One(t = f.from /\ ~f.more)
         /\ ServedNow(t) = 0 /\ ServedNow(t)' = One(t = f.from /\ ~f.more)
         /\ RepliesTo(t)' = RepliesTo(t)
  <1>1. /\ repInbox \in Seq(Request) /\ repInbox # <<>> /\ repInbox' = Tail(repInbox)
        /\ state' = AfterRecv(Rep, f.more) /\ lastId' = f.from /\ state[Rep] = "recv"
        /\ reqInbox' = reqInbox
    BY DEF RepRecv, TypeOK, Request
  <1>2. f \in Request
    BY <1>1
  <1>3. state \in [Socket -> {"send", "recv"}] /\ Rep \in Socket /\ \A r \in Req : r # Rep /\ r \in Socket
    BY ReqRepAssumption DEF TypeOK, Socket
  <1>4. state'[Rep] = (IF f.more THEN "recv" ELSE "send") /\ \A r \in Req : state'[r] = state[r]
    BY <1>1, <1>3 DEF AfterRecv
  <1>5. f \in FinalFrom(t) <=> t = f.from /\ ~f.more
    BY <1>2 DEF FinalFrom
  <1>6. RequestsOf(t)' = Cardinality(Where(repInbox', FinalFrom(t)))
    BY CountsAreNext
  <1>7. Cardinality(Where(repInbox, FinalFrom(t)))
          = Cardinality(Where(repInbox', FinalFrom(t))) + (IF f \in FinalFrom(t) THEN 1 ELSE 0)
    BY <1>1, CountTail
  <1>8. RequestsOf(t) = RequestsOf(t)' + One(t = f.from /\ ~f.more)
    BY <1>5, <1>6, <1>7, CountsAre DEF One
  <1>9. ServedNow(t) = 0 /\ ServedNow(t)' = One(t = f.from /\ ~f.more)
    BY <1>1, <1>4 DEF ServedNow, One
  <1> QED BY <1>1, <1>2, <1>4, <1>8, <1>9 DEF RepliesTo

LEMMA RepSendCounts ==
  ASSUME TypeOK, TypeOK', NEW more \in BOOLEAN, RepSend(more), NEW t \in Req
  PROVE  /\ lastId \in Req /\ lastId' = lastId /\ repInbox' = repInbox
         /\ reqInbox'[t] = IF t = lastId THEN Append(reqInbox[t], [answers |-> reading, more |-> more])
                           ELSE reqInbox[t]
         /\ \A r \in Req : state'[r] = state[r]
         /\ state[Rep] = "send" /\ state'[Rep] = (IF more THEN "send" ELSE "recv")
         /\ RequestsOf(t)' = RequestsOf(t)
         /\ ServedNow(t) = One(t = lastId) /\ ServedNow(t)' = One(t = lastId /\ more)
         /\ RepliesTo(t)' = RepliesTo(t) + One(t = lastId /\ ~more)
  <1>1. state[Rep] = "send" /\ state' = AfterSend(Rep, more) /\ lastId' = lastId /\ repInbox' = repInbox
    BY DEF RepSend, CanSend
  <1>2. lastId \in Req
    BY DEF RepSend, ReplyTo, TypeOK
  <1>3. PICK f : f = [answers |-> reading, more |-> more]
    OBVIOUS
  <1>4. f \in Reply /\ f.more = more
    BY <1>3 DEF Reply, TypeOK
  <1>5. reqInbox \in [Req -> Seq(Reply)]
    BY DEF TypeOK, Reply
  <1>6. reqInbox' = [reqInbox EXCEPT ![lastId] = Append(reqInbox[lastId], f)]
    BY <1>3 DEF RepSend, ReplyTo
  <1>7. reqInbox'[t] = IF t = lastId THEN Append(reqInbox[t], f) ELSE reqInbox[t]
    BY <1>2, <1>5, <1>6
  <1>8. state \in [Socket -> {"send", "recv"}] /\ Rep \in Socket /\ \A r \in Req : r # Rep /\ r \in Socket
    BY ReqRepAssumption DEF TypeOK, Socket
  <1>9. state'[Rep] = (IF more THEN "send" ELSE "recv") /\ \A r \in Req : state'[r] = state[r]
    BY <1>1, <1>8 DEF AfterSend
  <1>10. f \in FinalReply <=> ~more
    BY <1>4 DEF FinalReply
  <1>11. RepliesTo(t)' = Cardinality(Where(reqInbox'[t], FinalReply))
    BY CountsAreNext
  <1>12. RepliesTo(t)' = RepliesTo(t) + One(t = lastId /\ ~more)
    <2>1. CASE t = lastId
      <3>1. reqInbox[t] \in Seq(Reply)
        BY <1>5
      <3>2. Cardinality(Where(Append(reqInbox[t], f), FinalReply))
              = Cardinality(Where(reqInbox[t], FinalReply)) + (IF f \in FinalReply THEN 1 ELSE 0)
        BY <1>4, <3>1, CountAppend
      <3> QED BY <1>7, <1>10, <1>11, <2>1, <3>2, CountsAre DEF One
    <2>2. CASE t # lastId
      BY <1>7, <1>11, <2>2, CountsAre DEF One
    <2> QED BY <2>1, <2>2
  <1>13. ServedNow(t) = One(t = lastId) /\ ServedNow(t)' = One(t = lastId /\ more)
    BY <1>1, <1>9 DEF ServedNow, One
  <1> QED BY <1>1, <1>2, <1>3, <1>7, <1>9, <1>12, <1>13 DEF RequestsOf

LEMMA ReqRecvCounts ==
  ASSUME TypeOK, TypeOK', NEW r \in Req, ReqRecv(r), NEW t \in Req, NEW f, f = Head(reqInbox[r])
  PROVE  /\ f \in Reply
         /\ state[r] = "recv" /\ state'[r] = (IF f.more THEN "recv" ELSE "send")
         /\ t # r => state'[t] = state[t]
         /\ reqInbox'[t] = (IF t = r THEN Tail(reqInbox[t]) ELSE reqInbox[t])
         /\ RequestsOf(t)' = RequestsOf(t)
         /\ ServedNow(t)' = ServedNow(t)
         /\ RepliesTo(t) = RepliesTo(t)' + One(t = r /\ ~f.more)
  <1>1. /\ reqInbox \in [Req -> Seq(Reply)] /\ reqInbox[r] \in Seq(Reply) /\ reqInbox[r] # <<>>
        /\ reqInbox' = [reqInbox EXCEPT ![r] = Tail(reqInbox[r])]
        /\ state' = AfterRecv(r, f.more) /\ state[r] = "recv"
        /\ repInbox' = repInbox /\ lastId' = lastId
    BY DEF ReqRecv, TypeOK, Reply
  <1>2. f \in Reply
    BY <1>1
  <1>3. state \in [Socket -> {"send", "recv"}] /\ r \in Socket /\ t \in Socket /\ Rep # r /\ Rep \in Socket
    BY ReqRepAssumption DEF TypeOK, Socket
  <1>4. /\ state'[r] = (IF f.more THEN "recv" ELSE "send") /\ state'[Rep] = state[Rep]
        /\ t # r => state'[t] = state[t]
    BY <1>1, <1>3 DEF AfterRecv
  <1>5. reqInbox'[t] = IF t = r THEN Tail(reqInbox[t]) ELSE reqInbox[t]
    BY <1>1
  <1>6. f \in FinalReply <=> ~f.more
    BY <1>2 DEF FinalReply
  <1>7. RepliesTo(t)' = Cardinality(Where(reqInbox'[t], FinalReply))
    BY CountsAreNext
  <1>8. RepliesTo(t) = RepliesTo(t)' + One(t = r /\ ~f.more)
    <2>1. CASE t = r
      <3>1. Cardinality(Where(reqInbox[t], FinalReply))
              = Cardinality(Where(Tail(reqInbox[t]), FinalReply)) + (IF f \in FinalReply THEN 1 ELSE 0)
        BY <1>1, <2>1, CountTail
      <3> QED BY <1>5, <1>6, <1>7, <2>1, <3>1, CountsAre DEF One
    <2>2. CASE t # r
      BY <1>5, <1>7, <2>2, CountsAre DEF One
    <2> QED BY <2>1, <2>2
  <1> QED BY <1>1, <1>2, <1>4, <1>5, <1>8 DEF ServedNow, RequestsOf

-----------------------------------------------------------------------------
(* What a REQ r has under way.  The final frame of the latest request, and
   every frame of the reply to it, is about that request ... *)
LatestOf(r) ==
  /\ \A i \in 1 .. Len(repInbox) :
       repInbox[i].from = r /\ ~repInbox[i].more => repInbox[i].tag = <<r, asked[r]>>
  /\ state[Rep] = "send" /\ lastId = r => <<r, asked[r]>> \in reading
  /\ state[r] = "recv" =>
       \A i \in 1 .. Len(reqInbox[r]) : <<r, asked[r]>> \in reqInbox[r][i].answers

(* ... and nothing comes after the reply. *)
NothingLeft(r) ==
  /\ state[r] = "send" => reqInbox[r] = <<>>
  /\ \A i \in 1 .. Len(reqInbox[r]) : ~reqInbox[r][i].more => i = Len(reqInbox[r])

(***************************************************************************)
(* The inductive invariant of strict REQ sockets.  OneOutstanding is       *)
(* inductive by itself; LatestAnswered is not: that the reply at the head  *)
(* of an inbox is about the latest request depends on where the request    *)
(* and the reply were before, and on nothing being left of earlier ones.   *)
(***************************************************************************)
StrictInv ==
  /\ TypeOK
  /\ OneOutstanding
  /\ ~Relaxed => \A r \in Req : LatestOf(r) /\ NothingLeft(r)

LEMMA OneOutstandingStep ==
  ASSUME TypeOK, TypeOK', OneOutstanding, [Next]_vars
  PROVE  OneOutstanding'
  <1> SUFFICES ASSUME ~Relaxed, NEW t \in Req
               PROVE  RequestsOf(t)' + ServedNow(t)' + RepliesTo(t)'
                        = IF state'[t] = "recv" THEN 1 ELSE 0
    BY DEF OneOutstanding
  <1>1. RequestsOf(t) + ServedNow(t) + RepliesTo(t) = IF state[t] = "recv" THEN 1 ELSE 0
    BY DEF OneOutstanding
  <1>2. /\ RequestsOf(t) \in Nat /\ ServedNow(t) \in {0, 1} /\ RepliesTo(t) \in Nat
        /\ RequestsOf(t)' \in Nat /\ ServedNow(t)' \in {0, 1} /\ RepliesTo(t)' \in Nat
    BY CountsAre, CountsAreNext
  <1>3. ASSUME NEW r \in Req, Connect(r) \/ Disconnect(r)
        PROVE  RequestsOf(t)' + ServedNow(t)' + RepliesTo(t)' = IF state'[t] = "recv" THEN 1 ELSE 0
    BY <1>1, <1>3 DEF Connect, Disconnect, RequestsOf, ServedNow, RepliesTo
  <1>4. ASSUME NEW r \in Req, NEW more \in BOOLEAN, ReqSend(r, more)
        PROVE  RequestsOf(t)' + ServedNow(t)' + RepliesTo(t)' = IF state'[t] = "recv" THEN 1 ELSE 0
    <2>1. /\ state[r] = "send" /\ state'[r] = (IF more THEN "send" ELSE "recv")
          /\ t # r => state'[t] = state[t]
          /\ RequestsOf(t)' = RequestsOf(t) + One(t = r /\ ~more)
          /\ ServedNow(t)' = ServedNow(t)
          /\ RepliesTo(t)' = RepliesTo(t)
      BY <1>4, ReqSendCounts
    <2>2. CASE t = r /\ ~more
      BY <1>1, <1>2, <2>1, <2>2 DEF One
    <2>3. CASE ~(t = r /\ ~more)
      BY <1>1, <1>2, <2>1, <2>3 DEF One
    <2> QED BY <2>2, <2>3
  <1>5. CASE RepRecv
    <2>1. PICK f : f = Head(repInbox)
      OBVIOUS
    <2>2. /\ state'[t] = state[t]
          /\ RequestsOf(t) = RequestsOf(t)' + One(t = f.from /\ ~f.more)
          /\ ServedNow(t) = 0 /\ ServedNow(t)' = One(t = f.from /\ ~f.more)
          /\ RepliesTo(t)' = RepliesTo(t)
      BY <1>5, <2>1, RepRecvCounts
    <2> QED BY <1>1, <1>2, <2>2
  <1>6. ASSUME NEW more \in BOOLEAN, RepSend(more)
        PROVE  RequestsOf(t)' + ServedNow(t)' + RepliesTo(t)' = IF state'[t] = "recv" THEN 1 ELSE 0
    <2>1. /\ state'[t] = state[t]
          /\ RequestsOf(t)' = RequestsOf(t)
          /\ ServedNow(t) = One(t = lastId) /\ ServedNow(t)' = One(t = lastId /\ more)
          /\ RepliesTo(t)' = RepliesTo(t) + One(t = lastId /\ ~more)
      BY <1>6, RepSendCounts
    <2>2. One(t = lastId) = One(t = lastId /\ more) + One(t = lastId /\ ~more)
      BY DEF One
    <2>3. One(t = lastId /\ more) \in Nat /\ One(t = lastId /\ ~more) \in Nat
      BY DEF One
    <2> QED BY <1>1, <1>2, <2>1, <2>2, <2>3
  <1>7. ASSUME NEW r \in Req, ReqRecv(r)
        PROVE  RequestsOf(t)' + ServedNow(t)' + RepliesTo(t)' = IF state'[t] = "recv" THEN 1 ELSE 0
    <2>1. PICK f : f = Head(reqInbox[r])
      OBVIOUS
    <2>2. /\ state[r] = "recv" /\ state'[r] = (IF f.more THEN "recv" ELSE "send")
          /\ t # r => state'[t] = state[t]
          /\ RequestsOf(t)' = RequestsOf(t)
          /\ ServedNow(t)' = ServedNow(t)
          /\ RepliesTo(t) = RepliesTo(t)' + One(t = r /\ ~f.more)
      BY <1>7, <2>1, ReqRecvCounts
    <2>3. CASE t = r /\ ~f.more
      BY <1>1, <1>2, <2>2, <2>3 DEF One
    <2>4. CASE ~(t = r /\ ~f.more)
      BY <1>1, <1>2, <2>2, <2>4 DEF One
    <2> QED BY <2>3, <2>4
  <1>8. CASE UNCHANGED vars
    BY <1>1, <1>8 DEF vars, RequestsOf, ServedNow, RepliesTo
  <1> QED BY <1>3, <1>4, <1>5, <1>6, <1>7, <1>8 DEF Next, ReqStep, RepStep

(* What OneOutstanding says about a socket whose turn it is to send, and
   about one whose request is being answered. *)
LEMMA Exclusive ==
  ASSUME TypeOK, OneOutstanding, ~Relaxed, NEW r \in Req
  PROVE  /\ state[r] = "send" =>
              /\ \A i \in 1 .. Len(repInbox) : ~(repInbox[i].from = r /\ ~repInbox[i].more)
              /\ ~(state[Rep] = "send" /\ lastId = r)
         /\ state[Rep] = "send" /\ lastId = r =>
              /\ state[r] = "recv"
              /\ \A i \in 1 .. Len(reqInbox[r]) : reqInbox[r][i].more
  <1>1. RequestsOf(r) + ServedNow(r) + RepliesTo(r) = IF state[r] = "recv" THEN 1 ELSE 0
    BY DEF OneOutstanding
  <1>2. /\ RequestsOf(r) \in Nat /\ ServedNow(r) \in {0, 1} /\ RepliesTo(r) \in Nat
        /\ RequestsOf(r) = Cardinality(Where(repInbox, FinalFrom(r)))
        /\ RepliesTo(r) = Cardinality(Where(reqInbox[r], FinalReply))
    BY CountsAre
  <1>3. repInbox \in Seq(Request) /\ reqInbox[r] \in Seq(Reply)
    BY DEF TypeOK, Request, Reply
  <1>4. IsFiniteSet(Where(repInbox, FinalFrom(r))) /\ IsFiniteSet(Where(reqInbox[r], FinalReply))
    BY <1>3, WhereFinite
  <1>5. RequestsOf(r) = 0 =>
          \A i \in 1 .. Len(repInbox) : ~(repInbox[i].from = r /\ ~repInbox[i].more)
    <2>1. RequestsOf(r) = 0 => Where(repInbox, FinalFrom(r)) = {}
      BY <1>2, <1>4, FS_EmptySet
    <2>2. Where(repInbox, FinalFrom(r))
            = {i \in 1 .. Len(repInbox) : repInbox[i].from = r /\ ~repInbox[i].more}
      BY <1>3, FinalsAre
    <2> QED BY <2>1, <2>2
  <1>6. RepliesTo(r) = 0 => \A i \in 1 .. Len(reqInbox[r]) : reqInbox[r][i].more
    <2>1. RepliesTo(r) = 0 => Where(reqInbox[r], FinalReply) = {}
      BY <1>2, <1>4, FS_EmptySet
    <2>2. Where(reqInbox[r], FinalReply) = {i \in 1 .. Len(reqInbox[r]) : ~reqInbox[r][i].more}
      BY <1>3, FinalsAre
    <2> QED BY <2>1, <2>2
  <1>7. ASSUME state[r] = "send" PROVE RequestsOf(r) = 0 /\ ServedNow(r) = 0
    BY <1>1, <1>2, <1>7
  <1>8. ASSUME state[Rep] = "send" /\ lastId = r PROVE state[r] = "recv" /\ RepliesTo(r) = 0
    <2>1. ServedNow(r) = 1
      BY <1>8 DEF ServedNow
    <2>2. state[r] \in {"send", "recv"}
      BY DEF TypeOK
    <2> QED BY <1>1, <1>2, <2>1, <2>2
  <1>9. state[r] = "send" => ~(state[Rep] = "send" /\ lastId = r)
    BY <1>8
  <1> QED BY <1>5, <1>6, <1>7, <1>8, <1>9

LEMMA LatestStep ==
  ASSUME StrictInv, ~Relaxed, TypeOK', [Next]_vars, NEW t \in Req
  PROVE  LatestOf(t)' /\ NothingLeft(t)'
  <1>1. TypeOK /\ OneOutstanding /\ LatestOf(t) /\ NothingLeft(t)
    BY DEF StrictInv
  <1>2. repInbox \in Seq(Request) /\ reqInbox \in [Req -> Seq(Reply)] /\ reqInbox[t] \in Seq(Reply)
    BY <1>1 DEF TypeOK, Request, Reply
  <1>3. ASSUME NEW r \in Req, Connect(r) \/ Disconnect(r) PROVE LatestOf(t)' /\ NothingLeft(t)'
    BY <1>1, <1>3 DEF Connect, Disconnect, LatestOf, NothingLeft
  <1>4. ASSUME NEW r \in Req, NEW more \in BOOLEAN, ReqSend(r, more)
        PROVE  LatestOf(t)' /\ NothingLeft(t)'
    <2>1. /\ state[r] = "send" /\ state'[r] = (IF more THEN "send" ELSE "recv")
          /\ t # r => state'[t] = state[t]
      BY <1>1, <1>4, ReqSendCounts
    <2>2. reqInbox' = reqInbox /\ lastId' = lastId /\ reading' = reading
      BY <1>4 DEF ReqSend
    <2>3. state'[Rep] = state[Rep]
      BY <1>1, <1>4, ReqRepAssumption DEF ReqSend, AfterSend, TypeOK
    <2>4. PICK f : f = [from |-> r, tag |-> <<r, TagOf(r)>>, more |-> more]
      OBVIOUS
    <2>5. f \in Request /\ f.from = r /\ f.more = more /\ f.tag = <<r, TagOf(r)>>
      BY <1>1, <2>4, TagOfType DEF Request, Tag
    <2>6. PICK n \in Nat : n = Len(repInbox)
      BY <1>2
    <2>7. repInbox' = Append(repInbox, f)
      BY <1>4, <2>4 DEF ReqSend
    <2>8. Len(repInbox') = n + 1 /\ repInbox'[n + 1] = f /\ \A i \in 1 .. n : repInbox'[i] = repInbox[i]
      BY <1>2, <2>5, <2>6, <2>7
    <2>9. asked'[r] = TagOf(r) /\ (t # r => asked'[t] = asked[t])
      BY <1>1, <1>4 DEF ReqSend, TypeOK
    <2>10. \A i \in 1 .. n + 1 : i \in 1 .. n \/ i = n + 1
      BY <2>6
    <2>11. CASE t # r
      <3>1. \A i \in 1 .. Len(repInbox') : repInbox'[i].from = t /\ ~repInbox'[i].more =>
              repInbox'[i].tag = <<t, asked'[t]>>
        BY <1>1, <2>5, <2>6, <2>8, <2>9, <2>10, <2>11 DEF LatestOf
      <3>2. LatestOf(t)'
        BY <1>1, <2>1, <2>2, <2>3, <2>9, <2>11, <3>1 DEF LatestOf
      <3> QED BY <1>1, <2>1, <2>2, <2>11, <3>2 DEF NothingLeft
    <2>12. CASE t = r
      <3>1. /\ \A i \in 1 .. Len(repInbox) : ~(repInbox[i].from = r /\ ~repInbox[i].more)
            /\ ~(state[Rep] = "send" /\ lastId = r)
        BY <1>1, <2>1, Exclusive
      <3>2. \A i \in 1 .. Len(repInbox') : repInbox'[i].from = r /\ ~repInbox'[i].more =>
              repInbox'[i].tag = <<r, asked'[r]>>
        BY <2>5, <2>6, <2>8, <2>9, <2>10, <3>1
      <3>3. reqInbox[r] = <<>>
        BY <1>1, <2>1, <2>12 DEF NothingLeft
      <3>4. 1 .. Len(reqInbox'[r]) = {}
        BY <2>2, <3>3
      <3> QED BY <2>2, <2>3, <2>12, <3>1, <3>2, <3>3, <3>4 DEF LatestOf, NothingLeft
    <2> QED BY <2>11, <2>12
  <1>5. CASE RepRecv
    <2>1. PICK f : f = Head(repInbox)
      OBVIOUS
    <2>2. /\ f \in Request /\ lastId' = f.from /\ state'[t] = state[t]
          /\ state[Rep] = "recv" /\ state'[Rep] = (IF f.more THEN "recv" ELSE "send")
      BY <1>1, <1>5, <2>1, RepRecvCounts
    <2>3. /\ repInbox # <<>> /\ repInbox' = Tail(repInbox) /\ f.tag \in reading'
          /\ reqInbox' = reqInbox /\ asked' = asked
      BY <1>5, <2>1 DEF RepRecv
    <2>4. PICK n \in Nat : n = Len(repInbox)
      BY <1>2
    <2>5. /\ n >= 1 /\ f = repInbox[1] /\ Len(repInbox') = n - 1
          /\ \A i \in 1 .. n - 1 : repInbox'[i] = repInbox[i + 1]
      BY <1>2, <2>1, <2>3, <2>4
    <2>6. 1 \in 1 .. n /\ \A i \in 1 .. n - 1 : i + 1 \in 1 .. n
      BY <2>4, <2>5
    <2>7. \A i \in 1 .. Len(repInbox') : repInbox'[i].from = t /\ ~repInbox'[i].more =>
            repInbox'[i].tag = <<t, asked'[t]>>
      BY <1>1, <2>3, <2>4, <2>5, <2>6 DEF LatestOf
    <2>8. state'[Rep] = "send" /\ lastId' = t => <<t, asked'[t]>> \in reading'
      <3> SUFFICES ASSUME state'[Rep] = "send", lastId' = t PROVE <<t, asked'[t]>> \in reading'
        OBVIOUS
      <3>1. ~f.more /\ f.from = t
        BY <2>2
      <3>2. f.tag = <<t, asked[t]>>
        BY <1>1, <2>4, <2>5, <2>6, <3>1 DEF LatestOf
      <3> QED BY <2>3, <3>2
    <2> QED BY <1>1, <2>2, <2>3, <2>7, <2>8 DEF LatestOf, NothingLeft
  <1>6. ASSUME NEW more \in BOOLEAN, RepSend(more) PROVE LatestOf(t)' /\ NothingLeft(t)'
    <2>1. PICK f : f = [answers |-> reading, more |-> more]
      OBVIOUS
    <2>2. f \in Reply /\ f.answers = reading /\ f.more = more
      BY <1>1, <2>1 DEF Reply, TypeOK
    <2>3. /\ lastId' = lastId /\ repInbox' = repInbox /\ state'[t] = state[t]
          /\ reqInbox'[t] = IF t = lastId THEN Append(reqInbox[t], f) ELSE reqInbox[t]
          /\ state[Rep] = "send" /\ state'[Rep] = (IF more THEN "send" ELSE "recv")
      BY <1>1, <1>6, <2>1, RepSendCounts
    <2>4. asked' = asked /\ (more => reading' = reading)
      BY <1>6 DEF RepSend
    <2>5. CASE t # lastId
      BY <1>1, <2>3, <2>4, <2>5 DEF LatestOf, NothingLeft
    <2>6. CASE t = lastId
      <3>1. state[t] = "recv" /\ \A i \in 1 .. Len(reqInbox[t]) : reqInbox[t][i].more
        BY <1>1, <2>3, <2>6, Exclusive
      <3>2. <<t, asked[t]>> \in reading
        BY <1>1, <2>3, <2>6 DEF LatestOf
      <3>3. PICK n \in Nat : n = Len(reqInbox[t])
        BY <1>2
      <3>4. /\ Len(reqInbox'[t]) = n + 1 /\ reqInbox'[t][n + 1] = f
            /\ \A i \in 1 .. n : reqInbox'[t][i] = reqInbox[t][i]
        BY <1>2, <2>2, <2>3, <2>6, <3>3
      <3>5. \A i \in 1 .. n + 1 : i \in 1 .. n \/ i = n + 1
        BY <3>3
      <3>6. \A i \in 1 .. Len(reqInbox'[t]) : <<t, asked'[t]>> \in reqInbox'[t][i].answers
        BY <1>1, <2>2, <2>4, <3>1, <3>2, <3>3, <3>4, <3>5 DEF LatestOf
      <3>7. \A i \in 1 .. Len(reqInbox'[t]) : ~reqInbox'[t][i].more => i = Len(reqInbox'[t])
        BY <3>1, <3>3, <3>4, <3>5
      <3>8. LatestOf(t)'
        BY <1>1, <2>3, <2>4, <3>2, <3>6 DEF LatestOf
      <3> QED BY <2>3, <3>1, <3>7, <3>8 DEF NothingLeft
    <2> QED BY <2>5, <2>6
  <1>7. ASSUME NEW r \in Req, ReqRecv(r) PROVE LatestOf(t)' /\ NothingLeft(t)'
    <2>1. PICK f : f = Head(reqInbox[r])
      OBVIOUS
    <2>2. /\ f \in Reply
          /\ state[r] = "recv" /\ state'[r] = (IF f.more THEN "recv" ELSE "send")
          /\ t # r => state'[t] = state[t]
          /\ reqInbox'[t] = (IF t = r THEN Tail(reqInbox[t]) ELSE reqInbox[t])
      BY <1>1, <1>7, <2>1, ReqRecvCounts
    <2>3. /\ reqInbox[r] # <<>> /\ repInbox' = repInbox /\ lastId' = lastId
          /\ asked' = asked /\ reading' = reading
      BY <1>7 DEF ReqRecv
    <2>4. state'[Rep] = state[Rep]
      BY <1>1, <1>7, ReqRepAssumption DEF ReqRecv, AfterRecv, TypeOK
    <2>5. CASE t # r
      BY <1>1, <2>2, <2>3, <2>4, <2>5 DEF LatestOf, NothingLeft
    <2>6. CASE t = r
      <3>1. PICK n \in Nat : n = Len(reqInbox[t])
        BY <1>2
      <3>2. /\ n >= 1 /\ f = reqInbox[t][1] /\ reqInbox'[t] = Tail(reqInbox[t])
            /\ Len(reqInbox'[t]) = n - 1
            /\ \A i \in 1 .. n - 1 : reqInbox'[t][i] = reqInbox[t][i + 1]
        BY <1>2, <2>1, <2>2, <2>3, <2>6, <3>1
      <3>3. 1 \in 1 .. n /\ \A i \in 1 .. n - 1 : i + 1 \in 1 .. n /\ (i + 1 = n => i = n - 1)
        BY <3>1, <3>2
      <3>4. \A i \in 1 .. Len(reqInbox'[t]) : <<t, asked'[t]>> \in reqInbox'[t][i].answers
        BY <1>1, <2>2, <2>3, <2>6, <3>1, <3>2, <3>3 DEF LatestOf
      <3>5. \A i \in 1 .. Len(reqInbox'[t]) : ~reqInbox'[t][i].more => i = Len(reqInbox'[t])
        BY <1>1, <3>1, <3>2, <3>3 DEF NothingLeft
      <3>6. state'[t] = "send" => reqInbox'[t] = <<>>
        <4> SUFFICES ASSUME state'[t] = "send" PROVE reqInbox'[t] = <<>>
          OBVIOUS
        <4>1. ~f.more
          BY <2>2, <2>6
        <4>2. n = 1
          BY <1>1, <3>1, <3>2, <3>3, <4>1 DEF NothingLeft
        <4>3. Len(reqInbox'[t]) = 0 /\ reqInbox'[t] \in Seq(Reply)
          BY <1>2, <2>3, <2>6, <3>2, <4>2
        <4> QED BY <4>3
      <3> QED BY <1>1, <2>3, <2>4, <3>4, <3>5, <3>6 DEF LatestOf, NothingLeft
    <2> QED BY <2>5, <2>6
  <1>8. CASE UNCHANGED vars
    BY <1>1, <1>8 DEF vars, LatestOf, NothingLeft
  <1> QED BY <1>3, <1>4, <1>5, <1>6, <1>7, <1>8 DEF Next, ReqStep, RepStep

LEMMA InitStrict == ASSUME Init PROVE StrictInv
  <1>1. TypeOK
    BY InitTypeOK
  <1>2. ASSUME NEW r \in Req
        PROVE  /\ repInbox = <<>> /\ reqInbox[r] = <<>> /\ state[r] = "send" /\ state[Rep] = "recv"
               /\ 1 .. Len(repInbox) = {} /\ 1 .. Len(reqInbox[r]) = {}
    <2>1. repInbox = <<>> /\ reqInbox[r] = <<>> /\ state[r] = "send" /\ state[Rep] = "recv"
      BY ReqRepAssumption DEF Init
    <2>2. Len(repInbox) = 0 /\ Len(reqInbox[r]) = 0
      BY <2>1
    <2> QED BY <2>1, <2>2
  <1>3. \A r \in Req : LatestOf(r) /\ NothingLeft(r)
    BY <1>2 DEF LatestOf, NothingLeft
  <1>4. ASSUME NEW r \in Req PROVE RequestsOf(r) = 0 /\ ServedNow(r) = 0 /\ RepliesTo(r) = 0
    <2>1. /\ {i \in 1 .. Len(repInbox) : repInbox[i].from = r /\ ~repInbox[i].more} = {}
          /\ {i \in 1 .. Len(reqInbox[r]) : ~reqInbox[r][i].more} = {}
      BY <1>2
    <2> QED BY <1>2, <2>1, FS_EmptySet DEF RequestsOf, ServedNow, RepliesTo
  <1>5. OneOutstanding
    BY <1>2, <1>4 DEF OneOutstanding
  <1> QED BY <1>1, <1>3, <1>5 DEF StrictInv

(* StrictInv is an invariant. *)
THEOREM AlwaysStrict == Spec => []StrictInv
  <1>1. Init => StrictInv
    BY InitStrict
  <1>2. StrictInv /\ [Next]_vars => StrictInv'
    <2> SUFFICES ASSUME StrictInv, [Next]_vars PROVE StrictInv'
      OBVIOUS
    <2>1. TypeOK /\ OneOutstanding /\ TypeOK'
      BY TypeStep DEF StrictInv
    <2>2. OneOutstanding'
      BY <2>1, OneOutstandingStep
    <2>3. ~Relaxed => \A r \in Req : LatestOf(r)' /\ NothingLeft(r)'
      BY <2>1, LatestStep
    <2> QED BY <2>1, <2>2, <2>3 DEF StrictInv
  <1> QED BY <1>1, <1>2, PTL DEF Spec

(* A strict REQ that waits has exactly one request under way and one whose
   turn it is has none, for any number of sockets that come and go and
   messages of any number of frames: nothing is lost or answered twice
   between ensure_can_send_for_pattern and after_pattern_recv. *)
THEOREM AlwaysOneOutstanding == Spec => []OneOutstanding
  <1>1. StrictInv => OneOutstanding
    BY DEF StrictInv
  <1> QED BY <1>1, AlwaysStrict, PTL

(* The reply that a strict REQ finds in its inbox answers the request it
   sent last, whatever it left behind when it disconnected. *)
THEOREM LatestAlwaysAnswered == Spec => []LatestAnswered
  <1>1. ASSUME StrictInv PROVE LatestAnswered
    <2> SUFFICES ASSUME ~Relaxed, NEW r \in Req, state[r] = "recv", reqInbox[r] # <<>>
                 PROVE  <<r, asked[r]>> \in Head(reqInbox[r]).answers
      BY DEF LatestAnswered
    <2>1. LatestOf(r) /\ reqInbox[r] \in Seq(Reply)
      BY <1>1 DEF StrictInv, TypeOK, Reply
    <2>2. 1 \in 1 .. Len(reqInbox[r]) /\ Head(reqInbox[r]) = reqInbox[r][1]
      BY <2>1
    <2> QED BY <2>1, <2>2 DEF LatestOf
  <1> QED BY <1>1, AlwaysStrict, PTL
=============================================================================
