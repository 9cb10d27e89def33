--------------------------- MODULE DeliveryProofs ---------------------------
(***************************************************************************)
(* What is proved, for every value of the constants, about the way of a    *)
(* message to the sockets it is for: the subscription table that selects   *)
(* publications (SubscriptionState), the distribution of a publication     *)
(* (Distribution), requests to the ZAP handler (ZapAuth) and answers by    *)
(* routing id (Routing), the last three as parts of MCDelivery.            *)
(***************************************************************************)
EXTENDS SubscriptionState, MCDelivery, SequenceTheorems, FiniteSetTheorems, TLAPS

-----------------------------------------------------------------------------
(* The subscription table.  For every alphabet, every set of topics and    *)
(* every message, its caches agree with its reference counts, and matching *)
(* by first byte, length and exact lookup is matching by prefix.           *)

(* The inductive invariant: the caches are determined by the counts. *)
IInv == TypeOK /\ CachesAgree

(* Adding a topic adds its first byte and nothing else. *)
LEMMA FirstBytesOfUnion ==
  ASSUME NEW S, NEW t
  PROVE  FirstBytesOf(S \cup {t}) = FirstBytesOf(S) \cup FirstByte(t)
  BY DEF FirstBytesOf

(* The table's first bytes are bytes of the alphabet. *)
LEMMA FirstBytesAreBytes ==
  ASSUME NEW S \in SUBSET Topic
  PROVE  FirstBytesOf(S) \subseteq Byte
  <1>1. SUFFICES ASSUME NEW t \in S, t # <<>>
                 PROVE  t[1] \in Byte
    BY DEF FirstBytesOf, FirstByte
  <1>2. t \in Seq(Byte)
    BY ByteStringAssumption
  <1> QED BY <1>1, <1>2

(* Cutting a message at the length of one of its prefixes yields that prefix,
   and what is cut off a message is a prefix of it. *)
LEMMA CutIsPrefix ==
  ASSUME NEW d \in Seq(Byte), NEW t \in Seq(Byte)
  PROVE  StartsWith(d, t) <=> Len(t) <= Len(d) /\ SubSeq(d, 1, Len(t)) = t
  <1>1. ASSUME Len(t) <= Len(d)
        PROVE  /\ Len(SubSeq(d, 1, Len(t))) = Len(t)
               /\ \A i \in 1 .. Len(t) : SubSeq(d, 1, Len(t))[i] = d[i]
               /\ SubSeq(d, 1, Len(t)) \in Seq(Byte)
    BY <1>1
  <1>2. ASSUME StartsWith(d, t)
        PROVE  SubSeq(d, 1, Len(t)) = t
    BY <1>1, <1>2 DEF StartsWith
  <1>3. ASSUME Len(t) <= Len(d), SubSeq(d, 1, Len(t)) = t
        PROVE  StartsWith(d, t)
    BY <1>1, <1>3 DEF StartsWith
  <1> QED BY <1>2, <1>3 DEF StartsWith

-----------------------------------------------------------------------------
LEMMA InitIInv == Init => IInv
  <1> SUFFICES ASSUME Init PROVE IInv
    OBVIOUS
  <1>1. TypeOK
    BY DEF Init, TypeOK
  <1>2. Subscribed = {}
    BY DEF Init, Subscribed
  <1>3. FirstBytesOf({}) = {} /\ LengthsOf({}) = {}
    BY DEF FirstBytesOf, LengthsOf
  <1>4. CachesAgree
    BY <1>2, <1>3 DEF Init, CachesAgree
  <1> QED BY <1>1, <1>4 DEF IInv

(* The set of subscribed topics after a count moves between 0 and 1. *)
LEMMA SubscribedAdds ==
  ASSUME TypeOK, NEW t \in Topic, exact[t] = 0,
         exact' = [exact EXCEPT ![t] = 1]
  PROVE  Subscribed' = Subscribed \cup {t}
  BY DEF TypeOK, Subscribed

LEMMA SubscribedDrops ==
  ASSUME TypeOK, NEW t \in Topic, exact[t] = 1,
         exact' = [exact EXCEPT ![t] = 0]
  PROVE  Subscribed' = Subscribed \ {t}
  BY DEF TypeOK, Subscribed

(* Counting up or down without passing between 0 and 1 subscribes nothing. *)
LEMMA SubscribedKeeps ==
  ASSUME TypeOK, NEW t \in Topic, NEW n \in Nat, exact[t] > 0, n > 0,
         exact' = [exact EXCEPT ![t] = n]
  PROVE  Subscribed' = Subscribed
  BY DEF TypeOK, Subscribed

LEMMA TypeStep == IInv /\ [Next]_vars => TypeOK'
  <1> SUFFICES ASSUME IInv, [Next]_vars PROVE TypeOK'
    OBVIOUS
  <1> USE ByteStringAssumption DEF IInv, TypeOK
  <1>1. ASSUME NEW t \in Topic, InsertNew(t) PROVE TypeOK'
    <2>1. Len(t) \in Nat
      BY <1>1
    <2>2. FirstByte(t) \subseteq Byte
      BY DEF FirstByte
    <2> QED BY <1>1, <2>1, <2>2 DEF InsertNew
  <1>2. ASSUME NEW t \in Topic, InsertDuplicate(t) PROVE TypeOK'
    <2>1. exact' \in [Topic -> Nat]
      BY <1>2 DEF InsertDuplicate
    <2>2. UNCHANGED tables /\ ret' = FALSE
      BY <1>2 DEF InsertDuplicate
    <2> QED BY <2>1, <2>2 DEF tables
  <1>3. ASSUME NEW t \in Topic, RemoveDuplicate(t) PROVE TypeOK'
    <2>1. exact' \in [Topic -> Nat]
      BY <1>3 DEF RemoveDuplicate
    <2>2. UNCHANGED tables /\ ret' = FALSE
      BY <1>3 DEF RemoveDuplicate
    <2> QED BY <2>1, <2>2 DEF tables
  <1>4. ASSUME NEW t \in Topic, RemoveLast(t) PROVE TypeOK'
    <2>1. prefixes' \subseteq Topic /\ FirstBytesLeft(t) \subseteq Byte
      BY <1>4, FirstBytesAreBytes DEF RemoveLast, FirstBytesLeft
    <2>2. \A p \in prefixes' : Len(p) \in Nat
      BY <2>1
    <2>3. lengths' \subseteq Nat
      BY <1>4, <2>2 DEF RemoveLast, LengthsOf
    <2>4. exact' \in [Topic -> Nat] /\ ret' \in BOOLEAN
      BY <1>4 DEF RemoveLast
    <2>5. hasEmpty' \in BOOLEAN
      BY <1>4 DEF RemoveLast, ContainsExact
    <2>6. firstBytes' \subseteq Byte
      BY <1>4, <2>1 DEF RemoveLast
    <2> QED BY <2>1, <2>3, <2>4, <2>5, <2>6
  <1>5. ASSUME NEW t \in Topic, RemoveAbsent(t) PROVE TypeOK'
    BY <1>5 DEF RemoveAbsent, tables
  <1>6. CASE UNCHANGED vars
    BY <1>6 DEF vars
  <1> QED BY <1>1, <1>2, <1>3, <1>4, <1>5, <1>6 DEF Next

LEMMA CachesStep == IInv /\ [Next]_vars => CachesAgree'
  <1> SUFFICES ASSUME IInv, [Next]_vars PROVE CachesAgree'
    OBVIOUS
  <1> USE ByteStringAssumption DEF IInv
  <1>0. ASSUME UNCHANGED tables, Subscribed' = Subscribed PROVE CachesAgree'
    BY <1>0 DEF CachesAgree, tables
  <1>1. ASSUME NEW t \in Topic, InsertNew(t) PROVE CachesAgree'
    <2>1. Subscribed' = Subscribed \cup {t}
      BY <1>1, SubscribedAdds DEF InsertNew
    <2>2. firstBytes' = FirstBytesOf(Subscribed')
      BY <1>1, <2>1, FirstBytesOfUnion DEF InsertNew, CachesAgree
    <2>3. lengths' = LengthsOf(Subscribed')
      BY <1>1, <2>1 DEF InsertNew, CachesAgree, LengthsOf
    <2>4. prefixes' = Subscribed' /\ (hasEmpty' <=> <<>> \in Subscribed')
      BY <1>1, <2>1 DEF InsertNew, CachesAgree
    <2> QED BY <2>2, <2>3, <2>4 DEF CachesAgree
  <1>2. ASSUME NEW t \in Topic, InsertDuplicate(t) PROVE CachesAgree'
    <2>1. exact[t] > 0 /\ exact[t] + 1 \in Nat /\ exact[t] + 1 > 0
      BY <1>2 DEF InsertDuplicate, TypeOK
    <2> QED BY <1>0, <1>2, <2>1, SubscribedKeeps DEF InsertDuplicate
  <1>3. ASSUME NEW t \in Topic, RemoveDuplicate(t) PROVE CachesAgree'
    <2>1. exact[t] - 1 \in Nat /\ exact[t] - 1 > 0 /\ exact[t] > 0
      BY <1>3 DEF RemoveDuplicate, TypeOK
    <2> QED BY <1>0, <1>3, <2>1, SubscribedKeeps DEF RemoveDuplicate
  <1>4. ASSUME NEW t \in Topic, RemoveLast(t) PROVE CachesAgree'
    <2>1. Subscribed' = Subscribed \ {t}
      BY <1>4, SubscribedDrops DEF RemoveLast
    <2>2. prefixes' = Subscribed'
      BY <1>4, <2>1 DEF RemoveLast, CachesAgree
    <2>3. hasEmpty' <=> <<>> \in Subscribed'
      BY <1>4 DEF RemoveLast, ContainsExact, Subscribed
    <2>4. firstBytes' = FirstBytesOf(Subscribed')
      BY <1>4, <2>1 DEF RemoveLast, FirstBytesLeft, CachesAgree
    <2>5. lengths' = LengthsOf(Subscribed')
      BY <1>4, <2>2 DEF RemoveLast
    <2> QED BY <2>2, <2>3, <2>4, <2>5 DEF CachesAgree
  <1>5. ASSUME NEW t \in Topic, RemoveAbsent(t) PROVE CachesAgree'
    BY <1>0, <1>5 DEF RemoveAbsent, Subscribed
  <1>6. CASE UNCHANGED vars
    BY <1>0, <1>6 DEF vars, tables, Subscribed
  <1> QED BY <1>1, <1>2, <1>3, <1>4, <1>5, <1>6 DEF Next

(* In a table whose caches agree, the cached match is the prefix match. *)
LEMMA MatchFromCaches == IInv => MatchIsPrefixMatch
  <1> SUFFICES ASSUME IInv, NEW d \in Data
               PROVE  MatchesPrefixOf(d) <=> \E t \in Subscribed : StartsWith(d, t)
    BY DEF MatchIsPrefixMatch
  <1> USE ByteStringAssumption
  <1>0. d \in Seq(Byte) /\ Subscribed \subseteq Seq(Byte)
    BY DEF Subscribed
  <1>1. ASSUME MatchesPrefixOf(d) PROVE \E t \in Subscribed : StartsWith(d, t)
    <2>1. CASE hasEmpty
      <3>1. <<>> \in Subscribed /\ StartsWith(d, <<>>)
        BY <1>0, <2>1 DEF IInv, CachesAgree, StartsWith
      <3> QED BY <3>1
    <2>2. CASE ~hasEmpty
      <3>1. PICK n \in lengths : n <= Len(d) /\ ContainsExact(SubSeq(d, 1, n))
        BY <1>1, <2>2 DEF MatchesPrefixOf
      <3>2. PICK s \in Subscribed : n = Len(s)
        BY DEF IInv, CachesAgree, LengthsOf
      <3> DEFINE t == SubSeq(d, 1, n)
      <3>3. t \in Subscribed
        BY <3>1 DEF ContainsExact, Subscribed
      <3>4. n \in Nat /\ Len(t) = n
        BY <1>0, <3>1, <3>2
      <3>5. StartsWith(d, t)
        BY <1>0, <3>1, <3>3, <3>4, CutIsPrefix
      <3> QED BY <3>3, <3>5
    <2> QED BY <2>1, <2>2
  <1>2. ASSUME NEW t \in Subscribed, StartsWith(d, t) PROVE MatchesPrefixOf(d)
    <2>1. t \in Topic /\ t \in Seq(Byte) /\ exact[t] > 0
      BY <1>0 DEF Subscribed
    <2>2. CASE t = <<>>
      BY <2>2 DEF IInv, CachesAgree, MatchesPrefixOf
    <2>3. CASE t # <<>>
      <3>1. Len(t) > 0 /\ Len(t) <= Len(d) /\ d[1] = t[1] /\ d # <<>>
        BY <1>0, <1>2, <2>1, <2>3 DEF StartsWith
      <3>2. t[1] \in firstBytes
        BY <2>3 DEF IInv, CachesAgree, FirstBytesOf, FirstByte
      <3>3. Len(t) \in lengths
        BY DEF IInv, CachesAgree, LengthsOf
      <3>4. ContainsExact(SubSeq(d, 1, Len(t)))
        BY <1>0, <1>2, <2>1, CutIsPrefix DEF ContainsExact
      <3> QED BY <3>1, <3>2, <3>3, <3>4 DEF MatchesPrefixOf
    <2> QED BY <2>2, <2>3
  <1> QED BY <1>1, <1>2

-----------------------------------------------------------------------------
(* In every reachable table the caches equal what the counts determine. *)
THEOREM CachesAlwaysAgree == Spec => [](TypeOK /\ CachesAgree)
  <1>1. IInv /\ [Next]_vars => IInv'
    BY TypeStep, CachesStep DEF IInv
  <1> QED BY InitIInv, <1>1, PTL DEF Spec, IInv

(* Every reachable table is exact: beside that, it matches a message
   exactly when a subscribed topic is a prefix of it, for all topics and
   messages over any alphabet. *)
THEOREM TableAlwaysExact == Spec => []TableExact
  <1>1. TypeOK /\ CachesAgree => TableExact
    BY MatchFromCaches DEF IInv, TableExact
  <1> QED BY CachesAlwaysAgree, <1>1, PTL

(* The result of insert and remove tells the caller whether the set of
   subscribed topics changed. *)
THEOREM ResultAlwaysReportsEdge == Spec => ResultReportsEdge
  <1>1. ASSUME IInv, [Next]_vars
        PROVE  [ret' <=> (Subscribed' # Subscribed)]_vars
    <2> SUFFICES ASSUME Next PROVE ret' <=> (Subscribed' # Subscribed)
      BY <1>1
    <2> USE DEF IInv
    <2>1. ASSUME NEW t \in Topic, InsertNew(t)
          PROVE  ret' <=> (Subscribed' # Subscribed)
      <3>1. Subscribed' = Subscribed \cup {t}
        BY <1>1, <2>1, SubscribedAdds DEF InsertNew
      <3>2. t \notin Subscribed
        BY <2>1 DEF InsertNew, Subscribed
      <3>3. ret' = TRUE
        BY <2>1 DEF InsertNew
      <3> QED BY <3>1, <3>2, <3>3
    <2>2. ASSUME NEW t \in Topic, InsertDuplicate(t)
          PROVE  ret' <=> (Subscribed' # Subscribed)
      <3>1. exact[t] > 0 /\ exact[t] + 1 \in Nat /\ exact[t] + 1 > 0
        BY <1>1, <2>2 DEF InsertDuplicate, TypeOK
      <3> QED BY <1>1, <2>2, <3>1, SubscribedKeeps DEF InsertDuplicate
    <2>3. ASSUME NEW t \in Topic, RemoveDuplicate(t)
          PROVE  ret' <=> (Subscribed' # Subscribed)
      <3>1. exact[t] - 1 \in Nat /\ exact[t] - 1 > 0 /\ exact[t] > 0
        BY <1>1, <2>3 DEF RemoveDuplicate, TypeOK
      <3> QED BY <1>1, <2>3, <3>1, SubscribedKeeps DEF RemoveDuplicate
    <2>4. ASSUME NEW t \in Topic, RemoveLast(t)
          PROVE  ret' <=> (Subscribed' # Subscribed)
      <3>1. Subscribed' = Subscribed \ {t}
        BY <1>1, <2>4, SubscribedDrops DEF RemoveLast
      <3>2. t \in Subscribed
        BY <2>4 DEF RemoveLast, Subscribed
      <3>3. ret' = TRUE
        BY <2>4 DEF RemoveLast
      <3> QED BY <3>1, <3>2, <3>3
    <2>5. ASSUME NEW t \in Topic, RemoveAbsent(t)
          PROVE  ret' <=> (Subscribed' # Subscribed)
      BY <2>5 DEF RemoveAbsent, Subscribed
    <2> QED BY <2>1, <2>2, <2>3, <2>4, <2>5 DEF Next
  <1> QED BY <1>1, CachesAlwaysAgree, PTL DEF Spec, IInv, ResultReportsEdge

-----------------------------------------------------------------------------
(* The ZAP handler. *)

Status == {"200", "400", "malformed"}

ZapTypes ==
  /\ Zap!TypeOK
  /\ inbox \in Seq(Zap!Ids)
  /\ replies \in [Zap!Ids -> Seq(Status)]
  /\ verdict \in [Zap!Ids -> Status \cup {"none"}]
  /\ gaveUp \subseteq Zap!Ids
  /\ try \in [Servers -> 0 .. MaxTries]
  /\ \A s \in Servers : auth[s] # "idle" => try[s] > 0

(* Is request i in the handler's queue, or the one it is about to answer? *)
Queued(i) == \E n \in 1 .. Len(inbox) : inbox[n] = i
Open(i) == Queued(i) \/ (turn = "send" /\ asker = i)

(* Whose place a handshake has not reached the point where it pushes its   *)
(* request.                                                                *)
Unasked(i) ==
  \/ i[2] > try[i[1]]
  \/ i[2] = try[i[1]] /\ auth[i[1]] \in {"idle", "local", "found", "connected"}

(* The reply queue of a request holds the verdict on it and nothing else.  *)
RepliesAreVerdicts ==
  \A i \in Zap!Ids :
    replies[i] = IF verdict[i] = "none" THEN <<>> ELSE <<verdict[i]>>

(* A request is with the handler at most once, and only before its verdict *)
(* and after it was pushed; whoever sent it is listed or has given up.     *)
OpenOnce ==
  /\ \A m, n \in 1 .. Len(inbox) : inbox[m] = inbox[n] => m = n
  /\ turn = "send" => asker \in Zap!Ids /\ ~Queued(asker)
  /\ \A i \in Zap!Ids :
       /\ Open(i) => verdict[i] = "none" /\ i \in peers \cup gaveUp
       /\ Unasked(i) => verdict[i] = "none" /\ ~Open(i)

(* Who is on the way to push a request is listed or has lost the handler.  *)
AskersListed ==
  /\ ~bound => peers = {}
  /\ \A s \in Servers :
       auth[s] = "connected" => Zap!Id(s) \in peers \cup gaveUp

(* A peer left behind is one whose request was never pushed. *)
LeftBehindUnasked ==
  \A i \in peers \cup pending :
    \/ auth[i[1]] \in {"connected", "waiting"} /\ i = Zap!Id(i[1])
    \/ i \in gaveUp /\ verdict[i] = "none" /\ ~Open(i)

(* The inductive invariant of the ZAP part. *)
ZapInv ==
  /\ ZapTypes /\ RepliesAreVerdicts /\ OpenOnce /\ AskersListed
  /\ LeftBehindUnasked /\ Zap!VerdictIsOwn

(* Ids are pairs, and the id of a handshake that has begun is one of them. *)
LEMMA IdParts ==
  ASSUME NEW i \in Zap!Ids
  PROVE  i[1] \in Servers /\ i[2] \in 1 .. MaxTries /\ i = <<i[1], i[2]>>
  BY DEF Zap!Ids

LEMMA OwnId ==
  ASSUME ZapTypes, NEW s \in Servers, auth[s] # "idle"
  PROVE  /\ Zap!Id(s) \in Zap!Ids /\ Zap!Id(s)[1] = s /\ Zap!Id(s)[2] = try[s]
         /\ \A i \in Zap!Ids : i = Zap!Id(s) <=> i[1] = s /\ i[2] = try[s]
<1>1. try[s] \in 1 .. MaxTries BY DeliveryAssumption DEF ZapTypes
<1>2. Zap!Id(s) = <<s, try[s]>> BY DEF Zap!Id
<1>3. ASSUME NEW i \in Zap!Ids PROVE i = <<s, try[s]>> <=> i[1] = s /\ i[2] = try[s]
  BY IdParts
<1> QED BY <1>1, <1>2, <1>3 DEF Zap!Ids

(* The initial state satisfies the invariant. *)
LEMMA ZapInit == Zap!Init => ZapInv
<1> SUFFICES ASSUME Zap!Init PROVE ZapInv OBVIOUS
<1> USE DeliveryAssumption DEF Zap!Init
<1>1. ZapTypes
  <2>1. Zap!TypeOK BY DEF Zap!TypeOK
  <2>2. <<>> \in Seq(Zap!Ids) /\ <<>> \in Seq(Status) OBVIOUS
  <2>3. replies \in [Zap!Ids -> Seq(Status)] BY <2>2
  <2> QED BY <2>1, <2>2, <2>3 DEF ZapTypes
<1>2. \A i \in Zap!Ids : ~Open(i) BY DEF Open, Queued
<1>3. RepliesAreVerdicts BY DEF RepliesAreVerdicts
<1>4. OpenOnce BY <1>2 DEF OpenOnce
<1>5. AskersListed /\ LeftBehindUnasked BY DEF AskersListed, LeftBehindUnasked
<1>6. Zap!VerdictIsOwn BY DEF Zap!VerdictIsOwn
<1> QED BY <1>1, <1>3, <1>4, <1>5, <1>6 DEF ZapInv

(* The invariant is about nothing but the variables of the part. *)
LEMMA ZapStutters == ZapInv /\ UNCHANGED zapVars => ZapInv'
<1> SUFFICES ASSUME ZapInv, UNCHANGED zapVars PROVE ZapInv' OBVIOUS
<1> USE DEF zapVars
<1>1. ZapTypes' BY DEF ZapInv, ZapTypes, Zap!TypeOK
<1>2. RepliesAreVerdicts' BY DEF ZapInv, RepliesAreVerdicts
<1>3. OpenOnce' BY DEF ZapInv, OpenOnce, Open, Queued, Unasked
<1>4. AskersListed' BY DEF ZapInv, AskersListed, Zap!Id
<1>5. LeftBehindUnasked' BY DEF ZapInv, LeftBehindUnasked, Open, Queued, Zap!Id
<1>6. Zap!VerdictIsOwn' BY DEF ZapInv, Zap!VerdictIsOwn, Zap!Id
<1> QED BY <1>1, <1>2, <1>3, <1>4, <1>5, <1>6 DEF ZapInv

(* A new handshake has an id nobody has used. *)
LEMMA ZapAuthorize ==
  ASSUME ZapInv, NEW s \in Servers, Zap!Authorize(s)
  PROVE  ZapInv'
<1> USE DEF Zap!Authorize, Zap!Handler, Zap!Registry
<1>0. /\ ZapTypes /\ OpenOnce /\ try[s] \in 0 .. MaxTries /\ MaxTries \in Nat
      /\ \A i \in Zap!Ids : Open(i)' <=> Open(i)
  BY DeliveryAssumption DEF ZapInv, ZapTypes, Open, Queued
<1>1. ZapTypes'
  <2>1. try' \in [Servers -> 0 .. MaxTries] BY <1>0 DEF ZapTypes
  <2>2. Zap!TypeOK' BY <1>0 DEF ZapTypes, Zap!TypeOK
  <2>3. \A r \in Servers : auth'[r] # "idle" => try'[r] > 0
    BY <1>0 DEF ZapTypes, Zap!TypeOK
  <2> QED BY <2>1, <2>2, <2>3, <1>0 DEF ZapTypes
<1>2. RepliesAreVerdicts' BY DEF ZapInv, RepliesAreVerdicts
<1>3. OpenOnce'
  <2>1. ASSUME NEW i \in Zap!Ids, Unasked(i)' PROVE Unasked(i)
    BY <2>1, <1>0, IdParts DEF Unasked, ZapTypes, Zap!TypeOK
  <2>2. ASSUME turn = "send" PROVE Queued(asker)' <=> Queued(asker)
    BY DEF Queued
  <2> QED BY <1>0, <2>1, <2>2 DEF OpenOnce
<1>4. ASSUME NEW r \in Servers, auth'[r] \notin {"found", "local"}
      PROVE  auth'[r] = auth[r] /\ Zap!Id(r)' = Zap!Id(r) /\ r # s
  BY <1>4, <1>0 DEF ZapTypes, Zap!TypeOK, Zap!Id
<1>5. AskersListed'
  <2>1. AskersListed BY DEF ZapInv
  <2> QED BY <2>1, <1>4, Zenon DEF AskersListed
<1>6. LeftBehindUnasked'
  <2>1. LeftBehindUnasked /\ peers \cup pending \subseteq Zap!Ids
    BY <1>0 DEF ZapInv, ZapTypes, Zap!TypeOK
  <2>2. ASSUME NEW r \in Servers, auth[r] \in {"connected", "waiting"}
        PROVE  auth'[r] = auth[r] /\ Zap!Id(r)' = Zap!Id(r)
    BY <2>2, <1>0 DEF ZapTypes, Zap!TypeOK, Zap!Id
  <2> SUFFICES ASSUME NEW i \in peers \cup pending
               PROVE  \/ auth'[i[1]] \in {"connected", "waiting"} /\ i = Zap!Id(i[1])'
                      \/ i \in gaveUp' /\ verdict'[i] = "none" /\ ~Open(i)'
    BY DEF LeftBehindUnasked
  <2>3. CASE auth[i[1]] \in {"connected", "waiting"} /\ i = Zap!Id(i[1])
    <3>1. i[1] \in Servers BY <2>1, IdParts
    <3> QED BY <2>3, <2>2, <3>1 DEF Zap!Id
  <2>4. CASE i \in gaveUp /\ verdict[i] = "none" /\ ~Open(i) BY <2>4, <1>0, <2>1
  <2> QED BY <2>3, <2>4, <2>1 DEF LeftBehindUnasked
<1>7. Zap!VerdictIsOwn'
  <2>1. Zap!VerdictIsOwn BY DEF ZapInv
  <2> QED BY <2>1, <1>4 DEF Zap!VerdictIsOwn
<1> QED BY <1>1, <1>2, <1>3, <1>5, <1>6, <1>7 DEF ZapInv

LEMMA ZapConnectFound ==
  ASSUME ZapInv, NEW s \in Servers, Zap!ConnectFound(s)
  PROVE  ZapInv'
<1> USE DEF Zap!ConnectFound, Zap!Handler
<1>0. /\ ZapTypes /\ OpenOnce
      /\ \A i \in Zap!Ids : Open(i)' <=> Open(i)
      /\ \A r \in Servers : Zap!Id(r)' = Zap!Id(r)
      /\ \A r \in Servers : auth'[r] = IF r = s THEN "connected" ELSE auth[r]
  BY DEF ZapInv, ZapTypes, Zap!TypeOK, Open, Queued, Zap!Id
<1>1. Zap!Id(s) \in Zap!Ids BY <1>0, OwnId
<1>2. ZapTypes'
  <2>1. Zap!TypeOK' BY <1>0, <1>1 DEF ZapTypes, Zap!TypeOK
  <2>2. \A r \in Servers : auth'[r] # "idle" => try'[r] > 0 BY <1>0 DEF ZapTypes
  <2> QED BY <2>1, <2>2, <1>0 DEF ZapTypes
<1>3. RepliesAreVerdicts' BY DEF ZapInv, RepliesAreVerdicts
<1>4. OpenOnce'
  <2>1. ASSUME NEW i \in Zap!Ids, Unasked(i)' PROVE Unasked(i)
    BY <2>1, <1>0, IdParts DEF Unasked
  <2>2. ASSUME turn = "send" PROVE Queued(asker)' <=> Queued(asker)
    BY DEF Queued
  <2> QED BY <1>0, <2>1, <2>2 DEF OpenOnce
<1>5. AskersListed' BY <1>0 DEF ZapInv, AskersListed
<1>6. LeftBehindUnasked'
  <2>1. LeftBehindUnasked /\ peers \cup pending \subseteq Zap!Ids
    BY <1>0 DEF ZapInv, ZapTypes, Zap!TypeOK
  <2> SUFFICES ASSUME NEW i \in peers' \cup pending'
               PROVE  \/ auth'[i[1]] \in {"connected", "waiting"} /\ i = Zap!Id(i[1])'
                      \/ i \in gaveUp' /\ verdict'[i] = "none" /\ ~Open(i)'
    BY DEF LeftBehindUnasked
  <2>2. i \in Zap!Ids /\ i[1] \in Servers BY <2>1, <1>1, IdParts
  <2>3. CASE i = Zap!Id(s) BY <2>3, <2>2, <1>0, OwnId
  <2>4. CASE i \in peers \cup pending /\ i # Zap!Id(s)
    BY <2>4, <2>1, <2>2, <1>0 DEF LeftBehindUnasked
  <2> QED BY <2>3, <2>4
<1>7. Zap!VerdictIsOwn' BY <1>0 DEF ZapInv, Zap!VerdictIsOwn
<1> QED BY <1>2, <1>3, <1>4, <1>5, <1>6, <1>7 DEF ZapInv

LEMMA ZapConnectMissed ==
  ASSUME ZapInv, NEW s \in Servers, Zap!ConnectMissed(s)
  PROVE  ZapInv'
<1> USE DEF Zap!ConnectMissed, Zap!Handler
<1>0. /\ ZapTypes /\ OpenOnce
      /\ \A i \in Zap!Ids : Open(i)' <=> Open(i)
      /\ \A r \in Servers : Zap!Id(r)' = Zap!Id(r)
      /\ \A r \in Servers : auth'[r] = IF r = s THEN "again" ELSE auth[r]
  BY DEF ZapInv, ZapTypes, Zap!TypeOK, Open, Queued, Zap!Id
<1>1. Zap!Id(s) \in Zap!Ids /\ Unasked(Zap!Id(s))
  BY <1>0, OwnId DEF Unasked
<1>2. ZapTypes'
  <2>1. Zap!TypeOK' BY <1>0, <1>1 DEF ZapTypes, Zap!TypeOK
  <2>2. \A r \in Servers : auth'[r] # "idle" => try'[r] > 0 BY <1>0 DEF ZapTypes
  <2> QED BY <2>1, <2>2, <1>0, <1>1 DEF ZapTypes
<1>3. RepliesAreVerdicts' BY DEF ZapInv, RepliesAreVerdicts
<1>4. OpenOnce'
  <2>1. ASSUME NEW i \in Zap!Ids, Unasked(i)' PROVE Unasked(i)
    BY <2>1, <1>0, IdParts DEF Unasked
  <2>2. ASSUME turn = "send" PROVE Queued(asker)' <=> Queued(asker)
    BY DEF Queued
  <2> QED BY <1>0, <2>1, <2>2 DEF OpenOnce
<1>5. AskersListed' BY <1>0 DEF ZapInv, AskersListed
<1>6. LeftBehindUnasked'
  <2>1. LeftBehindUnasked /\ peers \cup pending \subseteq Zap!Ids
    BY <1>0 DEF ZapInv, ZapTypes, Zap!TypeOK
  <2> SUFFICES ASSUME NEW i \in peers' \cup pending'
               PROVE  \/ auth'[i[1]] \in {"connected", "waiting"} /\ i = Zap!Id(i[1])'
                      \/ i \in gaveUp' /\ verdict'[i] = "none" /\ ~Open(i)'
    BY DEF LeftBehindUnasked
  <2>2. i \in Zap!Ids /\ i[1] \in Servers BY <2>1, <1>1, IdParts
  <2>3. CASE i = Zap!Id(s) BY <2>3, <1>0, <1>1 DEF OpenOnce
  <2>4. CASE i \in peers \cup pending /\ i # Zap!Id(s)
    BY <2>4, <2>1, <2>2, <1>0 DEF LeftBehindUnasked
  <2> QED BY <2>3, <2>4
<1>7. Zap!VerdictIsOwn' BY <1>0 DEF ZapInv, Zap!VerdictIsOwn
<1> QED BY <1>2, <1>3, <1>4, <1>5, <1>6, <1>7 DEF ZapInv

(* The request that is pushed is new to the handler. *)
LEMMA ZapSendRequest ==
  ASSUME ZapInv, NEW s \in Servers, Zap!SendZapRequest(s)
  PROVE  ZapInv'
<1> USE DEF Zap!SendZapRequest, Zap!Registry
<1>0. /\ ZapTypes /\ OpenOnce /\ inbox \in Seq(Zap!Ids)
      /\ \A r \in Servers : Zap!Id(r)' = Zap!Id(r)
      /\ \A r \in Servers : auth'[r] = IF r = s THEN "waiting" ELSE auth[r]
  BY DEF ZapInv, ZapTypes, Zap!TypeOK, Zap!Id
<1>1. Zap!Id(s) \in Zap!Ids /\ Unasked(Zap!Id(s)) /\ ~Unasked(Zap!Id(s))'
  BY <1>0, OwnId DEF Unasked, ZapTypes
<1>2. /\ verdict[Zap!Id(s)] = "none" /\ ~Open(Zap!Id(s))
      /\ Zap!Id(s) \in peers \cup gaveUp
  BY <1>0, <1>1 DEF ZapInv, OpenOnce, AskersListed
<1>3. /\ Len(inbox') = Len(inbox) + 1 /\ Len(inbox) \in Nat /\ inbox' \in Seq(Zap!Ids)
      /\ \A n \in 1 .. Len(inbox) : inbox'[n] = inbox[n]
      /\ inbox'[Len(inbox) + 1] = Zap!Id(s)
  BY <1>0, <1>1
<1>4. \A i : Queued(i)' <=> Queued(i) \/ i = Zap!Id(s)
  BY <1>3 DEF Queued
<1>5. \A i : Open(i)' <=> Open(i) \/ i = Zap!Id(s)
  BY <1>4 DEF Open
<1>6. ZapTypes'
  <2>1. Zap!TypeOK' BY <1>0, <1>1 DEF ZapTypes, Zap!TypeOK
  <2>2. \A r \in Servers : auth'[r] # "idle" => try'[r] > 0 BY <1>0 DEF ZapTypes
  <2> QED BY <2>1, <2>2, <1>0, <1>3 DEF ZapTypes
<1>7. RepliesAreVerdicts' BY DEF ZapInv, RepliesAreVerdicts
<1>8. OpenOnce'
  <2>1. ASSUME NEW i \in Zap!Ids, Unasked(i)' PROVE Unasked(i) /\ i # Zap!Id(s)
    BY <2>1, <1>0, <1>1, IdParts DEF Unasked
  <2>2. (turn = "send" => asker \in Zap!Ids /\ ~Queued(asker))'
    BY <1>0, <1>2, <1>4 DEF OpenOnce, Open
  <2>3. ASSUME NEW m \in 1 .. Len(inbox'), NEW n \in 1 .. Len(inbox'), inbox'[m] = inbox'[n]
        PROVE  m = n
    <3>1. \A k \in 1 .. Len(inbox) : inbox[k] # Zap!Id(s) BY <1>2 DEF Open, Queued
    <3> QED BY <2>3, <3>1, <1>3, <1>0 DEF OpenOnce
  <2> QED BY <1>0, <1>2, <1>5, <2>1, <2>2, <2>3 DEF OpenOnce
<1>9. AskersListed' BY <1>0 DEF ZapInv, AskersListed
<1>10. LeftBehindUnasked'
  <2>1. LeftBehindUnasked /\ peers \cup pending \subseteq Zap!Ids
    BY <1>0 DEF ZapInv, ZapTypes, Zap!TypeOK
  <2> SUFFICES ASSUME NEW i \in peers \cup pending
               PROVE  \/ auth'[i[1]] \in {"connected", "waiting"} /\ i = Zap!Id(i[1])'
                      \/ i \in gaveUp' /\ verdict'[i] = "none" /\ ~Open(i)'
    BY DEF LeftBehindUnasked
  <2>2. i \in Zap!Ids /\ i[1] \in Servers BY <2>1, <1>1, IdParts
  <2>3. CASE i = Zap!Id(s) BY <2>3, <2>2, <1>0, OwnId
  <2>4. CASE i # Zap!Id(s)
    BY <2>4, <2>1, <2>2, <1>0, <1>5 DEF LeftBehindUnasked
  <2> QED BY <2>3, <2>4
<1>11. Zap!VerdictIsOwn' BY <1>0 DEF ZapInv, Zap!VerdictIsOwn
<1> QED BY <1>6, <1>7, <1>8, <1>9, <1>10, <1>11 DEF ZapInv

(* Its own reply queue says what the handler decided, and a request with a *)
(* reply is not with the handler any more.                                 *)
LEMMA ZapReceiveReply ==
  ASSUME ZapInv, NEW s \in Servers, Zap!ReceiveReply(s)
  PROVE  ZapInv'
<1> USE DEF Zap!ReceiveReply, Zap!Handler, Zap!Disconnect
<1>1. ZapTypes /\ OpenOnce /\ Zap!Id(s) \in Zap!Ids BY OwnId DEF ZapInv
<1>2. /\ auth' = [auth EXCEPT ![s] = Zap!Result(verdict[Zap!Id(s)])]
      /\ verdict[Zap!Id(s)] \in Status
  <2>1. PICK reply \in Zap!ReplyFor(s) : auth' = [auth EXCEPT ![s] = Zap!Result(reply)]
    OBVIOUS
  <2>2. replies[Zap!Id(s)] # <<>> /\ reply = Head(replies[Zap!Id(s)])
    BY <2>1 DEF Zap!ReplyFor
  <2>3. verdict[Zap!Id(s)] # "none" /\ replies[Zap!Id(s)] = <<verdict[Zap!Id(s)]>>
    BY <2>2, <1>1 DEF ZapInv, RepliesAreVerdicts
  <2>4. reply = verdict[Zap!Id(s)] BY <2>2, <2>3
  <2> QED BY <2>1, <2>3, <2>4, <1>1 DEF ZapTypes
<1>3. Zap!Result(verdict[Zap!Id(s)]) \in {"ok", "denied"} BY DEF Zap!Result
<1>0. /\ \A i \in Zap!Ids : Open(i)' <=> Open(i)
      /\ \A r \in Servers : Zap!Id(r)' = Zap!Id(r)
      /\ auth'[s] = Zap!Result(verdict[Zap!Id(s)])
      /\ \A r \in Servers : r # s => auth'[r] = auth[r]
  BY <1>1, <1>2 DEF ZapTypes, Zap!TypeOK, Open, Queued, Zap!Id
<1>4. ZapTypes'
  <2>1. Zap!TypeOK' BY <1>0, <1>1, <1>2, <1>3 DEF ZapTypes, Zap!TypeOK
  <2>2. \A r \in Servers : auth'[r] # "idle" => try'[r] > 0 BY <1>0, <1>1 DEF ZapTypes
  <2> QED BY <2>1, <2>2, <1>1 DEF ZapTypes
<1>5. RepliesAreVerdicts' BY DEF ZapInv, RepliesAreVerdicts
<1>6. OpenOnce'
  <2>1. ASSUME NEW i \in Zap!Ids, Unasked(i)' PROVE Unasked(i)
    BY <2>1, <1>0, <1>3, IdParts DEF Unasked
  <2>2. ASSUME turn = "send" PROVE Queued(asker)' <=> Queued(asker)
    BY DEF Queued
  <2>3. ~Open(Zap!Id(s)) BY <1>1, <1>2 DEF OpenOnce, Status
  <2>4. ASSUME NEW i \in Zap!Ids, Open(i)'
        PROVE  verdict'[i] = "none" /\ i \in peers' \cup gaveUp'
    BY <2>3, <2>4, <1>0, <1>1 DEF OpenOnce
  <2> QED BY <1>0, <1>1, <2>1, <2>2, <2>4 DEF OpenOnce
<1>7. AskersListed'
  <2>1. AskersListed BY DEF ZapInv
  <2>2. ASSUME NEW r \in Servers, auth'[r] = "connected"
        PROVE  Zap!Id(r)' \in peers' \cup gaveUp'
    <3>1. r # s /\ auth[r] = "connected" BY <2>2, <1>0, <1>3
    <3>2. Zap!Id(r) # Zap!Id(s) BY <3>1 DEF Zap!Id
    <3> QED BY <3>1, <3>2, <2>1, <1>0 DEF AskersListed
  <2>3. ~bound' => peers' = {} BY <2>1 DEF AskersListed
  <2> QED BY <2>2, <2>3 DEF AskersListed
<1>8. LeftBehindUnasked'
  <2>1. LeftBehindUnasked /\ peers \cup pending \subseteq Zap!Ids
    BY <1>1 DEF ZapInv, ZapTypes, Zap!TypeOK
  <2> SUFFICES ASSUME NEW i \in peers' \cup pending'
               PROVE  \/ auth'[i[1]] \in {"connected", "waiting"} /\ i = Zap!Id(i[1])'
                      \/ i \in gaveUp' /\ verdict'[i] = "none" /\ ~Open(i)'
    BY DEF LeftBehindUnasked
  <2>2. i \in peers \cup pending /\ i # Zap!Id(s) BY <2>1
  <2>3. i \in Zap!Ids /\ i[1] \in Servers BY <2>1, <2>2, IdParts
  <2> QED BY <2>1, <2>2, <2>3, <1>0 DEF LeftBehindUnasked
<1>9. Zap!VerdictIsOwn'
  <2>1. /\ auth'[s] = "ok" => verdict[Zap!Id(s)] = "200"
        /\ auth'[s] = "denied" => verdict[Zap!Id(s)] \in {"400", "malformed"}
    BY <1>0, <1>2 DEF Zap!Result, Status
  <2> QED BY <2>1, <1>0 DEF ZapInv, Zap!VerdictIsOwn
<1> QED BY <1>4, <1>5, <1>6, <1>7, <1>8, <1>9 DEF ZapInv

LEMMA ZapReplyTimeout ==
  ASSUME ZapInv, NEW s \in Servers, Zap!ReplyTimeout(s)
  PROVE  ZapInv'
<1> USE DEF Zap!ReplyTimeout, Zap!Handler, Zap!Disconnect
<1>1. ZapTypes /\ OpenOnce /\ Zap!Id(s) \in Zap!Ids BY OwnId DEF ZapInv
<1>0. /\ \A i \in Zap!Ids : Open(i)' <=> Open(i)
      /\ \A r \in Servers : Zap!Id(r)' = Zap!Id(r)
      /\ \A r \in Servers : auth'[r] = IF r = s THEN "again" ELSE auth[r]
      /\ peers' \cup gaveUp' = peers \cup gaveUp \cup {Zap!Id(s)}
  BY <1>1 DEF ZapTypes, Zap!TypeOK, Open, Queued, Zap!Id
<1>4. ZapTypes'
  <2>1. Zap!TypeOK' BY <1>0, <1>1 DEF ZapTypes, Zap!TypeOK
  <2>2. \A r \in Servers : auth'[r] # "idle" => try'[r] > 0 BY <1>0, <1>1 DEF ZapTypes
  <2> QED BY <2>1, <2>2, <1>1 DEF ZapTypes
<1>5. RepliesAreVerdicts' BY DEF ZapInv, RepliesAreVerdicts
<1>6. OpenOnce'
  <2>1. ASSUME NEW i \in Zap!Ids, Unasked(i)' PROVE Unasked(i)
    BY <2>1, <1>0, IdParts DEF Unasked
  <2>2. ASSUME turn = "send" PROVE Queued(asker)' <=> Queued(asker)
    BY DEF Queued
  <2> QED BY <1>0, <1>1, <2>1, <2>2 DEF OpenOnce
<1>7. AskersListed'
  <2>1. AskersListed BY DEF ZapInv
  <2>2. ASSUME NEW r \in Servers, auth'[r] = "connected"
        PROVE  Zap!Id(r)' \in peers' \cup gaveUp'
    BY <2>1, <2>2, <1>0 DEF AskersListed
  <2>3. ~bound' => peers' = {} BY <2>1 DEF AskersListed
  <2> QED BY <2>2, <2>3 DEF AskersListed
<1>8. LeftBehindUnasked'
  <2>1. LeftBehindUnasked /\ peers \cup pending \subseteq Zap!Ids
    BY <1>1 DEF ZapInv, ZapTypes, Zap!TypeOK
  <2> SUFFICES ASSUME NEW i \in peers' \cup pending'
               PROVE  \/ auth'[i[1]] \in {"connected", "waiting"} /\ i = Zap!Id(i[1])'
                      \/ i \in gaveUp' /\ verdict'[i] = "none" /\ ~Open(i)'
    BY DEF LeftBehindUnasked
  <2>2. i \in peers \cup pending /\ i # Zap!Id(s) BY <2>1
  <2>3. i \in Zap!Ids /\ i[1] \in Servers BY <2>1, <2>2, IdParts
  <2> QED BY <2>1, <2>2, <2>3, <1>0 DEF LeftBehindUnasked
<1>9. Zap!VerdictIsOwn' BY <1>0 DEF ZapInv, Zap!VerdictIsOwn
<1> QED BY <1>4, <1>5, <1>6, <1>7, <1>8, <1>9 DEF ZapInv

LEMMA ZapHandlerBind ==
  ASSUME ZapInv, Zap!HandlerBind
  PROVE  ZapInv'
<1> USE DEF Zap!HandlerBind, Zap!Handler
<1>0. /\ ZapTypes /\ OpenOnce /\ AskersListed /\ peers = {}
      /\ \A i : Open(i)' <=> Open(i)
      /\ \A i : Unasked(i)' <=> Unasked(i)
      /\ \A r : Zap!Id(r)' = Zap!Id(r)
  BY DEF ZapInv, AskersListed, Open, Queued, Unasked, Zap!Id
<1>1. ZapTypes' BY <1>0 DEF ZapTypes, Zap!TypeOK
<1>2. RepliesAreVerdicts' BY DEF ZapInv, RepliesAreVerdicts
<1>3. OpenOnce'
  <2>1. ASSUME turn = "send" PROVE Queued(asker)' <=> Queued(asker)
    BY DEF Queued
  <2> QED BY <1>0, <2>1 DEF OpenOnce
<1>4. AskersListed' BY <1>0 DEF AskersListed
<1>5. LeftBehindUnasked' BY <1>0 DEF ZapInv, LeftBehindUnasked
<1>6. Zap!VerdictIsOwn' BY <1>0 DEF ZapInv, Zap!VerdictIsOwn
<1> QED BY <1>1, <1>2, <1>3, <1>4, <1>5, <1>6 DEF ZapInv

LEMMA ZapHandlerUnbind ==
  ASSUME ZapInv, Zap!HandlerUnbind
  PROVE  ZapInv'
<1> USE DEF Zap!HandlerUnbind, Zap!Handler
<1>0. /\ ZapTypes /\ OpenOnce /\ AskersListed
      /\ \A i : Open(i)' <=> Open(i)
      /\ \A i : Unasked(i)' <=> Unasked(i)
      /\ \A r : Zap!Id(r)' = Zap!Id(r)
  BY DEF ZapInv, Open, Queued, Unasked, Zap!Id
<1>1. ZapTypes' BY <1>0 DEF ZapTypes, Zap!TypeOK
<1>2. RepliesAreVerdicts' BY DEF ZapInv, RepliesAreVerdicts
<1>3. OpenOnce'
  <2>1. ASSUME turn = "send" PROVE Queued(asker)' <=> Queued(asker)
    BY DEF Queued
  <2> QED BY <1>0, <2>1 DEF OpenOnce
<1>4. AskersListed' BY <1>0 DEF AskersListed
<1>5. LeftBehindUnasked' BY <1>0 DEF ZapInv, LeftBehindUnasked
<1>6. Zap!VerdictIsOwn' BY <1>0 DEF ZapInv, Zap!VerdictIsOwn
<1> QED BY <1>1, <1>2, <1>3, <1>4, <1>5, <1>6 DEF ZapInv

(* Receiving moves a request from the queue to the handler's hands. *)
LEMMA ZapHandlerRecv ==
  ASSUME ZapInv, Zap!HandlerRecv
  PROVE  ZapInv'
<1> USE DEF Zap!HandlerRecv, Zap!Registry
<1>1. ZapTypes /\ OpenOnce /\ inbox \in Seq(Zap!Ids) BY DEF ZapInv, ZapTypes
<1>2. /\ Len(inbox) \in Nat /\ Len(inbox) > 0 /\ asker' = inbox[1] /\ asker' \in Zap!Ids
      /\ inbox' \in Seq(Zap!Ids) /\ Len(inbox') = Len(inbox) - 1
      /\ \A n \in 1 .. Len(inbox') : inbox'[n] = inbox[n + 1]
  BY <1>1
<1>3. \A i : Queued(i)' <=> Queued(i) /\ i # asker'
  <2>1. \A m, n \in 1 .. Len(inbox) : inbox[m] = inbox[n] => m = n BY <1>1 DEF OpenOnce
  <2>2. ASSUME NEW i, NEW n \in 1 .. Len(inbox'), inbox'[n] = i
        PROVE  n + 1 \in 1 .. Len(inbox) /\ inbox[n + 1] = i /\ i # asker'
    BY <2>1, <2>2, <1>2
  <2>3. ASSUME NEW i, NEW n \in 1 .. Len(inbox), inbox[n] = i, i # asker'
        PROVE  n - 1 \in 1 .. Len(inbox') /\ inbox'[n - 1] = i
    BY <2>3, <1>2
  <2> QED BY <2>2, <2>3 DEF Queued
<1>4. Queued(asker') BY <1>2 DEF Queued
<1>0. /\ \A i : Open(i)' <=> Open(i)
      /\ \A i : Unasked(i)' <=> Unasked(i)
      /\ \A r : Zap!Id(r)' = Zap!Id(r)
  BY <1>3, <1>4 DEF Open, Unasked, Zap!Id
<1>5. ZapTypes' BY <1>1, <1>2 DEF ZapTypes, Zap!TypeOK
<1>6. RepliesAreVerdicts' BY DEF ZapInv, RepliesAreVerdicts
<1>7. OpenOnce'
  <2>1. (turn = "send" => asker \in Zap!Ids /\ ~Queued(asker))' BY <1>2, <1>3
  <2>2. ASSUME NEW m \in 1 .. Len(inbox'), NEW n \in 1 .. Len(inbox'), inbox'[m] = inbox'[n]
        PROVE  m = n
    BY <2>2, <1>1, <1>2 DEF OpenOnce
  <2> QED BY <1>0, <1>1, <2>1, <2>2 DEF OpenOnce
<1>8. AskersListed' BY <1>0 DEF ZapInv, AskersListed
<1>9. LeftBehindUnasked' BY <1>0 DEF ZapInv, LeftBehindUnasked
<1>10. Zap!VerdictIsOwn' BY <1>0 DEF ZapInv, Zap!VerdictIsOwn
<1> QED BY <1>5, <1>6, <1>7, <1>8, <1>9, <1>10 DEF ZapInv

(* The verdict goes to a request that had none, which is then done with:   *)
(* no earlier verdict is touched, and nobody left behind is answered.      *)
LEMMA ZapHandlerSend ==
  ASSUME ZapInv, Zap!HandlerSend
  PROVE  ZapInv'
<1> USE DEF Zap!HandlerSend, Zap!Registry
<1>1. /\ ZapTypes /\ OpenOnce /\ asker \in Zap!Ids /\ ~Queued(asker) /\ Open(asker)
      /\ verdict[asker] = "none" /\ replies[asker] = <<>> /\ ~Unasked(asker)
  BY DEF ZapInv, OpenOnce, Open, RepliesAreVerdicts
<1>2. PICK status \in Status :
        /\ replies' = [replies EXCEPT ![asker] = Append(@, status)]
        /\ verdict' = [verdict EXCEPT ![asker] = status]
  BY DEF Status
<1>3. /\ verdict' \in [Zap!Ids -> Status \cup {"none"}] /\ verdict'[asker] = status
      /\ \A i \in Zap!Ids : i # asker => verdict'[i] = verdict[i]
      /\ replies' \in [Zap!Ids -> Seq(Status)] /\ replies'[asker] = <<status>>
      /\ \A i \in Zap!Ids : i # asker => replies'[i] = replies[i]
  BY <1>1, <1>2 DEF ZapTypes
<1>0. /\ \A i : Open(i)' <=> Open(i) /\ i # asker
      /\ \A i : Unasked(i)' <=> Unasked(i)
      /\ \A i : Queued(i)' <=> Queued(i)
      /\ \A r : Zap!Id(r)' = Zap!Id(r)
  BY <1>1 DEF Open, Queued, Unasked, Zap!Id
<1>4. ZapTypes' BY <1>1, <1>3 DEF ZapTypes, Zap!TypeOK
<1>5. RepliesAreVerdicts'
  BY <1>1, <1>3 DEF ZapInv, RepliesAreVerdicts, Status
<1>6. OpenOnce'
  <2>1. ASSUME NEW i \in Zap!Ids, Open(i)'
        PROVE  verdict'[i] = "none" /\ i \in peers' \cup gaveUp'
    BY <2>1, <1>0, <1>1, <1>3 DEF OpenOnce
  <2>2. ASSUME NEW i \in Zap!Ids, Unasked(i)' PROVE verdict'[i] = "none" /\ ~Open(i)'
    BY <2>2, <1>0, <1>1, <1>3 DEF OpenOnce
  <2> QED BY <2>1, <2>2, <1>1 DEF OpenOnce
<1>7. AskersListed' BY <1>0 DEF ZapInv, AskersListed
<1>8. LeftBehindUnasked'
  <2>1. LeftBehindUnasked /\ peers \cup pending \subseteq Zap!Ids
    BY <1>1 DEF ZapInv, ZapTypes, Zap!TypeOK
  <2> QED BY <2>1, <1>0, <1>1, <1>3 DEF LeftBehindUnasked
<1>9. Zap!VerdictIsOwn'
  <2>1. ASSUME NEW r \in Servers, auth[r] \in {"ok", "denied"}
        PROVE  verdict'[Zap!Id(r)] = verdict[Zap!Id(r)]
    <3>1. Zap!Id(r) \in Zap!Ids BY <2>1, <1>1, OwnId
    <3>2. verdict[Zap!Id(r)] # "none" BY <2>1 DEF ZapInv, Zap!VerdictIsOwn
    <3> QED BY <3>1, <3>2, <1>1, <1>3
  <2> QED BY <2>1, <1>0 DEF ZapInv, Zap!VerdictIsOwn
<1> QED BY <1>4, <1>5, <1>6, <1>7, <1>8, <1>9 DEF ZapInv

(* Every step keeps the invariant. *)
LEMMA ZapStep == ZapInv /\ Zap!Next => ZapInv'
  BY ZapAuthorize, ZapConnectFound, ZapConnectMissed, ZapSendRequest, ZapReceiveReply,
     ZapReplyTimeout, ZapHandlerBind, ZapHandlerUnbind, ZapHandlerRecv, ZapHandlerSend
     DEF Zap!Next

(* The invariant says what VerdictsAreOwn does. *)
LEMMA ZapInvImplies ==
  ASSUME ZapInv
  PROVE  Zap!TypeOK /\ Zap!VerdictIsOwn /\ Zap!NobodyLeftBehind /\ Zap!ReplyHasAddressee
<1>1. Zap!TypeOK /\ Zap!VerdictIsOwn BY DEF ZapInv, ZapTypes
<1>2. Zap!NobodyLeftBehind
  <2>1. peers \cup pending \subseteq Zap!Ids BY <1>1 DEF Zap!TypeOK
  <2>2. \A i \in Zap!Ids : verdict[i] = "none" => replies[i] = <<>>
    BY DEF ZapInv, RepliesAreVerdicts
  <2> QED BY <2>1, <2>2 DEF ZapInv, LeftBehindUnasked, Zap!NobodyLeftBehind, Open, Queued
<1>3. Zap!ReplyHasAddressee
  BY DEF ZapInv, OpenOnce, Open, Zap!ReplyHasAddressee
<1> QED BY <1>1, <1>2, <1>3

(***************************************************************************)
(* For every number of sockets and handshakes: a handshake is let in or    *)
(* turned away only by the ZAP handler's answer to its own request,        *)
(* however many requests share the handler's queue, time out or lose the   *)
(* handler on the way; its transient peer is gone when it has ended unless *)
(* it lost the handler before it connected; and the handler, holding a     *)
(* request, can address its sender or the sender has given up              *)
(* (authorize_plain_via_zap, authorize_curve_via_zap, wait_zap_reply).     *)
(***************************************************************************)
THEOREM VerdictsAlwaysOwn == DeliverySpec => []VerdictsAreOwn
<1> DEFINE Inv == part = "zap" => ZapInv
<1>1. DeliveryInit => Inv BY ZapInit DEF DeliveryInit
<1>2. Inv /\ [DeliveryNext]_<<part, zapVars, distVars, routeVars>> => Inv'
  BY ZapStep, ZapStutters DEF DeliveryNext
<1>3. Inv => VerdictsAreOwn BY ZapInvImplies DEF VerdictsAreOwn
<1> HIDE DEF Inv
<1> QED BY <1>1, <1>2, <1>3, PTL DEF DeliverySpec

-----------------------------------------------------------------------------
(* Distribution. *)

Ran(q) == {q[n] : n \in 1 .. Len(q)}
OnceEach(q) == \A m, n \in 1 .. Len(q) : q[m] = q[n] => m = n

(* The call counts its messages and the attempts at each. *)
Counted ==
  /\ Dist!TypeOK
  /\ pub.nodrop => pub.type = "Xpub"
  /\ send.id <= send.sent /\ send.tries <= send.sent
  /\ send.pc # "idle" => send.tries > 0 /\ send.id > 0

(* Peers and what is left to do hold nobody twice.  While the publisher    *)
(* looks it has the list, and takes who is left from it; nobody in the     *)
(* outboxes is looked at again.                                            *)
ListsSound ==
  /\ OnceEach(members) /\ OnceEach(send.todo)
  /\ send.pc = "look" =>
       /\ Ran(send.todo) \subseteq Ran(members)
       /\ OnceEach(send.boxes)
       /\ Ran(send.todo) \cap Ran(send.boxes) = {}
       /\ pub.type = "Pub" => send.boxes = <<>>
  /\ send.pc = "push" => pub.type # "Pub"

(* What the call has to know of the past: who stayed is there still, and   *)
(* who is there and interested is among those that were at some time.      *)
WitnessSound ==
  /\ \A p \in send.steady :
       p \in Ran(members) /\ Dist!Interested(p, send.topic)
  /\ Dist!InCall =>
       \A p \in Subs : p \in Ran(members) /\ Dist!Interested(p, send.topic)
                         => p \in send.ever

(* Who stayed was reached or is going to be; who is going to be reached    *)
(* was interested, and was not reached in this call yet.                   *)
OnTheWay ==
  /\ send.pc = "look" =>
       /\ \A p \in send.steady :
            p \in Ran(send.todo) \cup Ran(send.boxes) \/ times[p] > 0
       /\ Ran(send.boxes) \subseteq send.ever
       /\ \A p \in Ran(send.todo) \cup Ran(send.boxes) : times[p] < send.tries
  /\ send.pc = "push" =>
       /\ \A p \in send.steady : p \in Ran(send.todo) \/ times[p] > 0
       /\ Ran(send.todo) \subseteq send.ever
       /\ \A p \in Ran(send.todo) : times[p] < send.tries
       /\ send.todo = <<>> => \E p \in Subs : times[p] > 0

(* No inbox holds a message that was not sent yet. *)
Sent ==
  \A p \in Subs : \A k \in 1 .. Len(boxes[p]) : boxes[p][k] <= send.id

(* The inductive invariant of the distribution part. *)
DistInv ==
  /\ Counted /\ ListsSound /\ WitnessSound /\ OnTheWay /\ Sent
  /\ Dist!OkReachesEveryone /\ Dist!OnlyTheInterested /\ Dist!InOrderOncePerCall
  /\ Dist!NoDropDelivers /\ Dist!Bounded

Sorted(q) == \A k \in 1 .. Len(q) - 1 : q[k] <= q[k + 1]

(* Lists: the rest of one, one with a new last element, one without one of *)
(* its elements.                                                           *)
LEMMA RestOf ==
  ASSUME NEW S, NEW q \in Seq(S), q # <<>>
  PROVE  /\ Tail(q) \in Seq(S) /\ Head(q) \in S /\ Ran(q) = {Head(q)} \cup Ran(Tail(q))
         /\ OnceEach(q) => OnceEach(Tail(q)) /\ Head(q) \notin Ran(Tail(q))
<1>1. /\ Len(q) \in Nat /\ Len(q) > 0 /\ Tail(q) \in Seq(S) /\ Head(q) = q[1] /\ q[1] \in S
      /\ Len(Tail(q)) = Len(q) - 1
      /\ \A n \in 1 .. Len(q) - 1 : Tail(q)[n] = q[n + 1]
  OBVIOUS
<1>2. Ran(q) = {Head(q)} \cup Ran(Tail(q))
  <2>1. ASSUME NEW n \in 1 .. Len(q), n # 1
        PROVE  n - 1 \in 1 .. Len(Tail(q)) /\ q[n] = Tail(q)[n - 1]
    BY <2>1, <1>1
  <2>2. ASSUME NEW n \in 1 .. Len(Tail(q))
        PROVE  n + 1 \in 1 .. Len(q) /\ q[n + 1] = Tail(q)[n]
    BY <1>1
  <2>3. 1 \in 1 .. Len(q) BY <1>1
  <2> QED BY <2>1, <2>2, <2>3, <1>1 DEF Ran
<1>3. ASSUME OnceEach(q) PROVE OnceEach(Tail(q)) /\ Head(q) \notin Ran(Tail(q))
  BY <1>3, <1>1 DEF OnceEach, Ran
<1> QED BY <1>1, <1>2, <1>3

LEMMA WithLast ==
  ASSUME NEW S, NEW q \in Seq(S), NEW x \in S
  PROVE  /\ Append(q, x) \in Seq(S) /\ Ran(Append(q, x)) = Ran(q) \cup {x}
         /\ OnceEach(q) /\ x \notin Ran(q) => OnceEach(Append(q, x))
<1>1. /\ Len(q) \in Nat /\ Append(q, x) \in Seq(S) /\ Len(Append(q, x)) = Len(q) + 1
      /\ \A n \in 1 .. Len(q) : Append(q, x)[n] = q[n]
      /\ Append(q, x)[Len(q) + 1] = x
  OBVIOUS
<1>2. \A n \in 1 .. Len(q) + 1 : n \in 1 .. Len(q) \/ n = Len(q) + 1 BY <1>1
<1>3. Ran(Append(q, x)) = Ran(q) \cup {x} BY <1>1, <1>2 DEF Ran
<1>4. OnceEach(q) /\ x \notin Ran(q) => OnceEach(Append(q, x))
  BY <1>1, <1>2 DEF OnceEach, Ran
<1> QED BY <1>1, <1>3, <1>4

LEMMA WithoutOne ==
  ASSUME NEW S, NEW q \in Seq(S), NEW k \in 1 .. Len(q), OnceEach(q)
  PROVE  /\ Dist!RemoveAt(q, k) \in Seq(S) /\ OnceEach(Dist!RemoveAt(q, k))
         /\ Ran(Dist!RemoveAt(q, k)) = Ran(q) \ {q[k]}
<1> DEFINE r == Dist!RemoveAt(q, k)
<1>1. /\ Len(q) \in Nat /\ r \in Seq(S) /\ Len(r) = Len(q) - 1
      /\ \A n \in 1 .. Len(q) - 1 : r[n] = IF n < k THEN q[n] ELSE q[n + 1]
  <2> DEFINE a == SubSeq(q, 1, k - 1)
             b == SubSeq(q, k + 1, Len(q))
  <2>1. Len(q) \in Nat /\ r = a \o b BY DEF Dist!RemoveAt
  <2>2. a \in Seq(S) /\ Len(a) = k - 1 /\ \A n \in 1 .. k - 1 : a[n] = q[n]
    OBVIOUS
  <2>3. b \in Seq(S) /\ Len(b) = Len(q) - k /\ \A n \in 1 .. Len(q) - k : b[n] = q[k + n]
    OBVIOUS
  <2> HIDE DEF r, a, b
  <2>4. /\ r \in Seq(S) /\ Len(r) = Len(a) + Len(b)
        /\ \A n \in 1 .. Len(a) + Len(b) : r[n] = IF n <= Len(a) THEN a[n] ELSE b[n - Len(a)]
    BY <2>1, <2>2, <2>3, ConcatProperties
  <2>5. ASSUME NEW n \in 1 .. Len(q) - 1
        PROVE  r[n] = IF n < k THEN q[n] ELSE q[n + 1]
    <3>1. CASE n < k BY <3>1, <2>1, <2>2, <2>3, <2>4
    <3>2. CASE ~(n < k)
      <4>1. n - (k - 1) \in 1 .. Len(q) - k BY <3>2, <2>1
      <4>2. b[n - (k - 1)] = q[n + 1] BY <4>1, <2>3
      <4> QED BY <3>2, <4>2, <2>1, <2>2, <2>3, <2>4
    <3> QED BY <3>1, <3>2
  <2> QED BY <2>1, <2>2, <2>3, <2>4, <2>5
<1> HIDE DEF r
<1>2. OnceEach(r)
  <2> DEFINE pos(n) == IF n < k THEN n ELSE n + 1
  <2>1. ASSUME NEW n \in 1 .. Len(r) PROVE pos(n) \in 1 .. Len(q) /\ r[n] = q[pos(n)]
    BY <1>1
  <2>2. ASSUME NEW m \in 1 .. Len(r), NEW n \in 1 .. Len(r), pos(m) = pos(n) PROVE m = n
    BY <2>2, <1>1
  <2> HIDE DEF pos
  <2> QED BY <2>1, <2>2 DEF OnceEach
<1>3. Ran(r) = Ran(q) \ {q[k]}
  <2>1. ASSUME NEW n \in 1 .. Len(r) PROVE r[n] \in Ran(q) \ {q[k]}
    <3>1. CASE n < k
      <4>1. n \in 1 .. Len(q) /\ r[n] = q[n] /\ n # k BY <3>1, <1>1
      <4> QED BY <4>1 DEF Ran, OnceEach
    <3>2. CASE ~(n < k)
      <4>1. n + 1 \in 1 .. Len(q) /\ r[n] = q[n + 1] /\ n + 1 # k BY <3>2, <1>1
      <4> QED BY <4>1 DEF Ran, OnceEach
    <3> QED BY <3>1, <3>2
  <2>2. ASSUME NEW n \in 1 .. Len(q), q[n] # q[k] PROVE q[n] \in Ran(r)
    <3>1. CASE n < k
      <4>1. n \in 1 .. Len(r) /\ r[n] = q[n] BY <3>1, <1>1
      <4> QED BY <4>1 DEF Ran
    <3>2. CASE n > k
      <4>1. n - 1 \in 1 .. Len(r) /\ r[n - 1] = q[n] BY <3>2, <1>1
      <4> QED BY <4>1 DEF Ran
    <3> QED BY <3>1, <3>2, <2>2
  <2> QED BY <2>1, <2>2 DEF Ran
<1> QED BY <1>1, <1>2, <1>3 DEF r

(* A sorted queue stays sorted when its newest message is put at its end,  *)
(* or its oldest taken from it.                                            *)
LEMMA SortedWithLast ==
  ASSUME NEW q \in Seq(Nat), NEW x \in Nat, Sorted(q), \A k \in 1 .. Len(q) : q[k] <= x
  PROVE  /\ Sorted(Append(q, x)) /\ Len(Append(q, x)) = Len(q) + 1
         /\ \A k \in 1 .. Len(Append(q, x)) : Append(q, x)[k] <= x
<1>1. /\ Len(q) \in Nat /\ Len(Append(q, x)) = Len(q) + 1
      /\ \A n \in 1 .. Len(q) : Append(q, x)[n] = q[n]
      /\ Append(q, x)[Len(q) + 1] = x
  OBVIOUS
<1> QED BY <1>1 DEF Sorted

LEMMA SortedRest ==
  ASSUME NEW q \in Seq(Nat), q # <<>>, Sorted(q)
  PROVE  /\ Sorted(Tail(q)) /\ Len(Tail(q)) = Len(q) - 1 /\ Len(q) \in Nat /\ Len(q) > 0
         /\ \A n \in 1 .. Len(q) - 1 : Tail(q)[n] = q[n + 1]
<1>1. /\ Len(q) \in Nat /\ Len(q) > 0 /\ Len(Tail(q)) = Len(q) - 1
      /\ \A n \in 1 .. Len(q) - 1 : Tail(q)[n] = q[n + 1]
  OBVIOUS
<1> QED BY <1>1 DEF Sorted

LEMMA RangeIsRan ==
  ASSUME NEW S, NEW q \in Seq(S)
  PROVE  Dist!Range(q) = Ran(q)
  BY DEF Dist!Range, Ran

(* The initial states satisfy the invariant. *)
LEMMA DistInit == Dist!Init => DistInv
<1> SUFFICES ASSUME Dist!Init PROVE DistInv OBVIOUS
<1> USE DeliveryAssumption DEF Dist!Init
<1>1. Dist!TypeOK
  <2>1. <<>> \in Seq(Subs) /\ <<>> \in Seq(1 .. MaxSends) OBVIOUS
  <2>2. (CHOOSE t \in Topics : TRUE) \in Topics OBVIOUS
  <2>3. send \in Dist!Call BY <2>1, <2>2 DEF Dist!Call
  <2>4. boxes \in [Subs -> Seq(1 .. MaxSends)] /\ times \in [Subs -> 0 .. MaxSends]
    BY <2>1
  <2>5. want \in [Subs -> [Topics -> 0 .. MaxWant]] OBVIOUS
  <2> QED BY <2>1, <2>3, <2>4, <2>5 DEF Dist!TypeOK
<1>2. Counted BY <1>1 DEF Counted
<1>3. ListsSound BY DEF ListsSound, OnceEach
<1>4. WitnessSound /\ OnTheWay BY DEF WitnessSound, OnTheWay, Dist!InCall
<1>5. Sent BY DEF Sent
<1>6. Dist!OkReachesEveryone /\ Dist!OnlyTheInterested /\ Dist!NoDropDelivers
  BY DEF Dist!OkReachesEveryone, Dist!OnlyTheInterested, Dist!NoDropDelivers
<1>7. Dist!InOrderOncePerCall BY DEF Dist!InOrderOncePerCall
<1>8. Dist!Bounded BY DEF Dist!Bounded
<1> QED BY <1>2, <1>3, <1>4, <1>5, <1>6, <1>7, <1>8 DEF DistInv

(* The invariant is about nothing but the variables of the part. *)
LEMMA DistStutters == DistInv /\ UNCHANGED distVars => DistInv'
<1> SUFFICES ASSUME DistInv, UNCHANGED distVars PROVE DistInv' OBVIOUS
<1> USE DEF distVars, DistInv
<1>1. Counted' BY DEF Counted, Dist!TypeOK
<1>2. ListsSound' BY DEF ListsSound
<1>3. WitnessSound' BY DEF WitnessSound, Dist!InCall, Dist!Interested, Dist!Accepts
<1>4. OnTheWay' BY DEF OnTheWay
<1>5. Sent' BY DEF Sent
<1>6. Dist!OkReachesEveryone' /\ Dist!OnlyTheInterested' /\ Dist!NoDropDelivers'
  BY DEF Dist!OkReachesEveryone, Dist!OnlyTheInterested, Dist!NoDropDelivers
<1>7. Dist!InOrderOncePerCall' BY DEF Dist!InOrderOncePerCall
<1>8. Dist!Bounded' BY DEF Dist!Bounded
<1> QED BY <1>1, <1>2, <1>3, <1>4, <1>5, <1>6, <1>7, <1>8

(* The parts of the state the steps below speak of. *)
LEMMA DistTypes ==
  ASSUME DistInv
  PROVE  /\ send \in Dist!Call /\ send.pc \in {"idle", "look", "push", "ok", "again"}
         /\ send.topic \in Topics /\ send.todo \in Seq(Subs) /\ send.boxes \in Seq(Subs)
         /\ send.steady \subseteq Subs /\ send.ever \subseteq Subs
         /\ send.id \in 0 .. MaxSends /\ send.tries \in 0 .. MaxSends
         /\ send.sent \in 0 .. MaxSends /\ MaxSends \in Nat /\ SndHwm \in Nat
         /\ members \in Seq(Subs) /\ boxes \in [Subs -> Seq(1 .. MaxSends)]
         /\ times \in [Subs -> 0 .. MaxSends]
         /\ \A p \in Subs : boxes[p] \in Seq(Nat) /\ Sorted(boxes[p])
         /\ pub.conflate \in BOOLEAN
<1>1. Dist!TypeOK BY DEF DistInv, Counted
<1>2. ASSUME NEW p \in Subs PROVE boxes[p] \in Seq(Nat) /\ Sorted(boxes[p])
  <2>1. boxes[p] \in Seq(1 .. MaxSends) BY <1>1 DEF Dist!TypeOK
  <2>2. boxes[p] \in Seq(Nat) BY <2>1, DeliveryAssumption
  <2> QED BY <2>2 DEF DistInv, Dist!InOrderOncePerCall, Sorted
<1> QED BY <1>1, <1>2, DeliveryAssumption DEF Dist!TypeOK, Dist!Call

(* A step that changes of a call only who stayed and who was ever there    *)
(* leaves the rest of the invariant alone.                                 *)
LEMMA HistoryOnly ==
  ASSUME DistInv, UNCHANGED <<pub, boxes, times>>,
         send' \in Dist!Call, want' \in [Subs -> [Topics -> 0 .. MaxWant]],
         send'.pc = send.pc, send'.id = send.id, send'.topic = send.topic,
         send'.todo = send.todo, send'.boxes = send.boxes,
         send'.tries = send.tries, send'.sent = send.sent,
         send'.steady \subseteq send.steady, send.ever \subseteq send'.ever,
         members' \in Seq(Subs), OnceEach(members'),
         send.pc = "look" => members' = members,
         WitnessSound'
  PROVE  DistInv'
<1> USE DEF DistInv
<1>1. Counted' BY DEF Counted, Dist!TypeOK
<1>2. ListsSound' BY DEF ListsSound
<1>4. OnTheWay' BY DEF OnTheWay
<1>5. Sent' BY DEF Sent
<1>6. Dist!OkReachesEveryone' /\ Dist!OnlyTheInterested' /\ Dist!NoDropDelivers'
  BY DEF Dist!OkReachesEveryone, Dist!OnlyTheInterested, Dist!NoDropDelivers
<1>7. Dist!InOrderOncePerCall' BY DEF Dist!InOrderOncePerCall
<1>8. Dist!Bounded' BY DEF Dist!Bounded
<1> QED BY <1>1, <1>2, <1>4, <1>5, <1>6, <1>7, <1>8

(* Witness keeps the history right when p alone comes, goes or changes its *)
(* subscriptions.                                                          *)
LEMMA WitnessKeeps ==
  ASSUME DistInv, NEW p \in Subs, NEW l \in BOOLEAN, UNCHANGED <<pub, boxes, times>>,
         send' = Dist!Witness(p, l, want'[p]),
         want' \in [Subs -> [Topics -> 0 .. MaxWant]],
         \A q \in Subs : q # p => want'[q] = want[q],
         members' \in Seq(Subs), OnceEach(members'),
         send.pc = "look" => members' = members,
         l <=> p \in Ran(members'),
         \A q \in Subs : q # p => (q \in Ran(members') <=> q \in Ran(members))
  PROVE  DistInv'
<1> DEFINE on == l /\ Dist!Accepts(want'[p], send.topic)
           st == IF on THEN send.steady ELSE send.steady \ {p}
           ev == IF on /\ Dist!InCall THEN send.ever \cup {p} ELSE send.ever
<1>1. send' = [send EXCEPT !.steady = st, !.ever = ev] BY DEF Dist!Witness
<1>2. st \subseteq send.steady /\ send.ever \subseteq ev /\ ev \subseteq Subs /\ st \subseteq Subs
  BY DistTypes
<1>3. (p \in st => on) /\ (on /\ Dist!InCall => p \in ev) OBVIOUS
<1> HIDE DEF st, ev
<1>4. /\ send' \in Dist!Call /\ send'.steady = st /\ send'.ever = ev
      /\ send'.pc = send.pc /\ send'.id = send.id /\ send'.topic = send.topic
      /\ send'.todo = send.todo /\ send'.boxes = send.boxes
      /\ send'.tries = send.tries /\ send'.sent = send.sent
  BY <1>1, <1>2, DistTypes DEF Dist!Call
<1>5. \A q \in Subs :
        /\ Dist!Interested(q, send.topic)' <=> Dist!Accepts(want'[q], send.topic)
        /\ q # p => (Dist!Interested(q, send.topic)' <=> Dist!Interested(q, send.topic))
  BY <1>4 DEF Dist!Interested, Dist!Accepts
<1>6. WitnessSound'
  <2>1. WitnessSound /\ send.topic \in Topics /\ send.steady \subseteq Subs
    BY DistTypes DEF DistInv
  <2>2. ASSUME NEW q \in st PROVE q \in Ran(members') /\ Dist!Interested(q, send.topic)'
    <3>1. CASE q = p BY <3>1, <2>1, <2>2, <1>3, <1>5
    <3>2. CASE q # p
      <4>1. q \in send.steady /\ q \in Subs BY <1>2
      <4>2. q \in Ran(members) /\ Dist!Interested(q, send.topic)
        BY <4>1, <2>1 DEF WitnessSound
      <4> QED BY <4>1, <4>2, <3>2, <2>1, <1>5
    <3> QED BY <3>1, <3>2
  <2>3. ASSUME Dist!InCall, NEW q \in Subs, q \in Ran(members'),
               Dist!Interested(q, send.topic)'
        PROVE  q \in ev
    <3>1. CASE q = p BY <3>1, <2>1, <2>3, <1>3, <1>5
    <3>2. CASE q # p
      <4>1. q \in Ran(members) /\ Dist!Interested(q, send.topic)
        BY <3>2, <2>3, <2>1, <1>5
      <4> QED BY <4>1, <2>1, <2>3, <1>2 DEF WitnessSound
    <3> QED BY <3>1, <3>2
  <2>4. Dist!InCall' <=> Dist!InCall BY <1>4 DEF Dist!InCall
  <2> QED BY <2>2, <2>3, <2>4, <1>2, <1>4 DEF WitnessSound
<1> QED BY <1>2, <1>4, <1>6, HistoryOnly

LEMMA DistSubscribe ==
  ASSUME DistInv, NEW p \in Subs, NEW t \in Topics,
         Dist!Subscribe(p, t) \/ Dist!Unsubscribe(p, t)
  PROVE  DistInv'
<1> USE DEF Dist!Subscribe, Dist!Unsubscribe
<1>1. /\ want \in [Subs -> [Topics -> 0 .. MaxWant]] /\ MaxWant \in Nat
      /\ members \in Seq(Subs) /\ OnceEach(members)
  BY DeliveryAssumption DEF DistInv, Counted, Dist!TypeOK, ListsSound
<1>2. PICK n \in 0 .. MaxWant : want' = [want EXCEPT ![p] = Dist!Count(p, t, n)]
  <2>1. want[p][t] \in 0 .. MaxWant BY <1>1
  <2>2. CASE Dist!Subscribe(p, t)
    <3>1. want' = [want EXCEPT ![p] = Dist!Count(p, t, want[p][t] + 1)] BY <2>2
    <3>2. want[p][t] + 1 \in 0 .. MaxWant BY <2>1, <2>2, <1>1
    <3> QED BY <3>1, <3>2
  <2>3. CASE Dist!Unsubscribe(p, t)
    <3>1. want' = [want EXCEPT ![p] = Dist!Count(p, t, want[p][t] - 1)] BY <2>3
    <3>2. want[p][t] - 1 \in 0 .. MaxWant BY <2>1, <2>3, <1>1
    <3> QED BY <3>1, <3>2
  <2> QED BY <2>2, <2>3
<1>3. Dist!Count(p, t, n) \in [Topics -> 0 .. MaxWant] BY <1>1 DEF Dist!Count
<1>4. /\ want' \in [Subs -> [Topics -> 0 .. MaxWant]]
      /\ \A q \in Subs : q # p => want'[q] = want[q]
  BY <1>1, <1>2, <1>3
<1>5. /\ send' = Dist!Witness(p, Dist!Listed(p), want'[p])
      /\ UNCHANGED <<pub, members, boxes, times>>
  OBVIOUS
<1>6. Dist!Listed(p) \in BOOLEAN /\ (Dist!Listed(p) <=> p \in Ran(members))
  BY <1>1, RangeIsRan DEF Dist!Listed
<1> QED BY <1>1, <1>4, <1>5, <1>6, WitnessKeeps

LEMMA DistConnect ==
  ASSUME DistInv, NEW p \in Subs, Dist!Connect(p)
  PROVE  DistInv'
<1> USE DEF Dist!Connect
<1>1. /\ want \in [Subs -> [Topics -> 0 .. MaxWant]]
      /\ members \in Seq(Subs) /\ OnceEach(members)
  BY DEF DistInv, Counted, Dist!TypeOK, ListsSound
<1>2. p \notin Ran(members) BY <1>1, RangeIsRan DEF Dist!Listed
<1>3. /\ members' \in Seq(Subs) /\ OnceEach(members') /\ Ran(members') = Ran(members) \cup {p}
  BY <1>1, <1>2, WithLast
<1>4. send.pc # "look" BY DEF Dist!ListHeld
<1>5. /\ send' = Dist!Witness(p, TRUE, want'[p])
      /\ UNCHANGED <<pub, want, boxes, times>>
  OBVIOUS
<1> QED BY <1>1, <1>3, <1>4, <1>5, WitnessKeeps

LEMMA DistDisconnect ==
  ASSUME DistInv, NEW p \in Subs, Dist!Disconnect(p)
  PROVE  DistInv'
<1> USE DEF Dist!Disconnect
<1>1. /\ want \in [Subs -> [Topics -> 0 .. MaxWant]]
      /\ members \in Seq(Subs) /\ OnceEach(members)
  BY DEF DistInv, Counted, Dist!TypeOK, ListsSound
<1>2. PICK k \in 1 .. Len(members) : members[k] = p /\ members' = Dist!RemoveAt(members, k)
  OBVIOUS
<1>3. /\ members' \in Seq(Subs) /\ OnceEach(members') /\ Ran(members') = Ran(members) \ {p}
  BY <1>1, <1>2, WithoutOne
<1>4. send.pc # "look" BY DEF Dist!ListHeld
<1>5. /\ send' = Dist!Witness(p, FALSE, want'[p])
      /\ UNCHANGED <<pub, want, boxes, times>>
  OBVIOUS
<1> QED BY <1>1, <1>3, <1>4, <1>5, WitnessKeeps

(* A subscriber takes the oldest message from its queue. *)
LEMMA DistRecv ==
  ASSUME DistInv, NEW p \in Subs, Dist!Recv(p)
  PROVE  DistInv'
<1> USE DEF Dist!Recv
<1>1. /\ boxes \in [Subs -> Seq(1 .. MaxSends)] /\ boxes[p] # <<>>
      /\ boxes[p] \in Seq(Nat) /\ Sorted(boxes[p])
      /\ boxes[p] \in Seq(1 .. MaxSends)
  BY DistTypes
<1>2. /\ boxes'[p] = Tail(boxes[p]) /\ boxes'[p] \in Seq(1 .. MaxSends)
      /\ \A q \in Subs : q # p => boxes'[q] = boxes[q]
      /\ boxes' \in [Subs -> Seq(1 .. MaxSends)]
  BY <1>1
<1>3. /\ Sorted(boxes'[p]) /\ Len(boxes'[p]) = Len(boxes[p]) - 1
      /\ Len(boxes[p]) \in Nat /\ Len(boxes[p]) > 0
      /\ \A n \in 1 .. Len(boxes[p]) - 1 : boxes'[p][n] = boxes[p][n + 1]
  BY <1>1, <1>2, SortedRest
<1>4. Counted' BY <1>2 DEF DistInv, Counted, Dist!TypeOK
<1>5. ListsSound' BY DEF DistInv, ListsSound
<1>6. WitnessSound' BY DEF DistInv, WitnessSound, Dist!InCall, Dist!Interested, Dist!Accepts
<1>7. OnTheWay' BY DEF DistInv, OnTheWay
<1>8. Sent'
  <2>1. ASSUME NEW n \in 1 .. Len(boxes'[p]) PROVE boxes'[p][n] <= send.id
    BY <1>3 DEF DistInv, Sent
  <2> QED BY <2>1, <1>2 DEF DistInv, Sent
<1>9. Dist!OkReachesEveryone' /\ Dist!OnlyTheInterested' /\ Dist!NoDropDelivers'
  BY DEF DistInv, Dist!OkReachesEveryone, Dist!OnlyTheInterested, Dist!NoDropDelivers
<1>10. Dist!InOrderOncePerCall'
  BY <1>2, <1>3 DEF DistInv, Dist!InOrderOncePerCall, Sorted
<1>11. Dist!Bounded'
  <2> SUFFICES ASSUME pub.type # "Pub", NEW q \in Subs
               PROVE  /\ pub.conflate => Len(boxes'[q]) <= 1
                      /\ pub.conflate /\ times[q] > 0 => boxes'[q] \in {<<>>, <<send.id>>}
                      /\ ~pub.conflate /\ SndHwm > 0 => Len(boxes'[q]) <= SndHwm
    BY DEF Dist!Bounded
  <2>1. CASE q # p BY <2>1, <1>2 DEF DistInv, Dist!Bounded
  <2>2. CASE q = p
    <3>1. pub.conflate => Len(boxes[p]) <= 1 BY DEF DistInv, Dist!Bounded
    <3>2. ~pub.conflate /\ SndHwm > 0 => Len(boxes[p]) <= SndHwm
      BY DEF DistInv, Dist!Bounded
    <3>3. ASSUME pub.conflate PROVE Len(boxes'[p]) = 0
      <4> DEFINE a == Len(boxes[p])
                 b == Len(boxes'[p])
      <4>1. a \in Nat /\ a > 0 /\ b = a - 1 /\ a <= 1 BY <3>1, <3>3, <1>3
      <4> HIDE DEF a, b
      <4>2. b = 0 BY <4>1
      <4> QED BY <4>2 DEF b
    <3>4. ASSUME pub.conflate PROVE boxes'[p] = <<>> BY <3>3, <3>4, <1>2
    <3>5. ~pub.conflate /\ SndHwm > 0 => Len(boxes'[p]) <= SndHwm
      BY <3>2, <1>3, DeliveryAssumption
    <3> QED BY <2>2, <3>3, <3>4, <3>5
  <2> QED BY <2>1, <2>2
<1> QED BY <1>4, <1>5, <1>6, <1>7, <1>8, <1>9, <1>10, <1>11 DEF DistInv

(* A call begins: with the list as it is, nobody has been reached by it. *)
LEMMA DistBegin ==
  ASSUME DistInv, NEW i, NEW t \in Topics, Dist!Begin(i, t),
         i = send.id + 1 \/ (i = send.id /\ send.pc = "again")
  PROVE  DistInv'
<1> USE DEF Dist!Begin
<1> DEFINE on == {p \in Dist!Range(members) : Dist!Interested(p, t)}
           n == IF i = send.id THEN send.tries + 1 ELSE 1
<1>1. /\ send.pc # "look" /\ send.pc # "push" /\ send.sent < MaxSends
      /\ send' = [pc |-> "look", id |-> i, topic |-> t, todo |-> members,
                  boxes |-> <<>>, steady |-> on, ever |-> on, tries |-> n,
                  sent |-> send.sent + 1]
      /\ times' = IF i = send.id THEN times ELSE [p \in Subs |-> 0]
      /\ UNCHANGED <<pub, want, members, boxes>>
  BY DEF Dist!InCall
<1>2. on = {p \in Ran(members) : Dist!Interested(p, t)} /\ Ran(members) \subseteq Subs
  <2>1. members \in Seq(Subs) BY DistTypes
  <2> QED BY <2>1, RangeIsRan DEF Ran
<1>3. /\ i \in 1 .. MaxSends /\ n \in 1 .. MaxSends
      /\ i <= send.sent + 1 /\ n <= send.sent + 1 /\ send.sent + 1 \in 0 .. MaxSends
      /\ i = send.id => n > 1
      /\ i >= send.id
  <2>1. /\ send.id \in Nat /\ send.tries \in Nat /\ send.sent \in Nat /\ MaxSends \in Nat
        /\ send.id <= send.sent /\ send.tries <= send.sent /\ send.sent < MaxSends
    BY <1>1, DistTypes DEF DistInv, Counted
  <2>2. CASE i = send.id + 1
    <3>1. i # send.id /\ n = 1 BY <2>1, <2>2
    <3> HIDE DEF n
    <3> QED BY <2>1, <2>2, <3>1
  <2>3. CASE i = send.id /\ send.pc = "again"
    <3>1. send.tries > 0 /\ send.id > 0 BY <2>3 DEF DistInv, Counted
    <3>2. n = send.tries + 1 BY <2>3
    <3> HIDE DEF n
    <3> QED BY <2>1, <2>3, <3>1, <3>2
  <2> QED BY <2>2, <2>3
<1>4. /\ times' \in [Subs -> 0 .. MaxSends]
      /\ \A p \in Subs : times'[p] < n
      /\ \A p \in Subs : times'[p] > 0 => n > 1 /\ i = send.id /\ times'[p] = times[p]
  <2>1. CASE i = send.id
    <3>1. \A p \in Subs : times[p] <= send.tries BY DEF DistInv, Dist!InOrderOncePerCall
    <3>2. times' = times /\ n = send.tries + 1 BY <2>1, <1>1
    <3> QED BY <3>1, <3>2, <2>1, <1>3, DistTypes
  <2>2. CASE i # send.id
    <3>1. times' = [p \in Subs |-> 0] /\ n = 1 BY <2>2, <1>1
    <3> QED BY <3>1, DistTypes
  <2> QED BY <2>1, <2>2
<1> HIDE DEF on, n
<1>5. /\ send' \in Dist!Call /\ send'.pc = "look" /\ send'.id = i /\ send'.topic = t
      /\ send'.todo = members /\ send'.boxes = <<>> /\ send'.steady = on /\ send'.ever = on
      /\ send'.tries = n /\ send'.sent = send.sent + 1
  <2>1. members \in Seq(Subs) /\ <<>> \in Seq(Subs) BY DistTypes
  <2> QED BY <2>1, <1>1, <1>2, <1>3 DEF Dist!Call
<1>6. Counted'
  <2>1. Dist!TypeOK' BY <1>1, <1>4, <1>5 DEF DistInv, Counted, Dist!TypeOK
  <2>2. pub'.nodrop => pub'.type = "Xpub" BY <1>1 DEF DistInv, Counted
  <2> QED BY <2>1, <2>2, <1>3, <1>5 DEF Counted
<1>7. ListsSound'
  <2>1. OnceEach(<<>>) /\ Ran(<<>>) = {} BY DEF OnceEach, Ran
  <2> QED BY <2>1, <1>1, <1>5 DEF DistInv, ListsSound
<1>8. WitnessSound'
  <2>1. \A p \in Subs : Dist!Interested(p, send.topic)' <=> Dist!Interested(p, t)
    BY <1>1, <1>5 DEF Dist!Interested, Dist!Accepts
  <2> QED BY <2>1, <1>1, <1>2, <1>5 DEF WitnessSound
<1>9. OnTheWay'
  <2>1. Ran(<<>>) = {} BY DEF Ran
  <2>2. \A p \in on : p \in Ran(members) BY <1>2
  <2>3. \A p \in Ran(members) : times'[p] < n BY <1>2, <1>4
  <2> QED BY <2>1, <2>2, <2>3, <1>5 DEF OnTheWay
<1>10. Sent'
  <2> SUFFICES ASSUME NEW p \in Subs, NEW k \in 1 .. Len(boxes[p]) PROVE boxes[p][k] <= i
    BY <1>1, <1>5 DEF Sent
  <2>1. boxes[p][k] <= send.id BY DEF DistInv, Sent
  <2>2. boxes[p] \in Seq(1 .. MaxSends) BY DistTypes
  <2>3. boxes[p][k] \in 1 .. MaxSends BY <2>2, ElementOfSeq
  <2> QED BY <2>1, <2>3, <1>3, DistTypes
<1>11. Dist!OkReachesEveryone' /\ Dist!NoDropDelivers'
  BY <1>5 DEF Dist!OkReachesEveryone, Dist!NoDropDelivers
<1>12. Dist!OnlyTheInterested'
  BY <1>3, <1>4, <1>5 DEF Dist!OnlyTheInterested
<1>13. Dist!InOrderOncePerCall'
  <2>1. \A p \in Subs : times'[p] <= n BY <1>3, <1>4, DistTypes
  <2> QED BY <2>1, <1>1, <1>5 DEF DistInv, Dist!InOrderOncePerCall
<1>14. Dist!Bounded'
  BY <1>1, <1>4, <1>5 DEF DistInv, Dist!Bounded
<1> QED BY <1>6, <1>7, <1>8, <1>9, <1>10, <1>11, <1>12, <1>13, <1>14 DEF DistInv

(* A step that leaves the queues and the list alone, and of the call       *)
(* changes only its place and what is left to do.                          *)
LEMMA PlaceOnly ==
  ASSUME DistInv, NEW pc, NEW todo, NEW out, UNCHANGED <<pub, want, members, boxes, times>>,
         send' = [send EXCEPT !.pc = pc, !.todo = todo, !.boxes = out],
         pc \in {"look", "push", "ok", "again"}, todo \in Seq(Subs), out \in Seq(Subs),
         Dist!InCall,
         ListsSound', OnTheWay',
         pc = "ok" => /\ \A p \in send.steady : times[p] > 0
                      /\ pub.nodrop => \E p \in Subs : times[p] > 0
  PROVE  DistInv'
<1>1. /\ send' \in Dist!Call /\ send'.pc = pc /\ send'.todo = todo /\ send'.boxes = out
      /\ send'.id = send.id /\ send'.topic = send.topic /\ send'.steady = send.steady
      /\ send'.ever = send.ever /\ send'.tries = send.tries /\ send'.sent = send.sent
  BY DistTypes DEF Dist!Call
<1>2. Counted'
  <2>1. Dist!TypeOK' BY <1>1 DEF DistInv, Counted, Dist!TypeOK
  <2> QED BY <2>1, <1>1 DEF DistInv, Counted, Dist!InCall
<1>3. WitnessSound'
  BY <1>1 DEF DistInv, WitnessSound, Dist!InCall, Dist!Interested, Dist!Accepts
<1>4. Sent' BY <1>1 DEF DistInv, Sent
<1>5. Dist!OkReachesEveryone' /\ Dist!NoDropDelivers' /\ Dist!OnlyTheInterested'
  BY <1>1 DEF DistInv, Dist!OkReachesEveryone, Dist!NoDropDelivers, Dist!OnlyTheInterested
<1>6. Dist!InOrderOncePerCall' BY <1>1 DEF DistInv, Dist!InOrderOncePerCall
<1>7. Dist!Bounded' BY <1>1 DEF DistInv, Dist!Bounded
<1> QED BY <1>2, <1>3, <1>4, <1>5, <1>6, <1>7 DEF DistInv

LEMMA DistPubReturns ==
  ASSUME DistInv, Dist!PubReturns
  PROVE  DistInv'
<1> USE DEF Dist!PubReturns
<1>1. /\ send' = [send EXCEPT !.pc = "ok", !.todo = send.todo, !.boxes = send.boxes]
      /\ Dist!InCall /\ send.todo \in Seq(Subs) /\ send.boxes \in Seq(Subs)
  BY DistTypes DEF Dist!InCall, Dist!Call
<1>2. send'.pc = "ok" /\ send'.todo = send.todo BY <1>1, DistTypes DEF Dist!Call
<1>3. \A p \in send.steady : times[p] > 0
  <2>1. Ran(<<>>) = {} BY DEF Ran
  <2> QED BY <2>1 DEF DistInv, OnTheWay, ListsSound
<1>4. ~pub.nodrop BY DEF DistInv, Counted
<1>5. ListsSound' /\ OnTheWay' BY <1>2 DEF DistInv, ListsSound, OnTheWay
<1> QED BY <1>1, <1>3, <1>4, <1>5, PlaceOnly

LEMMA DistPushReturns ==
  ASSUME DistInv, Dist!PushReturns
  PROVE  DistInv'
<1> USE DEF Dist!PushReturns
<1>1. /\ send' = [send EXCEPT !.pc = "ok", !.todo = send.todo, !.boxes = send.boxes]
      /\ Dist!InCall /\ send.todo \in Seq(Subs) /\ send.boxes \in Seq(Subs)
  BY DistTypes DEF Dist!InCall, Dist!Call
<1>2. send'.pc = "ok" /\ send'.todo = send.todo BY <1>1, DistTypes DEF Dist!Call
<1>3. (\A p \in send.steady : times[p] > 0) /\ \E p \in Subs : times[p] > 0
  <2>1. Ran(<<>>) = {} BY DEF Ran
  <2> QED BY <2>1 DEF DistInv, OnTheWay
<1>5. ListsSound' /\ OnTheWay' BY <1>2 DEF DistInv, ListsSound, OnTheWay
<1> QED BY <1>1, <1>3, <1>5, PlaceOnly

(* Who is looked at is noted when interested; who stayed is interested. *)
LEMMA DistLook ==
  ASSUME DistInv, Dist!Look
  PROVE  DistInv'
<1> USE DEF Dist!Look
<1> DEFINE p == Head(send.todo)
           rest == Tail(send.todo)
           out == IF Dist!Chosen(p) THEN Append(send.boxes, p) ELSE send.boxes
<1>1. /\ send.pc = "look" /\ pub.type # "Pub" /\ Dist!InCall
      /\ send.todo \in Seq(Subs) /\ send.boxes \in Seq(Subs) /\ send.todo # <<>>
      /\ ListsSound /\ WitnessSound /\ OnTheWay
  BY DistTypes DEF Dist!InCall, DistInv
<1>2. /\ rest \in Seq(Subs) /\ p \in Subs /\ Ran(send.todo) = {p} \cup Ran(rest)
      /\ OnceEach(rest) /\ p \notin Ran(rest)
  BY <1>1, RestOf DEF ListsSound
<1>3. /\ Append(send.boxes, p) \in Seq(Subs)
      /\ Ran(Append(send.boxes, p)) = Ran(send.boxes) \cup {p}
      /\ OnceEach(Append(send.boxes, p))
  <2>1. p \notin Ran(send.boxes) /\ OnceEach(send.boxes) BY <1>1, <1>2 DEF ListsSound
  <2> QED BY <2>1, <1>1, <1>2, WithLast
<1>4. send' = [send EXCEPT !.pc = "look", !.todo = rest, !.boxes = out]
  <2>1. send' = [send EXCEPT !.todo = rest, !.boxes = out] BY DEF Dist!Collect
  <2> QED BY <2>1, <1>1, DistTypes DEF Dist!Call
<1>5. Dist!Chosen(p) <=> Dist!Interested(p, send.topic) BY DEF Dist!Chosen
<1>6. /\ out \in Seq(Subs) /\ OnceEach(out)
      /\ Ran(out) = IF Dist!Chosen(p) THEN Ran(send.boxes) \cup {p} ELSE Ran(send.boxes)
  BY <1>1, <1>3 DEF ListsSound
<1> HIDE DEF p, rest, out
<1>7. /\ send'.pc = "look" /\ send'.todo = rest /\ send'.boxes = out
      /\ send'.steady = send.steady /\ send'.ever = send.ever /\ send'.tries = send.tries
  BY <1>4, DistTypes DEF Dist!Call
<1>8. p \in Ran(members) /\ p \notin Ran(send.boxes) BY <1>1, <1>2 DEF ListsSound
<1>9. ListsSound'
  <2>1. Ran(rest) \cap Ran(out) = {} BY <1>1, <1>2, <1>6 DEF ListsSound
  <2>2. Ran(rest) \subseteq Ran(members) BY <1>1, <1>2 DEF ListsSound
  <2> QED BY <2>1, <2>2, <1>1, <1>2, <1>6, <1>7 DEF ListsSound
<1>10. OnTheWay'
  <2>1. ASSUME NEW q \in send.steady PROVE q \in Ran(rest) \cup Ran(out) \/ times[q] > 0
    <3>1. q = p => Dist!Chosen(p) BY <1>1, <1>5 DEF WitnessSound
    <3> QED BY <3>1, <1>1, <1>2, <1>6 DEF OnTheWay
  <2>2. Dist!Chosen(p) => p \in send.ever BY <1>1, <1>2, <1>5, <1>8 DEF WitnessSound
  <2>3. Ran(out) \subseteq send.ever BY <2>2, <1>1, <1>6 DEF OnTheWay
  <2>4. \A q \in Ran(rest) \cup Ran(out) : times[q] < send.tries
    BY <1>1, <1>2, <1>6 DEF OnTheWay
  <2> QED BY <2>1, <2>3, <2>4, <1>7 DEF OnTheWay
<1> QED BY <1>1, <1>2, <1>4, <1>6, <1>9, <1>10, PlaceOnly

(* The list is released with the outboxes of everybody who stayed. *)
LEMMA DistResolve ==
  ASSUME DistInv, Dist!Resolve
  PROVE  DistInv'
<1> USE DEF Dist!Resolve
<1> DEFINE pc == IF send.boxes # <<>> THEN "push" ELSE IF pub.nodrop THEN "again" ELSE "ok"
<1>1. /\ send.pc = "look" /\ pub.type # "Pub" /\ Dist!InCall
      /\ send.todo = <<>> /\ send.boxes \in Seq(Subs)
      /\ ListsSound /\ OnTheWay
  BY DistTypes DEF Dist!InCall, DistInv
<1>2. send' = [send EXCEPT !.pc = pc, !.todo = send.boxes, !.boxes = send.boxes]
  <2>1. send' = [send EXCEPT !.pc = pc, !.todo = send.boxes] BY DEF Dist!Resolved
  <2> QED BY <2>1, DistTypes DEF Dist!Call
<1>3. /\ pc \in {"push", "again", "ok"} /\ (pc = "push" <=> send.boxes # <<>>)
      /\ pc = "ok" => ~pub.nodrop
  OBVIOUS
<1> HIDE DEF pc
<1>4. /\ send'.pc = pc /\ send'.todo = send.boxes
      /\ send'.steady = send.steady /\ send'.ever = send.ever /\ send'.tries = send.tries
  BY <1>2, DistTypes DEF Dist!Call
<1>5. Ran(<<>>) = {} BY DEF Ran
<1>6. ListsSound' BY <1>1, <1>3, <1>4 DEF ListsSound
<1>7. OnTheWay' BY <1>1, <1>3, <1>4, <1>5 DEF OnTheWay
<1>8. pc = "ok" => \A p \in send.steady : times[p] > 0
  BY <1>1, <1>3, <1>5 DEF OnTheWay
<1> QED BY <1>1, <1>2, <1>3, <1>6, <1>7, <1>8, PlaceOnly

(* The message is put into the next subscriber's queue. *)
LEMMA PushKeeps ==
  ASSUME DistInv, Dist!InCall, send.todo # <<>>, NEW p, p = Head(send.todo),
         NEW q \in Seq(1 .. MaxSends), q = boxes[p] \/ q = <<>>,
         send' = [send EXCEPT !.todo = Tail(@)],
         Dist!Push(p, q), UNCHANGED <<pub, want, members>>,
         p \in send.ever,
         pub.type # "Pub" => /\ pub.conflate => q = <<>>
                             /\ ~pub.conflate /\ SndHwm > 0 => Len(q) < SndHwm
  PROVE  DistInv'
<1> DEFINE rest == Tail(send.todo)
           r == Append(q, send.id)
<1>1. /\ send.todo \in Seq(Subs) /\ send.pc \in {"look", "push"}
      /\ ListsSound /\ WitnessSound /\ OnTheWay /\ Counted
      /\ send.id \in 1 .. MaxSends /\ send.id \in Nat /\ SndHwm \in Nat
  BY DistTypes DEF DistInv, Dist!InCall, Counted
<1>2. /\ rest \in Seq(Subs) /\ p \in Subs /\ Ran(send.todo) = {p} \cup Ran(rest)
      /\ OnceEach(rest) /\ p \notin Ran(rest)
  BY <1>1, RestOf DEF ListsSound
<1>3. times[p] < send.tries
  BY <1>1, <1>2 DEF OnTheWay
<1>4. /\ r \in Seq(1 .. MaxSends) /\ Sorted(r) /\ Len(r) = Len(q) + 1 /\ Len(q) \in Nat
      /\ \A k \in 1 .. Len(r) : r[k] <= send.id
  <2>1. q \in Seq(Nat) /\ Sorted(q) /\ \A k \in 1 .. Len(q) : q[k] <= send.id
    <3>1. CASE q = boxes[p] BY <3>1, <1>2, DistTypes DEF DistInv, Sent
    <3>2. CASE q = <<>>
      <4>1. <<>> \in Seq(Nat) /\ Len(<<>>) = 0 OBVIOUS
      <4> QED BY <3>2, <4>1 DEF Sorted
    <3> QED BY <3>1, <3>2
  <2>2. r \in Seq(1 .. MaxSends) BY <1>1
  <2>3. Len(q) \in Nat OBVIOUS
  <2> QED BY <2>1, <2>2, <2>3, <1>1, SortedWithLast
<1>5. q = <<>> => r = <<send.id>>
  <2>1. Append(<<>>, send.id) = <<send.id>> OBVIOUS
  <2> QED BY <2>1
<1> HIDE DEF rest, r
<1>6. /\ send' \in Dist!Call /\ send'.pc = send.pc /\ send'.todo = rest
      /\ send'.boxes = send.boxes /\ send'.id = send.id /\ send'.topic = send.topic
      /\ send'.steady = send.steady /\ send'.ever = send.ever
      /\ send'.tries = send.tries /\ send'.sent = send.sent
  BY <1>2, DistTypes DEF Dist!Call, rest
<1>7. /\ boxes' \in [Subs -> Seq(1 .. MaxSends)] /\ boxes'[p] = r
      /\ \A s \in Subs : s # p => boxes'[s] = boxes[s]
  BY <1>2, <1>4, DistTypes DEF Dist!Push, r
<1>8. /\ times' \in [Subs -> 0 .. MaxSends] /\ times'[p] = times[p] + 1
      /\ times'[p] > 0 /\ times'[p] <= send.tries
      /\ \A s \in Subs : s # p => times'[s] = times[s]
  <2>1. /\ times \in [Subs -> 0 .. MaxSends] /\ times[p] \in Nat /\ send.tries \in 0 .. MaxSends
        /\ MaxSends \in Nat /\ times' = [times EXCEPT ![p] = @ + 1]
    BY <1>2, DistTypes DEF Dist!Push
  <2>2. times[p] + 1 \in 0 .. MaxSends /\ times[p] + 1 > 0 /\ times[p] + 1 <= send.tries
    BY <2>1, <1>3
  <2> QED BY <2>1, <2>2, <1>2
<1>9. Counted'
  <2>1. Dist!TypeOK' BY <1>6, <1>7, <1>8 DEF DistInv, Counted, Dist!TypeOK
  <2> QED BY <2>1, <1>6 DEF DistInv, Counted
<1>10. ListsSound'
  BY <1>1, <1>2, <1>6 DEF ListsSound
<1>11. WitnessSound'
  BY <1>1, <1>6 DEF WitnessSound, Dist!InCall, Dist!Interested, Dist!Accepts
<1>12. OnTheWay'
  <2>1. send.steady \subseteq Subs BY DistTypes
  <2>2. \A s \in send.steady : s = p \/ (s # p /\ times'[s] = times[s]) BY <2>1, <1>8
  <2>3. CASE send.pc = "look"
    <3>1. p \notin Ran(send.boxes) BY <2>3, <1>1, <1>2 DEF ListsSound
    <3>2. Ran(rest) \cup Ran(send.boxes) \subseteq Subs
      <4>1. send.boxes \in Seq(Subs) BY DistTypes
      <4> QED BY <4>1, <1>2 DEF Ran
    <3>3. \A s \in Ran(rest) \cup Ran(send.boxes) : times'[s] < send.tries
      BY <2>3, <3>1, <3>2, <1>1, <1>2, <1>8 DEF OnTheWay
    <3>4. \A s \in send.steady : s \in Ran(rest) \cup Ran(send.boxes) \/ times'[s] > 0
      BY <2>3, <2>2, <1>1, <1>2, <1>8 DEF OnTheWay
    <3> QED BY <2>3, <3>3, <3>4, <1>1, <1>6 DEF OnTheWay
  <2>4. CASE send.pc = "push"
    <3>2. Ran(rest) \subseteq Subs BY <1>2 DEF Ran
    <3>3. \A s \in Ran(rest) : times'[s] < send.tries
      BY <2>4, <3>2, <1>1, <1>2, <1>8 DEF OnTheWay
    <3>4. \A s \in send.steady : s \in Ran(rest) \/ times'[s] > 0
      BY <2>4, <2>2, <1>1, <1>2, <1>8 DEF OnTheWay
    <3>5. \E s \in Subs : times'[s] > 0 BY <1>2, <1>8
    <3>6. Ran(rest) \subseteq send.ever BY <2>4, <1>1, <1>2 DEF OnTheWay
    <3> QED BY <2>4, <3>3, <3>4, <3>5, <3>6, <1>6 DEF OnTheWay
  <2> QED BY <2>3, <2>4, <1>1
<1>13. Sent' BY <1>4, <1>6, <1>7 DEF DistInv, Sent
<1>14. Dist!OkReachesEveryone' /\ Dist!NoDropDelivers'
  BY <1>1, <1>6 DEF Dist!OkReachesEveryone, Dist!NoDropDelivers
<1>15. Dist!OnlyTheInterested'
  BY <1>6, <1>8 DEF DistInv, Dist!OnlyTheInterested
<1>16. Dist!InOrderOncePerCall'
  BY <1>4, <1>6, <1>7, <1>8 DEF DistInv, Dist!InOrderOncePerCall, Sorted
<1>17. Dist!Bounded'
  <2> SUFFICES ASSUME pub.type # "Pub", NEW s \in Subs
               PROVE  /\ pub.conflate => Len(boxes'[s]) <= 1
                      /\ pub.conflate /\ times'[s] > 0 => boxes'[s] \in {<<>>, <<send.id>>}
                      /\ ~pub.conflate /\ SndHwm > 0 => Len(boxes'[s]) <= SndHwm
    BY <1>6 DEF Dist!Bounded
  <2>1. CASE s # p BY <2>1, <1>7, <1>8 DEF DistInv, Dist!Bounded
  <2>2. CASE s = p
    <3>1. ASSUME pub.conflate PROVE r = <<send.id>> /\ Len(r) = 1
      <4>1. q = <<>> BY <3>1
      <4>2. r = <<send.id>> BY <4>1, <1>5
      <4> QED BY <4>2
    <3>2. ASSUME ~pub.conflate, SndHwm > 0 PROVE Len(r) <= SndHwm
      <4>1. Len(q) < SndHwm BY <3>2
      <4> QED BY <4>1, <1>1, <1>4
    <3>3. CASE pub.conflate
      <4>1. boxes'[s] = <<send.id>> /\ Len(boxes'[s]) = 1 BY <2>2, <3>1, <3>3, <1>7
      <4> QED BY <3>3, <4>1
    <3>4. CASE ~pub.conflate
      <4>1. SndHwm > 0 => Len(boxes'[s]) <= SndHwm BY <2>2, <3>2, <3>4, <1>7
      <4> QED BY <3>4, <4>1
    <3> QED BY <3>3, <3>4
  <2> QED BY <2>1, <2>2
<1> QED BY <1>9, <1>10, <1>11, <1>12, <1>13, <1>14, <1>15, <1>16, <1>17 DEF DistInv

(* PUB pushes to the next peer at once, or passes over it. *)
LEMMA DistPubTurn ==
  ASSUME DistInv, Dist!PubTurn
  PROVE  DistInv'
<1> USE DEF Dist!PubTurn
<1> DEFINE p == Head(send.todo)
           rest == Tail(send.todo)
<1>1. /\ send.pc = "look" /\ pub.type = "Pub" /\ Dist!InCall
      /\ send.todo \in Seq(Subs) /\ send.boxes \in Seq(Subs) /\ send.todo # <<>>
      /\ ListsSound /\ WitnessSound /\ OnTheWay
  BY DistTypes DEF Dist!InCall, DistInv
<1>2. /\ rest \in Seq(Subs) /\ p \in Subs /\ Ran(send.todo) = {p} \cup Ran(rest)
      /\ OnceEach(rest) /\ p \notin Ran(rest) /\ p \in Ran(members)
  BY <1>1, RestOf DEF ListsSound
<1>3. CASE Dist!Chosen(p)
  <2>1. p \in send.ever BY <1>1, <1>2, <1>3 DEF WitnessSound, Dist!Chosen
  <2>2. boxes[p] \in Seq(1 .. MaxSends) BY <1>2, DistTypes
  <2>3. Dist!Push(p, boxes[p]) /\ UNCHANGED <<pub, want, members>> BY <1>3
  <2>4. send' = [send EXCEPT !.todo = Tail(@)] OBVIOUS
  <2> HIDE DEF p
  <2>5. p = Head(send.todo) BY DEF p
  <2> QED BY <2>1, <2>2, <2>3, <2>4, <2>5, <1>1, PushKeeps
<1>4. CASE ~Dist!Chosen(p)
  <2>1. UNCHANGED <<pub, want, members, boxes, times>> BY <1>4
  <2>2. send' = [send EXCEPT !.pc = "look", !.todo = rest, !.boxes = send.boxes]
    BY <1>1, DistTypes DEF Dist!Call
  <2>3. p \notin send.steady BY <1>1, <1>4 DEF WitnessSound, Dist!Chosen
  <2> HIDE DEF p, rest
  <2>4. /\ send'.pc = "look" /\ send'.todo = rest /\ send'.boxes = send.boxes
        /\ send'.steady = send.steady /\ send'.ever = send.ever /\ send'.tries = send.tries
    BY <2>2, DistTypes DEF Dist!Call
  <2>5. ListsSound' BY <2>1, <2>4, <1>1, <1>2 DEF ListsSound
  <2>6. OnTheWay' BY <2>1, <2>3, <2>4, <1>1, <1>2 DEF OnTheWay
  <2> QED BY <2>1, <2>2, <2>5, <2>6, <1>1, <1>2, PlaceOnly
<1> QED BY <1>3, <1>4

(* The next outbox takes the message, or ends the call. *)
LEMMA DistPushTurn ==
  ASSUME DistInv, Dist!PushTurn
  PROVE  DistInv'
<1> USE DEF Dist!PushTurn
<1> DEFINE p == Head(send.todo)
<1>1. /\ send.pc = "push" /\ Dist!InCall /\ pub.type # "Pub"
      /\ send.todo \in Seq(Subs) /\ send.boxes \in Seq(Subs) /\ send.todo # <<>>
      /\ ListsSound /\ OnTheWay
  BY DistTypes DEF Dist!InCall, DistInv, ListsSound
<1>2. p \in Subs /\ p \in Ran(send.todo) BY <1>1, RestOf
<1>3. boxes[p] \in Seq(1 .. MaxSends) /\ Len(boxes[p]) \in Nat /\ SndHwm \in Nat
  <2>1. boxes[p] \in Seq(1 .. MaxSends) BY <1>2, DistTypes
  <2> QED BY <2>1, DistTypes
<1>4. CASE Dist!Full(boxes[p])
  <2>1. UNCHANGED <<pub, want, members, boxes, times>> BY <1>4
  <2>2. send' = [send EXCEPT !.pc = "again", !.todo = send.todo, !.boxes = send.boxes]
    BY <1>4, DistTypes DEF Dist!Call
  <2>3. send'.pc = "again" /\ send'.todo = send.todo BY <2>2, DistTypes DEF Dist!Call
  <2>4. ListsSound' /\ OnTheWay' BY <2>1, <2>3, <1>1 DEF ListsSound, OnTheWay
  <2> QED BY <2>1, <2>2, <2>4, <1>1, PlaceOnly
<1>5. CASE ~Dist!Full(boxes[p])
  <2> DEFINE q == Dist!Room(boxes[p])
  <2>1. Dist!Push(p, q) /\ UNCHANGED <<pub, want, members>> BY <1>5
  <2>2. send' = [send EXCEPT !.todo = Tail(@)] BY <1>5
  <2>3. /\ q \in Seq(1 .. MaxSends) /\ (q = boxes[p] \/ q = <<>>)
        /\ pub.conflate => q = <<>>
    <3>1. <<>> \in Seq(1 .. MaxSends) OBVIOUS
    <3> QED BY <3>1, <1>3 DEF Dist!Room
  <2>4. ~pub.conflate /\ SndHwm > 0 => Len(q) < SndHwm
    BY <1>3, <1>5 DEF Dist!Room, Dist!Full
  <2>5. p \in send.ever BY <1>1, <1>2 DEF OnTheWay
  <2> HIDE DEF p, q
  <2>6. p = Head(send.todo) BY DEF p
  <2> QED BY <2>1, <2>2, <2>3, <2>4, <2>5, <2>6, <1>1, PushKeeps
<1> QED BY <1>4, <1>5

(* Every step keeps the invariant. *)
LEMMA DistStep == DistInv /\ Dist!Next => DistInv'
<1> SUFFICES ASSUME DistInv, Dist!Next PROVE DistInv' OBVIOUS
<1>1. ASSUME NEW t \in Topics, Dist!SendNext(t) PROVE DistInv'
  BY <1>1, DistBegin DEF Dist!SendNext
<1>2. CASE Dist!SendAgain
  <2>1. send.topic \in Topics BY DistTypes
  <2> QED BY <2>1, <1>2, DistBegin DEF Dist!SendAgain
<1> QED
  BY <1>1, <1>2, DistSubscribe, DistConnect, DistDisconnect, DistRecv, DistPubTurn,
     DistPubReturns, DistLook, DistResolve, DistPushTurn, DistPushReturns
     DEF Dist!Next

(***************************************************************************)
(* For every number of subscribers, every set of topics, every high-water  *)
(* mark and every number of sends: a send of a PUB, XPUB or RADIO that     *)
(* succeeds has reached everyone who was connected and interested all the  *)
(* time (with ZMQ_XPUB_NODROP at least somebody) and nobody who never was, *)
(* each of them once per call and in the order of the sends, and the       *)
(* queues XPUB and RADIO fill keep their bound; whoever subscribes,        *)
(* connects or leaves while the call looks at the list or pushes           *)
(* (Socket::send, matching_peers, send_owned_to_matching_peers).           *)
(***************************************************************************)
THEOREM AlwaysDistributedRight == DeliverySpec => []DistributedRight
<1> DEFINE Inv == part = "dist" => DistInv
<1>1. DeliveryInit => Inv BY DistInit DEF DeliveryInit
<1>2. Inv /\ [DeliveryNext]_<<part, zapVars, distVars, routeVars>> => Inv'
  BY DistStep, DistStutters DEF DeliveryNext
<1>3. Inv => DistributedRight BY DEF DistributedRight, DistInv, Counted
<1> HIDE DEF Inv
<1> QED BY <1>1, <1>2, <1>3, PTL DEF DeliverySpec

-----------------------------------------------------------------------------
(* Answers by routing id. *)

RouteTypes ==
  /\ owner \in Binders \cup {NoBinder}
  /\ link \in [Connectors -> Routes!Link]
  /\ task \in [Connectors -> Routes!Task]
  /\ bin \in [Binders -> Seq(Routes!Note)]
  /\ cin \in [Connectors -> Nat]
  /\ cur \in [Binders -> Routes!Note \cup {NoBinder}]

(* A message carries the id of its sender or none. *)
Signed(m) == m.rid \in {m.from, NoBinder}

AllSigned ==
  /\ \A c \in Connectors : task[c].rid \in {c, NoBinder}
  /\ \A b \in Binders :
       /\ \A k \in 1 .. Len(bin[b]) : Signed(bin[b][k])
       /\ cur[b] # NoBinder => Signed(cur[b])

(* A connector whose name has been bound all the time finds it bound; one  *)
(* that has gone keeps no outbox; and a stamp made since the connect is    *)
(* the connector's own.                                                    *)
LinksSound ==
  \A c \in Connectors :
    /\ link[c].bound => owner # NoBinder
    /\ link[c].on \/ link[c].direct = NoBinder
    /\ task[c].pc = "push" /\ link[c].bound /\ link[c].on => task[c].rid = c

(* The inductive invariant of the routing part. *)
RouteInv == RouteTypes /\ AllSigned /\ LinksSound

LEMMA RouteInit == Routes!Init => RouteInv
<1> SUFFICES ASSUME Routes!Init PROVE RouteInv OBVIOUS
<1> USE DEF Routes!Init
<1>1. RouteTypes
  <2>1. <<>> \in Seq(Routes!Note) OBVIOUS
  <2>2. Routes!Idle \in Routes!Task BY DEF Routes!Idle, Routes!Task
  <2> QED BY <2>1, <2>2 DEF RouteTypes, Routes!Link
<1>2. AllSigned BY DEF AllSigned, Routes!Idle
<1>3. LinksSound BY DEF LinksSound, Routes!Idle
<1> QED BY <1>1, <1>2, <1>3 DEF RouteInv

LEMMA RouteStutters == RouteInv /\ UNCHANGED routeVars => RouteInv'
  BY DEF RouteInv, RouteTypes, AllSigned, Signed, LinksSound, routeVars

(* Binding, unbinding and dropping a peer. *)
LEMMA RouteBind ==
  ASSUME RouteInv, NEW b \in Binders, Routes!Bind(b)
  PROVE  RouteInv'
<1> USE DEF Routes!Bind
<1>1. RouteTypes' BY DEF RouteInv, RouteTypes
<1>2. AllSigned' BY DEF RouteInv, AllSigned, Signed
<1>3. LinksSound' BY DeliveryAssumption DEF RouteInv, LinksSound
<1> QED BY <1>1, <1>2, <1>3 DEF RouteInv

LEMMA RouteUnbind ==
  ASSUME RouteInv, Routes!Unbind
  PROVE  RouteInv'
<1> USE DEF Routes!Unbind
<1>1. \A c \in Connectors :
        /\ link'[c] \in Routes!Link /\ ~link'[c].bound
        /\ link'[c].on = link[c].on /\ link'[c].direct = link[c].direct
  BY DEF RouteInv, RouteTypes, Routes!Link
<1>2. RouteTypes' BY <1>1 DEF RouteInv, RouteTypes
<1>3. AllSigned' BY DEF RouteInv, AllSigned, Signed
<1>4. LinksSound' BY <1>1 DEF RouteInv, LinksSound
<1> QED BY <1>2, <1>3, <1>4 DEF RouteInv

LEMMA RouteDisconnectPeer ==
  ASSUME RouteInv, NEW c \in Connectors, Routes!DisconnectPeer(c)
  PROVE  RouteInv'
<1> USE DEF Routes!DisconnectPeer
<1>1. /\ link' \in [Connectors -> Routes!Link]
      /\ \A d \in Connectors :
           /\ link'[d].bound = link[d].bound
           /\ link'[d].on = link[d].on /\ link'[d].direct = link[d].direct
  BY DEF RouteInv, RouteTypes, Routes!Link
<1>2. RouteTypes' BY <1>1 DEF RouteInv, RouteTypes
<1>3. AllSigned' BY DEF RouteInv, AllSigned, Signed
<1>4. LinksSound' BY <1>1 DEF RouteInv, LinksSound
<1> QED BY <1>2, <1>3, <1>4 DEF RouteInv

(* A connector connects, and is not in the middle of a push. *)
LEMMA RouteConnect ==
  ASSUME RouteInv, NEW c \in Connectors, Routes!Connect(c)
  PROVE  RouteInv'
<1> USE DEF Routes!Connect
<1> DEFINE first == IF setup.probe THEN "probe"
                    ELSE IF setup.hello THEN "hello" ELSE "data"
           new == [on |-> TRUE, direct |-> owner, bound |-> Routes!IsBound, met |-> link[c].met]
           next == [Routes!Idle EXCEPT !.what = first,
                      !.pc = IF first = "data" THEN "idle" ELSE "stamp"]
<1>1. /\ link' = [link EXCEPT ![c] = new] /\ task' = [task EXCEPT ![c] = next]
      /\ UNCHANGED <<owner, bin, cin, cur>>
  OBVIOUS
<1>2. /\ new \in Routes!Link /\ new.on /\ (new.bound => owner # NoBinder)
  BY DEF RouteInv, RouteTypes, Routes!Link, Routes!IsBound
<1>3. next \in Routes!Task /\ next.pc # "push" /\ next.rid = NoBinder
  BY DEF Routes!Idle, Routes!Task
<1> HIDE DEF new, next
<1>4. /\ link' \in [Connectors -> Routes!Link] /\ task' \in [Connectors -> Routes!Task]
      /\ link'[c] = new /\ task'[c] = next
      /\ \A d \in Connectors : d # c => link'[d] = link[d] /\ task'[d] = task[d]
  <2>1. link \in [Connectors -> Routes!Link] /\ task \in [Connectors -> Routes!Task]
    BY DEF RouteInv, RouteTypes
  <2>2. /\ link' \in [Connectors -> Routes!Link] /\ link'[c] = new
        /\ \A d \in Connectors : d # c => link'[d] = link[d]
    <3> HIDE DEF Routes!Connect
    <3> QED BY <2>1, <1>1, <1>2
  <2>3. /\ task' \in [Connectors -> Routes!Task] /\ task'[c] = next
        /\ \A d \in Connectors : d # c => task'[d] = task[d]
    <3> HIDE DEF Routes!Connect
    <3> QED BY <2>1, <1>1, <1>3
  <2> QED BY <2>2, <2>3
<1>5. RouteTypes' BY <1>1, <1>4 DEF RouteInv, RouteTypes
<1>6. AllSigned' BY <1>1, <1>3, <1>4 DEF RouteInv, AllSigned, Signed
<1>7. LinksSound' BY <1>1, <1>2, <1>3, <1>4 DEF RouteInv, LinksSound
<1> QED BY <1>5, <1>6, <1>7 DEF RouteInv

(* A message at the end of a binder's inbox. *)
LEMMA NoteAppended ==
  ASSUME RouteInv, NEW b \in Binders, NEW m \in Routes!Note, Signed(m),
         bin' = [bin EXCEPT ![b] = Append(@, m)]
  PROVE  /\ bin' \in [Binders -> Seq(Routes!Note)]
         /\ \A d \in Binders : \A k \in 1 .. Len(bin'[d]) : Signed(bin'[d][k])
         /\ Routes!Pushed = {m}
<1>1. bin \in [Binders -> Seq(Routes!Note)] /\ bin[b] \in Seq(Routes!Note)
  BY DEF RouteInv, RouteTypes
<1>2. /\ Append(bin[b], m) \in Seq(Routes!Note) /\ Len(bin[b]) \in Nat
      /\ Len(Append(bin[b], m)) = Len(bin[b]) + 1
      /\ \A k \in 1 .. Len(bin[b]) : Append(bin[b], m)[k] = bin[b][k]
      /\ Append(bin[b], m)[Len(bin[b]) + 1] = m
  BY <1>1
<1>3. bin'[b] = Append(bin[b], m) /\ \A d \in Binders : d # b => bin'[d] = bin[d]
  BY <1>1
<1>4. bin' \in [Binders -> Seq(Routes!Note)] BY <1>1, <1>2
<1>5. ASSUME NEW d \in Binders, NEW k \in 1 .. Len(bin'[d]) PROVE Signed(bin'[d][k])
  <2>1. CASE d # b BY <2>1, <1>3 DEF RouteInv, AllSigned
  <2>2. CASE d = b
    <3>1. k \in 1 .. Len(bin[b]) \/ k = Len(bin[b]) + 1 BY <2>2, <1>2, <1>3
    <3>2. k \in 1 .. Len(bin[b]) => Signed(bin[b][k]) BY DEF RouteInv, AllSigned
    <3> QED BY <2>2, <3>1, <3>2, <1>2, <1>3
  <2> QED BY <2>1, <2>2
<1>6. {d \in Binders : Len(bin'[d]) > Len(bin[d])} = {b}
  <2>1. \A d \in Binders : Len(bin[d]) \in Nat
    <3>1. \A d \in Binders : bin[d] \in Seq(Routes!Note) BY <1>1
    <3> QED BY <3>1
  <2>2. Len(bin'[b]) > Len(bin[b]) BY <1>2, <1>3
  <2>3. \A d \in Binders : d # b => ~(Len(bin'[d]) > Len(bin[d])) BY <2>1, <1>3
  <2> QED BY <2>2, <2>3
<1>7. Routes!Last(bin'[b]) = m BY <1>2, <1>3 DEF Routes!Last
<1>8. Routes!Pushed = {m} BY <1>6, <1>7 DEF Routes!Pushed
<1> QED BY <1>4, <1>5, <1>8

LEMMA NothingPushed ==
  ASSUME RouteInv, UNCHANGED bin
  PROVE  Routes!Pushed = {}
<1>1. \A d \in Binders : bin[d] \in Seq(Routes!Note) BY DEF RouteInv, RouteTypes
<1>2. \A d \in Binders : ~(Len(bin'[d]) > Len(bin[d])) BY <1>1
<1> QED BY <1>2 DEF Routes!Pushed

(* What a step may do: answer none but the asker, and push only what is    *)
(* signed while bound and comes from a connected socket.                   *)
Answers(c) ==
  cin'[c] > cin[c] /\ (cur[owner].rid # NoBinder \/ setup.kind # "Router")
    => cur[owner].from = c

PushedWell ==
  \A m \in Routes!Pushed :
    /\ link[m.from].bound => m.rid = m.from
    /\ m.bye \/ link[m.from].on

RouteAct == PushedWell /\ \A c \in Connectors : Answers(c)

(* A step without a message does none of it. *)
LEMMA QuietAct ==
  ASSUME RouteInv, UNCHANGED bin, UNCHANGED cin
  PROVE  RouteAct
<1>1. \A c \in Connectors : cin[c] \in Nat /\ ~(cin'[c] > cin[c])
  BY DEF RouteInv, RouteTypes
<1> QED BY <1>1, NothingPushed DEF RouteAct, PushedWell, Answers

LEMMA RouteDisconnect ==
  ASSUME RouteInv, NEW c \in Connectors, Routes!Disconnect(c)
  PROVE  RouteInv' /\ RouteAct
<1> USE DEF Routes!Disconnect
<1> DEFINE new == [Routes!Unlinked(c) EXCEPT !.met = @ /\ ~Routes!Told(c)]
<1>1. new \in Routes!Link /\ ~new.on /\ new.direct = NoBinder /\ new.bound = link[c].bound
  BY DEF RouteInv, RouteTypes, Routes!Link, Routes!Unlinked
<1>2. link' = [link EXCEPT ![c] = new] OBVIOUS
<1> HIDE DEF new
<1>3. /\ link' \in [Connectors -> Routes!Link] /\ link'[c] = new
      /\ \A d \in Connectors : d # c => link'[d] = link[d]
  BY <1>1, <1>2 DEF RouteInv, RouteTypes
<1>4. LinksSound' BY <1>1, <1>3 DEF RouteInv, LinksSound
<1>5. CASE Routes!Told(c)
  <2>1. bin' = [bin EXCEPT ![owner] = Append(@, Routes!Bye(c))] BY <1>5
  <2>2. /\ Routes!Bye(c) \in Routes!Note /\ Signed(Routes!Bye(c))
        /\ Routes!Bye(c).bye /\ Routes!Bye(c).rid = Routes!Bye(c).from
    BY DEF Routes!Bye, Routes!Note, Signed
  <2>3. CASE owner \in Binders
    <3>1. /\ bin' \in [Binders -> Seq(Routes!Note)]
          /\ \A d \in Binders : \A k \in 1 .. Len(bin'[d]) : Signed(bin'[d][k])
          /\ Routes!Pushed = {Routes!Bye(c)}
      BY <2>1, <2>2, <2>3, NoteAppended
    <3>2. RouteTypes' BY <3>1, <1>3 DEF RouteInv, RouteTypes
    <3>3. AllSigned' BY <3>1 DEF RouteInv, AllSigned, Signed
    <3>4. \A d \in Connectors : Answers(d) BY DEF Answers, RouteInv, RouteTypes
    <3> QED BY <3>1, <3>2, <3>3, <3>4, <2>2, <1>4 DEF RouteInv, RouteAct, PushedWell
  <2>4. CASE owner \notin Binders
    <3>1. UNCHANGED bin BY <2>1, <2>4 DEF RouteInv, RouteTypes
    <3>2. RouteTypes' BY <3>1, <1>3 DEF RouteInv, RouteTypes
    <3>3. AllSigned' BY <3>1 DEF RouteInv, AllSigned, Signed
    <3> QED BY <3>1, <3>2, <3>3, <1>4, QuietAct DEF RouteInv
  <2> QED BY <2>3, <2>4
<1>6. CASE ~Routes!Told(c)
  <2>1. UNCHANGED bin BY <1>6
  <2>2. RouteTypes' BY <2>1, <1>3 DEF RouteInv, RouteTypes
  <2>3. AllSigned' BY <2>1 DEF RouteInv, AllSigned, Signed
  <2> QED BY <2>1, <2>2, <2>3, <1>4, QuietAct DEF RouteInv
<1> QED BY <1>5, <1>6

(* The stamp is the connector's own while it is connected to a bound name. *)
LEMMA RouteStamp ==
  ASSUME RouteInv, NEW c \in Connectors, Routes!Stamp(c)
  PROVE  RouteInv'
<1> USE DEF Routes!Stamp
<1>1. /\ Routes!StampOf(c) \in {c, NoBinder}
      /\ link[c].bound /\ link[c].on => Routes!StampOf(c) = c
  BY DEF RouteInv, LinksSound, Routes!StampOf, Routes!IsBound
<1>2. /\ task' \in [Connectors -> Routes!Task] /\ task'[c].rid = Routes!StampOf(c)
      /\ \A d \in Connectors : d # c => task'[d] = task[d]
  BY <1>1 DEF RouteInv, RouteTypes, Routes!Task
<1>3. RouteTypes' BY <1>2 DEF RouteInv, RouteTypes
<1>4. AllSigned' BY <1>1, <1>2 DEF RouteInv, AllSigned, Signed
<1>5. LinksSound' BY <1>1, <1>2 DEF RouteInv, LinksSound
<1> QED BY <1>3, <1>4, <1>5 DEF RouteInv

LEMMA RoutePush ==
  ASSUME RouteInv, NEW c \in Connectors, Routes!Push(c)
  PROVE  RouteInv' /\ RouteAct
<1> USE DEF Routes!Push
<1> DEFINE b == Routes!OutboxOf(c)
           m == [bye |-> FALSE, from |-> c, rid |-> task[c].rid]
<1>1. /\ b \in Binders /\ link[c].on
  BY DEF RouteInv, RouteTypes, LinksSound, Routes!OutboxOf, Routes!IsBound, Routes!Link
<1>2. m \in Routes!Note /\ Signed(m) /\ m.from = c /\ m.rid = task[c].rid
  BY DEF RouteInv, AllSigned, Signed, Routes!Note
<1>3. link[c].bound => task[c].rid = c BY <1>1 DEF RouteInv, LinksSound
<1>4. bin' = [bin EXCEPT ![b] = Append(@, m)] OBVIOUS
<1>5. /\ link' \in [Connectors -> Routes!Link]
      /\ \A d \in Connectors :
           /\ link'[d].bound = link[d].bound
           /\ link'[d].on = link[d].on /\ link'[d].direct = link[d].direct
  BY DEF RouteInv, RouteTypes, Routes!Link
<1>6. Routes!After(c) \in Routes!Task /\ Routes!After(c).pc # "push"
      /\ Routes!After(c).rid = NoBinder
  BY DEF Routes!After, Routes!Idle, Routes!Task
<1>7. /\ task' \in [Connectors -> Routes!Task] /\ task'[c] = Routes!After(c)
      /\ \A d \in Connectors : d # c => task'[d] = task[d]
  BY <1>6 DEF RouteInv, RouteTypes
<1> HIDE DEF b, m
<1>8. /\ bin' \in [Binders -> Seq(Routes!Note)]
      /\ \A d \in Binders : \A k \in 1 .. Len(bin'[d]) : Signed(bin'[d][k])
      /\ Routes!Pushed = {m}
  BY <1>1, <1>2, <1>4, NoteAppended
<1>9. RouteTypes' BY <1>5, <1>7, <1>8 DEF RouteInv, RouteTypes
<1>10. AllSigned' BY <1>6, <1>7, <1>8 DEF RouteInv, AllSigned, Signed
<1>11. LinksSound' BY <1>5, <1>6, <1>7 DEF RouteInv, LinksSound
<1>12. \A d \in Connectors : Answers(d) BY DEF Answers, RouteInv, RouteTypes
<1>13. PushedWell BY <1>1, <1>2, <1>3, <1>8 DEF PushedWell
<1> QED BY <1>9, <1>10, <1>11, <1>12, <1>13 DEF RouteInv, RouteAct

LEMMA RoutePushFails ==
  ASSUME RouteInv, NEW c \in Connectors, Routes!PushFails(c)
  PROVE  RouteInv'
<1> USE DEF Routes!PushFails
<1>1. Routes!Idle \in Routes!Task /\ Routes!Idle.pc # "push" /\ Routes!Idle.rid = NoBinder
  BY DEF Routes!Idle, Routes!Task
<1>2. /\ task' \in [Connectors -> Routes!Task] /\ task'[c] = Routes!Idle
      /\ \A d \in Connectors : d # c => task'[d] = task[d]
  BY <1>1 DEF RouteInv, RouteTypes
<1>3. RouteTypes' BY <1>2 DEF RouteInv, RouteTypes
<1>4. AllSigned' BY <1>1, <1>2 DEF RouteInv, AllSigned, Signed
<1>5. LinksSound' BY <1>1, <1>2 DEF RouteInv, LinksSound
<1> QED BY <1>3, <1>4, <1>5 DEF RouteInv

LEMMA RouteRecvReply ==
  ASSUME RouteInv, NEW c \in Connectors, Routes!RecvReply(c)
  PROVE  RouteInv' /\ RouteAct
<1> USE DEF Routes!RecvReply
<1>1. /\ cin' \in [Connectors -> Nat]
      /\ \A d \in Connectors : cin[d] \in Nat /\ ~(cin'[d] > cin[d])
  BY DEF RouteInv, RouteTypes
<1>2. RouteTypes' BY <1>1 DEF RouteInv, RouteTypes
<1>3. AllSigned' BY DEF RouteInv, AllSigned, Signed
<1>4. LinksSound' BY DEF RouteInv, LinksSound
<1>5. RouteAct BY <1>1, NothingPushed DEF RouteAct, PushedWell, Answers
<1> QED BY <1>2, <1>3, <1>4, <1>5 DEF RouteInv

LEMMA RouteRecv ==
  ASSUME RouteInv, NEW b \in Binders, Routes!Recv(b)
  PROVE  RouteInv' /\ RouteAct
<1> USE DEF Routes!Recv
<1>1. /\ bin \in [Binders -> Seq(Routes!Note)] /\ bin[b] \in Seq(Routes!Note)
      /\ bin[b] # <<>> /\ cur \in [Binders -> Routes!Note \cup {NoBinder}]
  BY DEF RouteInv, RouteTypes
<1>2. /\ Tail(bin[b]) \in Seq(Routes!Note) /\ Head(bin[b]) = bin[b][1]
      /\ Head(bin[b]) \in Routes!Note
      /\ Len(bin[b]) \in Nat /\ Len(bin[b]) > 0 /\ Len(Tail(bin[b])) = Len(bin[b]) - 1
      /\ \A k \in 1 .. Len(bin[b]) - 1 : Tail(bin[b])[k] = bin[b][k + 1]
  BY <1>1
<1>3. /\ bin' \in [Binders -> Seq(Routes!Note)] /\ bin'[b] = Tail(bin[b])
      /\ \A d \in Binders : d # b => bin'[d] = bin[d]
      /\ cur' \in [Binders -> Routes!Note \cup {NoBinder}] /\ cur'[b] = bin[b][1]
      /\ \A d \in Binders : d # b => cur'[d] = cur[d]
  BY <1>1, <1>2
<1>4. \A k \in 1 .. Len(bin[b]) : Signed(bin[b][k]) BY DEF RouteInv, AllSigned
<1>5. RouteTypes' BY <1>3 DEF RouteInv, RouteTypes
<1>6. AllSigned'
  <2>1. ASSUME NEW k \in 1 .. Len(bin'[b]) PROVE Signed(bin'[b][k])
    <3>1. k + 1 \in 1 .. Len(bin[b]) /\ bin'[b][k] = bin[b][k + 1] BY <1>2, <1>3
    <3> QED BY <3>1, <1>4
  <2>2. Signed(cur'[b])
    <3>1. 1 \in 1 .. Len(bin[b]) BY <1>2
    <3> QED BY <3>1, <1>3, <1>4
  <2> QED BY <2>1, <2>2, <1>3 DEF RouteInv, AllSigned, Signed
<1>7. LinksSound' BY DEF RouteInv, LinksSound
<1>8. Routes!Pushed = {}
  <2>1. ASSUME NEW d \in Binders PROVE ~(Len(bin'[d]) > Len(bin[d]))
    <3>1. CASE d = b BY <3>1, <1>2, <1>3
    <3>2. CASE d # b
      <4>1. bin[d] \in Seq(Routes!Note) BY <1>1
      <4> QED BY <4>1, <3>2, <1>3
    <3> QED BY <3>1, <3>2
  <2> QED BY <2>1 DEF Routes!Pushed
<1>9. \A d \in Connectors : Answers(d) BY DEF Answers, RouteInv, RouteTypes
<1> QED BY <1>5, <1>6, <1>7, <1>8, <1>9 DEF RouteInv, RouteAct, PushedWell

(* An answer goes to the id on the message, which is its sender's. *)
LEMMA RouteAnswer ==
  ASSUME RouteInv, NEW c \in Connectors, Routes!Answer(c)
  PROVE  RouteInv' /\ RouteAct
<1> USE DEF Routes!Answer
<1>1. /\ owner \in Binders /\ cur[owner] # NoBinder /\ Signed(cur[owner])
      /\ c \in Routes!Route(cur[owner].rid)
  BY DEF RouteInv, RouteTypes, AllSigned, Routes!IsBound
<1>2. /\ cin' \in [Connectors -> Nat]
      /\ \A d \in Connectors : d # c => ~(cin'[d] > cin[d])
  BY DEF RouteInv, RouteTypes
<1>3. Answers(c)
  <2>1. CASE cur[owner].rid # NoBinder
    <3>1. c = cur[owner].rid BY <2>1, <1>1 DEF Routes!Route
    <3> QED BY <2>1, <3>1, <1>1 DEF Signed, Answers
  <2>2. CASE cur[owner].rid = NoBinder
    BY <2>2, <1>1 DEF Routes!Route, Answers
  <2> QED BY <2>1, <2>2
<1>4. RouteTypes' BY <1>1, <1>2 DEF RouteInv, RouteTypes
<1>5. AllSigned' BY <1>1 DEF RouteInv, RouteTypes, AllSigned, Signed
<1>6. LinksSound' BY DEF RouteInv, LinksSound
<1>7. PushedWell BY NothingPushed DEF PushedWell
<1>8. \A d \in Connectors : Answers(d) BY <1>2, <1>3 DEF Answers
<1> QED BY <1>4, <1>5, <1>6, <1>7, <1>8 DEF RouteInv, RouteAct

LEMMA RouteStep == RouteInv /\ Routes!Next => RouteInv' /\ RouteAct
<1> SUFFICES ASSUME RouteInv, Routes!Next PROVE RouteInv' /\ RouteAct OBVIOUS
<1>1. CASE Routes!Unbind
  <2>1. UNCHANGED bin /\ UNCHANGED cin BY <1>1 DEF Routes!Unbind
  <2> QED BY <1>1, <2>1, RouteUnbind, QuietAct
<1>2. ASSUME NEW b \in Binders, Routes!Bind(b) PROVE RouteInv' /\ RouteAct
  <2>1. UNCHANGED bin /\ UNCHANGED cin BY <1>2 DEF Routes!Bind
  <2> QED BY <1>2, <2>1, RouteBind, QuietAct
<1>3. ASSUME NEW c \in Connectors, Routes!DisconnectPeer(c) PROVE RouteInv' /\ RouteAct
  <2>1. UNCHANGED bin /\ UNCHANGED cin BY <1>3 DEF Routes!DisconnectPeer
  <2> QED BY <1>3, <2>1, RouteDisconnectPeer, QuietAct
<1>4. ASSUME NEW c \in Connectors, Routes!Connect(c) PROVE RouteInv' /\ RouteAct
  <2>1. UNCHANGED bin /\ UNCHANGED cin BY <1>4 DEF Routes!Connect
  <2> QED BY <1>4, <2>1, RouteConnect, QuietAct
<1>5. ASSUME NEW c \in Connectors, Routes!Stamp(c) PROVE RouteInv' /\ RouteAct
  <2>1. UNCHANGED bin /\ UNCHANGED cin BY <1>5 DEF Routes!Stamp
  <2> QED BY <1>5, <2>1, RouteStamp, QuietAct
<1>6. ASSUME NEW c \in Connectors, Routes!PushFails(c) PROVE RouteInv' /\ RouteAct
  <2>1. UNCHANGED bin /\ UNCHANGED cin BY <1>6 DEF Routes!PushFails
  <2> QED BY <1>6, <2>1, RoutePushFails, QuietAct
<1>7. ASSUME NEW c \in Connectors, Routes!PeerState(c) PROVE RouteInv' /\ RouteAct
  <2>1. /\ UNCHANGED bin /\ UNCHANGED cin
        /\ UNCHANGED <<owner, link, task, bin, cin, cur>>
    BY <1>7 DEF Routes!PeerState
  <2>2. RouteInv' BY <2>1 DEF RouteInv, RouteTypes, AllSigned, Signed, LinksSound
  <2> QED BY <2>1, <2>2, QuietAct
<1> QED
  BY <1>1, <1>2, <1>3, <1>4, <1>5, <1>6, <1>7, RouteDisconnect, RoutePush, RouteRecvReply,
     RouteRecv, RouteAnswer
     DEF Routes!Next

-----------------------------------------------------------------------------
(* Who is listed, and who is told. *)

(* What a disconnect leaves of a list is the list without the one who left. *)
LEMMA Removed ==
  ASSUME NEW S, NEW q \in Seq(S), NEW c, NEW r \in Routes!Without(q, c)
  PROVE  r \in Seq(S) /\ Ran(r) = Ran(q) \ {c}
<1> DEFINE kept == {i \in 1 .. Len(q) : q[i] # c}
           n == Cardinality(kept)
<1>1. Routes!Cardinality(kept) = n BY DEF Routes!Cardinality, Cardinality
<1>2. PICK from \in [1 .. n -> kept] :
        /\ \A i, j \in 1 .. n : i < j => from[i] < from[j]
        /\ r = [i \in 1 .. n |-> q[from[i]]]
  BY <1>1 DEF Routes!Without
<1>3. Len(q) \in Nat /\ IsFiniteSet(kept) /\ n \in Nat
  <2>1. Len(q) \in Nat /\ IsFiniteSet(1 .. Len(q)) BY FS_Interval
  <2>2. IsFiniteSet(kept) BY <2>1, FS_Subset
  <2> QED BY <2>1, <2>2, FS_CardinalityType
<1>4. \A i \in 1 .. n : from[i] \in 1 .. Len(q) /\ q[from[i]] # c OBVIOUS
<1>5. kept \subseteq 1 .. Len(q) /\ \A i \in 1 .. Len(q) : q[i] # c <=> i \in kept OBVIOUS
<1>6. \A k \in kept : \E i \in 1 .. n : from[i] = k
  <2>1. from \in Injection(1 .. n, kept)
    <3>1. \A i, j \in 1 .. n : from[i] = from[j] => i = j
      <4>1. \A i \in 1 .. n : from[i] \in Nat /\ i \in Nat BY <1>3, <1>4
      <4> HIDE DEF n, kept
      <4> QED BY <1>2, <4>1
    <3> HIDE DEF n, kept
    <3> QED BY <1>2, <3>1 DEF Injection, IsInjective
  <2>2. Cardinality(1 .. n) = n
    <3> HIDE DEF n
    <3> QED BY <1>3, FS_Interval
  <2>3. from \in Surjection(1 .. n, kept)
    <3>1. Cardinality(1 .. n) = Cardinality(kept) BY <2>2
    <3> HIDE DEF n, kept
    <3> QED BY <2>1, <3>1, <1>3, FS_Injection
  <2> HIDE DEF n, kept
  <2> QED BY <2>3 DEF Surjection
<1> HIDE DEF n, kept
<1>7. /\ r \in Seq(S) /\ Len(r) = n /\ \A i \in 1 .. n : r[i] = q[from[i]]
  BY <1>2, <1>3, <1>4
<1>8. Ran(r) \subseteq Ran(q) \ {c} BY <1>4, <1>7 DEF Ran
<1>9. ASSUME NEW k \in 1 .. Len(q), q[k] # c PROVE q[k] \in Ran(r)
  <2>1. PICK i \in 1 .. n : from[i] = k BY <1>5, <1>6, <1>9
  <2> QED BY <2>1, <1>7 DEF Ran
<1>10. ASSUME NEW x \in Ran(q), x # c PROVE x \in Ran(r)
  <2>1. PICK k \in 1 .. Len(q) : x = q[k] BY DEF Ran
  <2> QED BY <1>9, <1>10, <2>1
<1> QED BY <1>7, <1>8, <1>10

LEMMA RouteRange ==
  ASSUME NEW S, NEW q \in Seq(S)
  PROVE  Routes!Range(q) = Ran(q)
  BY DEF Routes!Range, Ran

(* What is known of the lists: they hold connected sockets only, nobody is *)
(* listed without an endpoint, a binder that wants to be told of those who *)
(* leave lists everybody it has met, and a promise is kept as it stands.   *)
ListTypes ==
  /\ setup \in Setups /\ binds \in 0 .. MaxBinds
  /\ listed \in Seq(Connectors) /\ waiting \in Seq(Connectors)
  /\ promise \in Connectors \cup {NoBinder}

EntriesSound ==
  /\ owner = NoBinder => listed = <<>>
  /\ \A c \in Ran(listed) \cup Ran(waiting) : link[c].on
  /\ \A c \in Connectors : setup.bye /\ link[c].met => c \in Ran(listed)

Promised ==
  promise # NoBinder =>
    promise \in Ran(listed) /\ (PeerHwm = 0 \/ cin[promise] < PeerHwm)

(* The inductive invariant with what is told. *)
TellInv == RouteInv /\ ListTypes /\ EntriesSound /\ Promised

LEMMA NobodyListed == Ran(<<>>) = {} BY DEF Ran

LEMMA TellInit == Routes!Init => TellInv
<1> SUFFICES ASSUME Routes!Init PROVE TellInv OBVIOUS
<1> USE DEF Routes!Init
<1>1. ListTypes BY DeliveryAssumption DEF ListTypes
<1>2. EntriesSound BY NobodyListed DEF EntriesSound
<1> QED BY <1>1, <1>2, RouteInit DEF TellInv, Promised

LEMMA TellStutters == TellInv /\ UNCHANGED routeVars => TellInv'
  BY RouteStutters DEF TellInv, ListTypes, EntriesSound, Promised, Ran, routeVars

(* One lemma per step that touches the lists, the links or the promise. *)
LEMMA TellBind ==
  ASSUME TellInv, NEW b \in Binders, Routes!Bind(b)
  PROVE  ListTypes' /\ EntriesSound' /\ Promised'
<1> USE DEF Routes!Bind
<1>1. listed = <<>> BY DEF TellInv, EntriesSound, Routes!IsBound
<1>2. promise = NoBinder /\ \A c \in Connectors : ~(setup.bye /\ link[c].met)
  BY <1>1, NobodyListed DEF TellInv, EntriesSound, Promised
<1>3. ListTypes' BY DeliveryAssumption DEF TellInv, ListTypes
<1>4. EntriesSound'
  <2>1. owner' # NoBinder BY DeliveryAssumption
  <2>2. Ran(listed') = Ran(waiting) /\ Ran(waiting') = {} BY NobodyListed
  <2> QED BY <2>1, <2>2, <1>2 DEF TellInv, EntriesSound
<1>5. Promised' BY <1>2 DEF Promised
<1> QED BY <1>3, <1>4, <1>5

LEMMA TellUnbind ==
  ASSUME TellInv, Routes!Unbind
  PROVE  ListTypes' /\ EntriesSound' /\ Promised'
<1>1. \A c \in Connectors : ~link'[c].met /\ link'[c].on = link[c].on
  BY DEF TellInv, RouteInv, RouteTypes, Routes!Link, Routes!Unbind
<1>2. /\ listed' = <<>> /\ owner' = NoBinder /\ promise' = NoBinder
      /\ UNCHANGED <<setup, binds, waiting>>
  BY DEF Routes!Unbind
<1>3. waiting \in Seq(Connectors) /\ Ran(waiting) \subseteq Connectors
  BY DEF TellInv, ListTypes, Ran
<1>4. <<>> \in Seq(Connectors) OBVIOUS
<1>5. ListTypes' BY <1>2, <1>4 DEF TellInv, ListTypes
<1>6. Ran(listed') = {} /\ Ran(waiting') = Ran(waiting) BY <1>2, NobodyListed
<1>7. EntriesSound' BY <1>1, <1>2, <1>3, <1>6 DEF TellInv, EntriesSound
<1> QED BY <1>2, <1>5, <1>7 DEF Promised

LEMMA TellDisconnectPeer ==
  ASSUME TellInv, NEW c \in Connectors, Routes!DisconnectPeer(c)
  PROVE  ListTypes' /\ EntriesSound' /\ Promised'
<1> USE DEF Routes!DisconnectPeer
<1>1. listed' \in Seq(Connectors) /\ Ran(listed') = Ran(listed) \ {c}
  BY Removed DEF TellInv, ListTypes
<1>2. /\ ~link'[c].met /\ link'[c].on = link[c].on
      /\ \A d \in Connectors : d # c => link'[d] = link[d]
  BY DEF TellInv, RouteInv, RouteTypes, Routes!Link
<1>3. ListTypes' BY <1>1 DEF TellInv, ListTypes
<1>4. /\ Ran(waiting') = Ran(waiting) /\ Ran(listed) \subseteq Connectors
      /\ Ran(waiting) \subseteq Connectors
  BY DEF TellInv, ListTypes, Ran
<1>5. EntriesSound' BY <1>1, <1>2, <1>4 DEF TellInv, EntriesSound, Routes!IsBound
<1>6. Promised' BY <1>1 DEF TellInv, Promised
<1> QED BY <1>3, <1>5, <1>6

LEMMA TellConnect ==
  ASSUME TellInv, NEW c \in Connectors, Routes!Connect(c)
  PROVE  ListTypes' /\ EntriesSound' /\ Promised'
<1> USE DEF Routes!Connect
<1>1. /\ link'[c].on /\ link'[c].met = link[c].met
      /\ \A d \in Connectors : d # c => link'[d] = link[d]
  BY DEF TellInv, RouteInv, RouteTypes
<1>2. listed \in Seq(Connectors) /\ waiting \in Seq(Connectors) BY DEF TellInv, ListTypes
<1>3. /\ Append(listed, c) \in Seq(Connectors) /\ Ran(Append(listed, c)) = Ran(listed) \cup {c}
      /\ Append(waiting, c) \in Seq(Connectors)
      /\ Ran(Append(waiting, c)) = Ran(waiting) \cup {c}
  BY <1>2, WithLast
<1>4. /\ listed' \in Seq(Connectors) /\ waiting' \in Seq(Connectors)
      /\ owner = NoBinder => listed' = listed
      /\ Ran(listed) \subseteq Ran(listed') /\ Ran(listed') \subseteq Ran(listed) \cup {c}
      /\ Ran(waiting') \subseteq Ran(waiting) \cup {c}
  BY <1>2, <1>3 DEF Routes!IsBound
<1>5. Ran(listed) \subseteq Connectors /\ Ran(waiting) \subseteq Connectors
  BY <1>2 DEF Ran
<1>6. UNCHANGED <<setup, binds, owner, cin, promise>> OBVIOUS
<1>7. ListTypes' BY <1>4, <1>6 DEF TellInv, ListTypes
<1>8. EntriesSound' BY <1>1, <1>4, <1>5, <1>6 DEF TellInv, EntriesSound
<1>9. Promised' BY <1>4, <1>6 DEF TellInv, Promised
<1> QED BY <1>7, <1>8, <1>9

LEMMA TellDisconnect ==
  ASSUME TellInv, NEW c \in Connectors, Routes!Disconnect(c)
  PROVE  ListTypes' /\ EntriesSound' /\ Promised'
<1> USE DEF Routes!Disconnect
<1>1. listed \in Seq(Connectors) /\ waiting \in Seq(Connectors) BY DEF TellInv, ListTypes
<1>2. /\ listed' \in Seq(Connectors) /\ Ran(listed') = Ran(listed) \ {c}
      /\ waiting' \in Seq(Connectors) /\ Ran(waiting') = Ran(waiting) \ {c}
  BY <1>1, Removed
<1>3. Ran(listed) \subseteq Connectors /\ Ran(waiting) \subseteq Connectors
  BY <1>1 DEF Ran
<1>4. Routes!Told(c) <=> setup.bye /\ c \in Ran(listed) BY <1>1, RouteRange DEF Routes!Told
<1>5. /\ link'[c].met = (link[c].met /\ ~Routes!Told(c))
      /\ \A d \in Connectors : d # c => link'[d] = link[d]
  BY DEF TellInv, RouteInv, RouteTypes, Routes!Link, Routes!Unlinked
<1>6. ~(setup.bye /\ link'[c].met) BY <1>4, <1>5 DEF TellInv, EntriesSound
<1>7. UNCHANGED <<setup, binds, owner, cin>>
      /\ promise' = IF promise = c THEN NoBinder ELSE promise OBVIOUS
<1>8. owner = NoBinder => listed' = <<>>
  <2> SUFFICES ASSUME owner = NoBinder PROVE listed' = <<>> OBVIOUS
  <2>1. Ran(listed') = {} BY <1>2, NobodyListed DEF TellInv, EntriesSound
  <2>2. ~(1 \in 1 .. Len(listed')) BY <2>1 DEF Ran
  <2> QED BY <1>2, <2>2
<1>9. ListTypes' BY <1>2, <1>7 DEF TellInv, ListTypes
<1>10. EntriesSound' BY <1>2, <1>3, <1>5, <1>6, <1>7, <1>8 DEF TellInv, EntriesSound
<1>11. Promised' BY <1>2, <1>7 DEF TellInv, Promised
<1> QED BY <1>9, <1>10, <1>11

LEMMA TellPush ==
  ASSUME TellInv, NEW c \in Connectors, Routes!Push(c)
  PROVE  ListTypes' /\ EntriesSound' /\ Promised'
<1> USE DEF Routes!Push
<1>1. Routes!Range(listed) = Ran(listed) BY RouteRange DEF TellInv, ListTypes
<1>2. /\ link'[c].on = link[c].on /\ (link'[c].met => link[c].met \/ c \in Ran(listed))
      /\ \A d \in Connectors : d # c => link'[d] = link[d]
  BY <1>1 DEF TellInv, RouteInv, RouteTypes, Routes!Link
<1>3. /\ UNCHANGED <<setup, binds, owner, listed, waiting, cin, promise>>
      /\ Ran(listed') = Ran(listed) /\ Ran(waiting') = Ran(waiting)
  OBVIOUS
<1>4. Ran(listed) \subseteq Connectors /\ Ran(waiting) \subseteq Connectors
  BY DEF TellInv, ListTypes, Ran
<1>5. ListTypes' BY <1>3 DEF TellInv, ListTypes
<1>6. EntriesSound' BY <1>2, <1>3, <1>4 DEF TellInv, EntriesSound
<1>7. Promised' BY <1>3 DEF TellInv, Promised
<1> QED BY <1>5, <1>6, <1>7

(* The other steps leave the lists and the links alone. *)
LEMMA ListsKept ==
  ASSUME TellInv, UNCHANGED <<setup, binds, owner, listed, waiting, link>>,
         promise' \in Connectors \cup {NoBinder}
  PROVE  ListTypes' /\ EntriesSound'
<1>1. Ran(listed') = Ran(listed) /\ Ran(waiting') = Ran(waiting) OBVIOUS
<1>2. ListTypes' BY DEF TellInv, ListTypes
<1>3. EntriesSound' BY <1>1 DEF TellInv, EntriesSound
<1> QED BY <1>2, <1>3

LEMMA TellRecvReply ==
  ASSUME TellInv, NEW c \in Connectors, Routes!RecvReply(c)
  PROVE  ListTypes' /\ EntriesSound' /\ Promised'
<1> USE DEF Routes!RecvReply
<1>1. ListTypes' /\ EntriesSound' BY ListsKept DEF TellInv, ListTypes
<1>2. \A d \in Connectors : cin[d] \in Nat /\ cin'[d] \in Nat /\ cin'[d] <= cin[d]
  BY DEF TellInv, RouteInv, RouteTypes
<1>3. Promised'
  <2> SUFFICES ASSUME promise # NoBinder
               PROVE  promise \in Ran(listed) /\ (PeerHwm = 0 \/ cin'[promise] < PeerHwm)
    BY DEF Promised
  <2>1. promise \in Connectors /\ promise \in Ran(listed)
        /\ (PeerHwm = 0 \/ cin[promise] < PeerHwm)
    BY DEF TellInv, ListTypes, Promised
  <2> QED BY <2>1, <1>2, DeliveryAssumption
<1> QED BY <1>1, <1>3

LEMMA TellPeerState ==
  ASSUME TellInv, NEW c \in Connectors, Routes!PeerState(c)
  PROVE  ListTypes' /\ EntriesSound' /\ Promised'
<1> USE DEF Routes!PeerState
<1>1. ListTypes' /\ EntriesSound' BY ListsKept
<1>2. Routes!Range(listed) = Ran(listed) BY RouteRange DEF TellInv, ListTypes
<1>3. Promised' BY <1>2 DEF Promised, Routes!Writable
<1> QED BY <1>1, <1>3

LEMMA TellStep == TellInv /\ Routes!Next => TellInv'
<1> SUFFICES ASSUME TellInv, Routes!Next PROVE ListTypes' /\ EntriesSound' /\ Promised'
  BY RouteStep DEF TellInv
<1>1. ASSUME NEW c \in Connectors, Routes!Stamp(c) \/ Routes!PushFails(c)
      PROVE  ListTypes' /\ EntriesSound' /\ Promised'
  <2>1. UNCHANGED <<setup, binds, owner, listed, waiting, link, cin, promise>>
    BY <1>1 DEF Routes!Stamp, Routes!PushFails
  <2>2. ListTypes' /\ EntriesSound' BY <2>1, ListsKept DEF TellInv, ListTypes
  <2> QED BY <2>1, <2>2 DEF TellInv, Promised
<1>2. ASSUME NEW b \in Binders, Routes!Recv(b)
      PROVE  ListTypes' /\ EntriesSound' /\ Promised'
  <2>1. UNCHANGED <<setup, binds, owner, listed, waiting, link, cin, promise>>
    BY <1>2 DEF Routes!Recv
  <2>2. ListTypes' /\ EntriesSound' BY <2>1, ListsKept DEF TellInv, ListTypes
  <2> QED BY <2>1, <2>2 DEF TellInv, Promised
<1>3. ASSUME NEW c \in Connectors, Routes!Answer(c)
      PROVE  ListTypes' /\ EntriesSound' /\ Promised'
  <2>1. promise' = NoBinder /\ UNCHANGED <<setup, binds, owner, listed, waiting, link>>
    BY <1>3 DEF Routes!Answer
  <2>2. ListTypes' /\ EntriesSound' BY <2>1, ListsKept
  <2> QED BY <2>1, <2>2 DEF Promised
<1> QED
  BY <1>1, <1>2, <1>3, TellBind, TellUnbind, TellDisconnectPeer, TellConnect, TellDisconnect,
     TellPush, TellRecvReply, TellPeerState
     DEF Routes!Next

LEMMA TellInvImplies ==
  TellInv => Routes!TypeOK /\ Routes!LeavingIsTold /\ Routes!PromiseKept
<1> SUFFICES ASSUME TellInv
             PROVE  Routes!TypeOK /\ Routes!LeavingIsTold /\ Routes!PromiseKept
  OBVIOUS
<1>1. Routes!TypeOK BY DEF TellInv, RouteInv, RouteTypes, ListTypes, Routes!TypeOK
<1>2. Routes!LeavingIsTold BY DEF TellInv, EntriesSound, Routes!LeavingIsTold
<1>3. Routes!Range(listed) = Ran(listed) BY RouteRange DEF TellInv, ListTypes
<1>4. Routes!PromiseKept BY <1>3 DEF TellInv, Promised, Routes!PromiseKept
<1> QED BY <1>1, <1>2, <1>4

(***************************************************************************)
(* For every number of binders and connectors: an answer to a message with *)
(* a routing id reaches the socket the message is from, and SERVER and     *)
(* PEER answer nobody else; what a socket sends while its name has been    *)
(* bound ever since it connected carries its id, although the name is      *)
(* looked up twice; a socket that has disconnected sends nothing more, and *)
(* a binder that wants to be told of it is told; and the peer that         *)
(* peer_state declares writable can be written to (resolve_outboxes,       *)
(* apply_outgoing_routing_id, Socket::disconnect, peer_state).             *)
(***************************************************************************)
THEOREM AlwaysRoutedRight == DeliverySpec => RoutedRight
<1> DEFINE vs == <<part, zapVars, distVars, routeVars>>
           Safe == part = "routes" =>
                     Routes!TypeOK /\ Routes!LeavingIsTold /\ Routes!PromiseKept
<1>1. DeliveryInit => TellInv BY TellInit DEF DeliveryInit
<1>2. TellInv /\ [DeliveryNext]_vs => TellInv' /\ [RouteAct]_(Routes!rvars)
  <2> SUFFICES ASSUME TellInv, [DeliveryNext]_vs
               PROVE  TellInv' /\ [RouteAct]_(Routes!rvars)
    OBVIOUS
  <2>1. CASE UNCHANGED routeVars
    <3>1. UNCHANGED Routes!rvars BY <2>1 DEF routeVars, Routes!rvars
    <3> QED BY <2>1, <3>1, TellStutters
  <2>2. CASE Routes!Next BY <2>2, TellStep, RouteStep DEF TellInv
  <2> QED BY <2>1, <2>2 DEF DeliveryNext
<1>3. TellInv => Safe BY TellInvImplies
<1>4. RouteAct =>
        /\ \A c \in Connectors :
             cin'[c] > cin[c] /\ (cur[owner].rid # NoBinder \/ setup.kind # "Router")
               => cur[owner].from = c
        /\ \A m \in Routes!Pushed : link[m.from].bound => m.rid = m.from
        /\ \A m \in Routes!Pushed : m.bye \/ link[m.from].on
  BY DEF RouteAct, PushedWell, Answers
<1>5. DeliverySpec => []TellInv /\ [][RouteAct]_(Routes!rvars)
  BY <1>1, <1>2, PTL DEF DeliverySpec
<1>6. DeliverySpec =>
        /\ Routes!AnswersReachTheAsker /\ Routes!StampedWhileBound /\ Routes!SilentOnceGone
  BY <1>4, <1>5, PTL
     DEF Routes!AnswersReachTheAsker, Routes!StampedWhileBound, Routes!SilentOnceGone
<1>7. DeliverySpec => []Safe BY <1>3, <1>5, PTL
<1> QED BY <1>6, <1>7 DEF RoutedRight
=============================================================================
