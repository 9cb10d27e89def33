-------------------------- MODULE TcpStreamProofs --------------------------
(***************************************************************************)
(* For every number of connections and messages and every setup: a stream  *)
(* is never misread, handshakes belong to the stream they were made on,    *)
(* and messages are received in the order they were sent.                  *)
(***************************************************************************)
EXTENDS TcpStream, FiniteSetTheorems, TLAPS

(* x has an end of the connection c, or will have: its own stream, or one
   that its listener has not accepted yet. *)
Holds(x, c) == conn[x] = c \/ (x = Server /\ c \in Range(backlog))

(***************************************************************************)
(* What an end writes to a connection is a fixed sequence: the two pieces  *)
(* of the greeting, READY, then messages, the hello message first.  Unit k *)
(* of what x writes:                                                       *)
(***************************************************************************)
UnitOf(x, k) ==
  [kind |-> CASE k = 1 -> "prefix" [] k = 2 -> "tail" [] k = 3 -> "ready"
              [] OTHER -> IF k = 4 /\ x \in setup.hello THEN "hello" ELSE "data",
   n    |-> IF k <= 3 THEN 0 ELSE k - 3]

(* How many units x has written to c ... *)
Written(x, c) ==
  IF conn[x] # c THEN 0
  ELSE IF flags[x].started THEN 3 + sent[c][x]
  ELSE IF pc[x] = "tail" THEN 2 ELSE IF pc[x] = "prefix" THEN 1 ELSE 0

(* ... and how many it has read from it. *)
Taken(x, c) ==
  IF conn[x] # c THEN 0
  ELSE IF flags[x].ready THEN 3 + got[c][Other(x)]
  ELSE IF flags[x].greeted THEN 2 ELSE IF pc[x] = "tail" THEN 1 ELSE 0

-----------------------------------------------------------------------------
(* Where the thread of x can be with the flags it has. *)
ThreadOK(x) ==
  /\ pc[x] # "idle" => conn[x] # NoConn /\ call[x] \in {"send", "recv"}
  /\ pc[x] = "idle" => call[x] = "none"
  /\ pc[x] \in {"open", "prefix", "tail"} => ~flags[x].started
  /\ pc[x] \in {"greet", "ready", "talk", "read"} => flags[x].started
  /\ pc[x] = "greet" => ~flags[x].greeted
  /\ pc[x] = "ready" => flags[x].greeted /\ ~flags[x].ready
  /\ pc[x] = "read" \/ (pc[x] = "talk" /\ call[x] = "recv") => flags[x].ready
  /\ flags[x].ready => flags[x].greeted
  /\ flags[x].greeted => flags[x].started
  /\ flags[x].started => conn[x] # NoConn
  /\ call[x] = "send" => conn[x] # NoConn /\ sent[conn[x]][x] < MaxMsgs

(* What x has sent and received on its connection so far. *)
CountOK(x) ==
  conn[x] # NoConn =>
    /\ ~flags[x].started => sent[conn[x]][x] = 0
    /\ ~flags[x].ready => got[conn[x]][Other(x)] = 0
    /\ x \in setup.hello => (flags[x].hello <=> sent[conn[x]][x] > 0)

(* Which streams there are. *)
Streams ==
  /\ bound = NoEndpoint => backlog = <<>> /\ conn[Server] = NoConn
  /\ target = NoEndpoint => conn[Client] = NoConn
  /\ conn[Server] = NoConn => flags[Server] = NoFlags
  /\ conn[Server] \notin Range(backlog)
  /\ \A i, j \in DOMAIN backlog : backlog[i] = backlog[j] => i = j
  /\ \A c \in Range(backlog) : sent[c][Server] = 0 /\ got[c][Client] = 0

(* An end is held until it is closed. *)
Ends ==
  \A c \in Conn, x \in End :
    Holds(x, c) => x \notin closed[c] /\ (Holds(Other(x), c) \/ Other(x) \in closed[c])

(* Whether x has written its greeting to c ... *)
GreetOK(c, x) ==
  closed[c] = {} =>
    /\ greetings[c][x] < 2
    /\ greetings[c][x] > 0 =>
         conn[x] = c /\ (flags[x].started \/ pc[x] \in {"prefix", "tail"})

(* ... and its READY. *)
ReadyOK(c, x) ==
  \A i \in 1 .. Len(wire[c][x]) : wire[c][x][i].kind = "ready" => x \in wrote[c]

FlagOK(x) ==
  /\ flags[x].started => conn[x] # NoConn /\ x \in wrote[conn[x]]
  /\ flags[x].ready => conn[x] # NoConn /\ Other(x) \in wrote[conn[x]]

(* On the wire is what y has written and the other side has not read. *)
StreamOK(c, y) ==
  /\ wire[c][y] # <<>> => Holds(Other(y), c)
  /\ \A i \in 1 .. Len(wire[c][y]) : wire[c][y][i] = UnitOf(y, Taken(Other(y), c) + i)
  /\ Holds(Other(y), c) /\ y \notin closed[c] =>
       Taken(Other(y), c) + Len(wire[c][y]) = Written(y, c)

(***************************************************************************)
(* The inductive invariant.  The properties speak of the head of the wire, *)
(* of flags and of counters; StreamOK ties them together: the position of  *)
(* each side in the sequence that the other one writes is known from its   *)
(* flags, its place in the call and its counter.                           *)
(***************************************************************************)
IInv ==
  /\ TypeOK
  /\ \A x \in End : ThreadOK(x) /\ CountOK(x) /\ FlagOK(x)
  /\ Streams
  /\ Ends
  /\ \A c \in Conn, x \in End : GreetOK(c, x) /\ ReadyOK(c, x) /\ StreamOK(c, x)

-----------------------------------------------------------------------------
LEMMA TwoEnds ==
  /\ Client \in End /\ Server \in End /\ Client # Server
  /\ \A x \in End : Other(x) \in End /\ Other(x) # x /\ Other(Other(x)) = x
  /\ \A x, y \in End : y = x \/ y = Other(x)
  /\ \A x \in End : x = Server \/ x = Client
  /\ Other(Client) = Server /\ Other(Server) = Client
  BY TcpAssumption DEF End, Other

(* A stream that x reads n units from and writes the units in w to. *)
Wired(x, n, w) ==
  LET c == conn[x]
      y == Other(x)
  IN  /\ Len(wire'[c][y]) = Len(wire[c][y]) - n
      /\ \A i \in 1 .. Len(wire[c][y]) - n : wire'[c][y][i] = wire[c][y][i + n]
      /\ PeerGone(x) => wire'[c][x] = wire[c][x]
      /\ ~PeerGone(x) =>
           /\ Len(wire'[c][x]) = Len(wire[c][x]) + Len(w)
           /\ \A i \in 1 .. Len(wire[c][x]) : wire'[c][x][i] = wire[c][x][i]
           /\ \A i \in 1 .. Len(w) : wire'[c][x][Len(wire[c][x]) + i] = w[i]
      /\ \A d \in Conn : d # c => wire'[d] = wire[d]

LEMMA ExchangeEffect ==
  ASSUME TypeOK, NEW x \in End, conn[x] # NoConn,
         NEW n \in Nat, n <= Len(Incoming(x)), NEW w \in Seq(Unit), Exchange(x, n, w)
  PROVE  Wired(x, n, w) /\ wire' \in [Conn -> [End -> Seq(Unit)]]
  <1> DEFINE c == conn[x]
             y == Other(x)
             r == SubSeq(wire[c][y], n + 1, Len(wire[c][y]))
             v == IF PeerGone(x) THEN wire[c][x] ELSE wire[c][x] \o w
  <1>1. c \in Conn /\ y \in End /\ y # x
    BY TwoEnds DEF TypeOK
  <1>2. wire[c][x] \in Seq(Unit) /\ wire[c][y] \in Seq(Unit)
    BY <1>1 DEF TypeOK
  <1>3. Len(wire[c][y]) \in Nat /\ n <= Len(wire[c][y])
    BY <1>2 DEF Incoming
  <1>4. /\ r \in Seq(Unit) /\ Len(r) = Len(wire[c][y]) - n
        /\ \A i \in 1 .. Len(wire[c][y]) - n : r[i] = wire[c][y][i + n]
    BY <1>2, <1>3
  <1>5. /\ v \in Seq(Unit)
        /\ PeerGone(x) => v = wire[c][x]
        /\ ~PeerGone(x) =>
           /\ Len(v) = Len(wire[c][x]) + Len(w)
           /\ \A i \in 1 .. Len(wire[c][x]) : v[i] = wire[c][x][i]
           /\ \A i \in 1 .. Len(w) : v[Len(wire[c][x]) + i] = w[i]
    BY <1>2
  <1>6. wire' = [wire EXCEPT ![c][y] = r, ![c][x] = v]
    BY <1>1 DEF Exchange, TypeOK
  <1> HIDE DEF r, v
  <1>7. /\ wire'[c][y] = r /\ wire'[c][x] = v
        /\ \A d \in Conn : d # c => wire'[d] = wire[d]
        /\ wire' \in [Conn -> [End -> Seq(Unit)]]
    BY <1>1, <1>4, <1>5, <1>6 DEF TypeOK
  <1> QED BY <1>4, <1>5, <1>7 DEF Wired

LEMMA PieceType ==
  ASSUME NEW k \in {"prefix", "tail", "ready"}
  PROVE  Piece(k) \in Unit
  BY TcpAssumption DEF Piece, Unit

LEMMA MessageUnit ==
  ASSUME NEW x, NEW k \in Nat, k > 3, k <= MaxMsgs + 4
  PROVE  /\ UnitOf(x, k) = [kind |-> IF k = 4 /\ x \in setup.hello THEN "hello" ELSE "data",
                            n |-> k - 3]
         /\ UnitOf(x, k) \in Unit
         /\ UnitOf(x, k).kind # "ready"
  BY TcpAssumption DEF UnitOf, Unit

(* A hello message is due only as the first message. *)
LEMMA HelloUnits ==
  ASSUME TypeOK, NEW x \in End, conn[x] # NoConn, CountOK(x), NEW s, s = sent[conn[x]][x]
  PROVE  /\ s \in Nat /\ s <= MaxMsgs + 1
         /\ HelloDue(x) => s = 0 /\ Hello(x) = <<UnitOf(x, 4)>> /\ x \in setup.hello
         /\ ~HelloDue(x) => Hello(x) = <<>> /\ (s > 0 \/ x \notin setup.hello)
  <1>1. conn[x] \in Conn
    BY DEF TypeOK
  <1>2. s \in 0 .. MaxMsgs + 1
    BY <1>1 DEF TypeOK
  <1>3. s \in Nat /\ s <= MaxMsgs + 1
    BY <1>2, TcpAssumption
  <1>4. x \in setup.hello => (flags[x].hello <=> s > 0)
    BY DEF CountOK
  <1>5. CASE HelloDue(x)
    <2>1. s = 0
      BY <1>3, <1>4, <1>5 DEF HelloDue
    <2>2. Hello(x) = <<[kind |-> "hello", n |-> 1]>>
      BY <1>5, <2>1 DEF Hello
    <2>3. UnitOf(x, 4) = [kind |-> "hello", n |-> 1]
      BY <1>5 DEF UnitOf, HelloDue
    <2> QED BY <1>3, <1>5, <2>1, <2>2, <2>3 DEF HelloDue
  <1>6. CASE ~HelloDue(x)
    BY <1>3, <1>4, <1>6 DEF HelloDue, Hello
  <1> QED BY <1>5, <1>6

LEMMA OneUnit ==
  ASSUME NEW u \in Unit
  PROVE  <<u>> \in Seq(Unit) /\ Len(<<u>>) = 1 /\ <<u>>[1] = u
  OBVIOUS

LEMMA OneMore ==
  ASSUME NEW h \in Seq(Unit), NEW u \in Unit
  PROVE  /\ Append(h, u) \in Seq(Unit)
         /\ \A n : n = Len(h) => /\ Len(Append(h, u)) = n + 1
                                /\ Append(h, u)[n + 1] = u
                                /\ \A i \in 1 .. n : Append(h, u)[i] = h[i]
  OBVIOUS

(* What send writes, after the s messages that were there. *)
LEMMA SendUnits ==
  ASSUME TypeOK, NEW x \in End, conn[x] # NoConn, CountOK(x), NEW s, s = sent[conn[x]][x],
         s < MaxMsgs,
         NEW w, w = Append(Hello(x), [kind |-> "data", n |-> s + Len(Hello(x)) + 1])
  PROVE  /\ w \in Seq(Unit) /\ Len(w) \in Nat \ {0} /\ s + Len(w) <= MaxMsgs + 1
         /\ \A i \in 1 .. Len(w) : w[i] = UnitOf(x, 3 + s + i) /\ w[i].kind # "ready"
  <1>1. s \in Nat /\ MaxMsgs \in Nat
    BY HelloUnits, TcpAssumption
  <1>2. CASE HelloDue(x)
    <2>1. s = 0 /\ Hello(x) = <<UnitOf(x, 4)>>
      BY <1>2, HelloUnits
    <2>2. UnitOf(x, 4) \in Unit /\ UnitOf(x, 4).kind # "ready"
      BY <1>1, MessageUnit
    <2>3. /\ UnitOf(x, 5) \in Unit /\ UnitOf(x, 5).kind # "ready"
          /\ UnitOf(x, 5) = [kind |-> "data", n |-> 2]
      BY <1>1, <2>1, MessageUnit
    <2>4. Hello(x) \in Seq(Unit) /\ Len(Hello(x)) = 1 /\ Hello(x)[1] = UnitOf(x, 4)
      BY <2>1, <2>2, OneUnit
    <2>5. w = Append(Hello(x), UnitOf(x, 5))
      BY <2>1, <2>3, <2>4
    <2>6. w \in Seq(Unit) /\ Len(w) = 2 /\ w[1] = UnitOf(x, 4) /\ w[2] = UnitOf(x, 5)
      <3>1. w \in Seq(Unit) /\ Len(w) = 1 + 1 /\ w[1 + 1] = UnitOf(x, 5)
        BY <2>3, <2>4, <2>5, OneMore
      <3>2. \A i \in 1 .. 1 : w[i] = Hello(x)[i]
        BY <2>3, <2>4, <2>5, OneMore
      <3> QED BY <2>4, <3>1, <3>2
    <2>7. \A i \in 1 .. 2 : w[i] = UnitOf(x, 3 + s + i) /\ w[i].kind # "ready"
      <3>1. \A i \in 1 .. 2 : i = 1 \/ i = 2
        OBVIOUS
      <3>2. 3 + s + 1 = 4 /\ 3 + s + 2 = 5
        BY <2>1
      <3> QED BY <2>2, <2>3, <2>6, <3>1, <3>2
    <2> QED BY <1>1, <2>1, <2>6, <2>7
  <1>3. CASE ~HelloDue(x)
    <2>1. Hello(x) = <<>> /\ (s > 0 \/ x \notin setup.hello)
      BY <1>3, HelloUnits
    <2>2. /\ UnitOf(x, s + 4) \in Unit /\ UnitOf(x, s + 4).kind # "ready"
          /\ UnitOf(x, s + 4) = [kind |-> "data", n |-> s + 1]
      <3>1. s + 4 \in Nat /\ s + 4 > 3 /\ s + 4 <= MaxMsgs + 4 /\ s + 4 - 3 = s + 1
        BY <1>1
      <3>2. PICK k \in Nat : k = s + 4
        BY <3>1
      <3>3. /\ UnitOf(x, k) = [kind |-> IF k = 4 /\ x \in setup.hello THEN "hello" ELSE "data",
                              n |-> k - 3]
            /\ UnitOf(x, k) \in Unit /\ UnitOf(x, k).kind # "ready"
        BY <3>1, <3>2, MessageUnit
      <3>4. ~(k = 4 /\ x \in setup.hello) /\ k - 3 = s + 1
        BY <1>1, <2>1, <3>1, <3>2
      <3>5. UnitOf(x, k) = [kind |-> "data", n |-> s + 1]
        BY <3>3, <3>4
      <3> QED BY <3>2, <3>3, <3>5
    <2>3. w = Append(Hello(x), UnitOf(x, s + 4))
      <3>1. s + Len(Hello(x)) + 1 = s + 1
        BY <1>1, <2>1
      <3> QED BY <2>1, <2>2, <3>1
    <2>4. w \in Seq(Unit) /\ Len(w) = 1 /\ w[1] = UnitOf(x, s + 4)
      <3>1. Hello(x) \in Seq(Unit) /\ Len(Hello(x)) = 0
        BY <2>1
      <3>2. w \in Seq(Unit) /\ Len(w) = 0 + 1 /\ w[0 + 1] = UnitOf(x, s + 4)
        BY <2>2, <2>3, <3>1, OneMore
      <3> QED BY <3>2
    <2>5. \A i \in 1 .. 1 : w[i] = UnitOf(x, 3 + s + i) /\ w[i].kind # "ready"
      <3>1. 3 + s + 1 = s + 4 /\ \A i \in 1 .. 1 : i = 1
        BY <1>1
      <3> QED BY <2>2, <2>4, <3>1
    <2> QED BY <1>1, <2>4, <2>5
  <1> QED BY <1>2, <1>3

-----------------------------------------------------------------------------
(* Types. *)

LEMMA PlaceType ==
  ASSUME NEW k \in {"send", "recv"}, NEW f
  PROVE  Place(k, f) \in {"open", "greet", "ready", "talk"}
  <1>1. CASE ~f.started
    BY <1>1 DEF Place
  <1>2. CASE f.started /\ k = "send"
    BY <1>2 DEF Place
  <1>3. CASE f.started /\ k = "recv" /\ ~f.greeted
    BY <1>3 DEF Place
  <1>4. CASE f.started /\ k = "recv" /\ f.greeted
    BY <1>4 DEF Place
  <1> QED BY <1>1, <1>2, <1>3, <1>4

PcType == {"idle", "open", "prefix", "tail", "greet", "ready", "talk", "read"}

LEMMA FlagTypes ==
  ASSUME TypeOK, NEW x \in End
  PROVE  /\ FlagsReset(x) \in [End -> Flags] /\ FlagsButHello(x) \in [End -> Flags]
         /\ \A seen \in BOOLEAN : [flags EXCEPT ![x] = HandshakeResult(@, seen)] \in [End -> Flags]
         /\ [flags EXCEPT ![x].greeted = TRUE] \in [End -> Flags]
         /\ [flags EXCEPT ![x].ready = TRUE] \in [End -> Flags]
         /\ [flags EXCEPT ![x].hello = @ \/ HelloDue(x)] \in [End -> Flags]
  <1>1. flags \in [End -> Flags] /\ flags[x] \in Flags /\ NoFlags \in Flags
    BY DEF TypeOK, Flags, NoFlags
  <1>2. [NoFlags EXCEPT !.hello = flags[x].hello] \in Flags
    BY <1>1 DEF Flags
  <1>3. \A seen \in BOOLEAN : HandshakeResult(flags[x], seen) \in Flags
    BY <1>1 DEF Flags, HandshakeResult
  <1>4. [flags[x] EXCEPT !.greeted = TRUE] \in Flags /\ [flags[x] EXCEPT !.ready = TRUE] \in Flags
    BY <1>1 DEF Flags
  <1>5. [flags[x] EXCEPT !.hello = @ \/ HelloDue(x)] \in Flags
    <2>1. (flags[x].hello \/ HelloDue(x)) \in BOOLEAN
      OBVIOUS
    <2> QED BY <1>1, <2>1 DEF Flags
  <1> QED BY <1>1, <1>2, <1>3, <1>4, <1>5 DEF FlagsReset, FlagsButHello

LEMMA CloseType ==
  ASSUME TypeOK, NEW x \in End, NEW C, Close(x, C)
  PROVE  closed' \in [Conn -> SUBSET End] /\ wire' \in [Conn -> [End -> Seq(Unit)]]
  <1>1. \A c \in Conn : closed[c] \cup {x} \in SUBSET End
    BY DEF TypeOK
  <1>2. \A c \in Conn : [wire[c] EXCEPT ![Other(x)] = <<>>] \in [End -> Seq(Unit)]
    <2>1. <<>> \in Seq(Unit)
      OBVIOUS
    <2> QED BY <2>1 DEF TypeOK
  <1> QED BY <1>1, <1>2 DEF TypeOK, Close

LEMMA DialType ==
  ASSUME TypeOK, Dial
  PROVE  /\ backlog' \in Seq(Conn) /\ conn' \in [End -> Conn \cup {NoConn}]
         /\ wire' \in [Conn -> [End -> Seq(Unit)]] /\ closed' \in [Conn -> SUBSET End]
         /\ wrote' \in [Conn -> SUBSET End] /\ greetings' \in [Conn -> [End -> 0 .. 2]]
         /\ sent' \in [Conn -> [End -> 0 .. MaxMsgs + 1]]
         /\ got' \in [Conn -> [End -> 0 .. MaxMsgs + 1]]
  <1> DEFINE c == CHOOSE d \in Unused : TRUE
  <1>1. c \in Conn
    BY DEF Dial, Unused
  <1>2. 0 \in 0 .. 2 /\ 0 \in 0 .. MaxMsgs + 1
    BY TcpAssumption
  <1> HIDE DEF c
  <1>3. /\ backlog' = Append(backlog, c)
        /\ conn' = [conn EXCEPT ![Client] = c]
        /\ wire' = [d \in Conn |->
             IF d = c THEN [x \in End |-> <<>>]
             ELSE IF d = conn[Client] THEN [wire[d] EXCEPT ![Server] = <<>>] ELSE wire[d]]
        /\ closed' = [d \in Conn |->
             IF d = c THEN {}
             ELSE IF d = conn[Client] THEN closed[d] \cup {Client} ELSE closed[d]]
        /\ wrote' = [wrote EXCEPT ![c] = {}]
        /\ greetings' = [greetings EXCEPT ![c] = [x \in End |-> 0]]
        /\ sent' = [sent EXCEPT ![c] = [x \in End |-> 0]]
        /\ got' = [got EXCEPT ![c] = [x \in End |-> 0]]
    BY DEF Dial, c
  <1>4. backlog' \in Seq(Conn)
    BY <1>1, <1>3 DEF TypeOK
  <1>5. conn' \in [End -> Conn \cup {NoConn}]
    BY <1>1, <1>3 DEF TypeOK
  <1>6. wire' \in [Conn -> [End -> Seq(Unit)]]
    <2>1. <<>> \in Seq(Unit)
      OBVIOUS
    <2>2. [x \in End |-> <<>>] \in [End -> Seq(Unit)]
      BY <2>1
    <2>3. \A d \in Conn : [wire[d] EXCEPT ![Server] = <<>>] \in [End -> Seq(Unit)]
      BY <2>1 DEF TypeOK
    <2> QED BY <1>3, <2>2, <2>3 DEF TypeOK
  <1>7. closed' \in [Conn -> SUBSET End] /\ wrote' \in [Conn -> SUBSET End]
    BY <1>3, TwoEnds DEF TypeOK
  <1>8. greetings' \in [Conn -> [End -> 0 .. 2]]
    BY <1>2, <1>3 DEF TypeOK
  <1>9. sent' \in [Conn -> [End -> 0 .. MaxMsgs + 1]]
    BY <1>2, <1>3 DEF TypeOK
  <1>10. got' \in [Conn -> [End -> 0 .. MaxMsgs + 1]]
    BY <1>2, <1>3 DEF TypeOK
  <1> QED BY <1>4, <1>5, <1>6, <1>7, <1>8, <1>9, <1>10

LEMMA ReturnType ==
  ASSUME TypeOK, NEW x \in End, Return(x)
  PROVE  pc' \in [End -> PcType] /\ call' \in [End -> {"none", "send", "recv"}]
  BY DEF TypeOK, Return, PcType

LEMMA BeginType ==
  ASSUME TypeOK, NEW x \in End, NEW k \in {"send", "recv"}, NEW f, Begin(x, k, f)
  PROVE  pc' \in [End -> PcType] /\ call' \in [End -> {"none", "send", "recv"}]
  BY PlaceType DEF TypeOK, Begin, PcType

LEMMA LifecycleType ==
  ASSUME TypeOK, Lifecycle \/ BackoffExpires \/ ReconnectRefused
  PROVE  TypeOK'
  <1> USE TwoEnds
  <1>0. setup.at \subseteq Endpoint
    BY TcpAssumption DEF TypeOK, Setup
  <1>1. ASSUME NEW e \in Endpoint, BindTcp(e) PROVE TypeOK'
    <2>1. backlog' \in Seq(Conn)
      BY <1>1 DEF BindTcp
    <2>2. closed' \in [Conn -> SUBSET End] /\ wire' \in [Conn -> [End -> Seq(Unit)]]
      BY <1>1, CloseType DEF BindTcp
    <2>3. rebound' \in BOOLEAN
      BY <1>1 DEF BindTcp
    <2> QED BY <1>1, <2>1, <2>2, <2>3, FlagTypes DEF TypeOK, BindTcp, threadVars, history
  <1>2. CASE UnbindTcp
    <2>1. backlog' \in Seq(Conn)
      BY <1>2 DEF UnbindTcp
    <2>2. conn' \in [End -> Conn \cup {NoConn}]
      BY <1>2 DEF TypeOK, UnbindTcp
    <2>3. closed' \in [Conn -> SUBSET End] /\ wire' \in [Conn -> [End -> Seq(Unit)]]
      BY <1>2, CloseType DEF UnbindTcp
    <2> QED BY <1>2, <2>1, <2>2, <2>3, FlagTypes DEF TypeOK, UnbindTcp, threadVars, history
  <1>3. ASSUME NEW e \in Endpoint, ConnectTcpLater(e) PROVE TypeOK'
    BY <1>3, FlagTypes, CloseType DEF TypeOK, ConnectTcpLater, threadVars, history
  <1>4. ASSUME NEW e \in Endpoint, ConnectTcp(e) PROVE TypeOK'
    BY <1>4, FlagTypes, DialType DEF TypeOK, ConnectTcp, threadVars
  <1>5. ASSUME NEW e \in Endpoint, ConnectIpc(e) PROVE TypeOK'
    BY <1>5, FlagTypes, DialType DEF TypeOK, ConnectIpc, threadVars
  <1>6. CASE DisconnectTcp
    BY <1>6, FlagTypes, CloseType DEF TypeOK, DisconnectTcp, threadVars, history
  <1>7. CASE BackoffExpires \/ ReconnectRefused
    BY <1>7 DEF TypeOK, BackoffExpires, ReconnectRefused, threadVars, history
  <1> QED BY <1>0, <1>1, <1>2, <1>3, <1>4, <1>5, <1>6, <1>7 DEF Lifecycle

LEMMA EnterType ==
  ASSUME TypeOK, NEW k \in {"send", "recv"}, Enter(k)
  PROVE  TypeOK'
  <1> USE TwoEnds
  <1>1. ASSUME NEW x \in End, Call(x, k) PROVE TypeOK'
    BY <1>1, BeginType DEF TypeOK, Call, PcType, socketVars, history
  <1>2. CASE Reconnect(k)
    <2>1. pc' \in [End -> PcType] /\ call' \in [End -> {"none", "send", "recv"}]
      BY <1>2, BeginType DEF Reconnect
    <2>2. Dial /\ flags' = FlagsReset(Client)
          /\ UNCHANGED <<setup, bound, target, backoff, rebound>>
      BY <1>2 DEF Reconnect
    <2> QED BY <2>1, <2>2, FlagTypes, DialType DEF TypeOK, PcType
  <1>3. ASSUME AcceptTcp(k) \/ AcceptIpc(k)
        PROVE  backlog' \in Seq(Conn) /\ conn' \in [End -> Conn \cup {NoConn}]
    <2>1. /\ backlog # <<>> /\ conn' = [conn EXCEPT ![Server] = Head(backlog)]
          /\ backlog' = Tail(backlog)
      BY <1>3 DEF AcceptTcp, AcceptIpc
    <2>2. backlog \in Seq(Conn)
      BY DEF TypeOK
    <2> QED BY <2>1, <2>2 DEF TypeOK
  <1>4. CASE AcceptTcp(k)
    <2>1. pc' \in [End -> PcType] /\ call' \in [End -> {"none", "send", "recv"}]
      BY <1>4, BeginType DEF AcceptTcp
    <2>2. UNCHANGED <<setup, bound, target, backoff, rebound, flags, wire, closed, history>>
      BY <1>4 DEF AcceptTcp
    <2> QED BY <1>3, <1>4, <2>1, <2>2 DEF TypeOK, PcType, history
  <1>5. CASE AcceptIpc(k)
    <2>1. pc' \in [End -> PcType] /\ call' \in [End -> {"none", "send", "recv"}]
      BY <1>5, BeginType DEF AcceptIpc
    <2>2. /\ UNCHANGED <<setup, bound, target, backoff, rebound, wire, closed, history>>
          /\ flags' = FlagsReset(Server)
      BY <1>5 DEF AcceptIpc
    <2> QED BY <1>3, <1>5, <2>1, <2>2, FlagTypes DEF TypeOK, PcType, history
  <1> QED BY <1>1, <1>2, <1>4, <1>5 DEF Enter

-----------------------------------------------------------------------------
(* A step of a call: x changes nothing but its own state and its stream. *)

Local(x) ==
  /\ UNCHANGED <<setup, bound, backlog, target, conn, closed>>
  /\ \A y \in End : y # x => pc'[y] = pc[y] /\ flags'[y] = flags[y] /\ call'[y] = call[y]
  /\ \A c \in Conn, y \in End : c # conn[x] \/ y # x =>
       /\ sent'[c][y] = sent[c][y]
       /\ greetings'[c][y] = greetings[c][y]
       /\ y \in wrote[c] <=> y \in wrote'[c]
  /\ x \in wrote[conn[x]] => x \in wrote'[conn[x]]
  /\ \A c \in Conn, y \in End : c # conn[x] \/ y = x => got'[c][y] = got[c][y]

(* What is left to show of such a step on the connection c, in which x reads
   n units and writes those in w. *)
Progress(x, c, n, w) ==
  /\ ThreadOK(x)' /\ CountOK(x)' /\ FlagOK(x)' /\ GreetOK(c, x)'
  /\ \A i \in 1 .. Len(w) : w[i].kind = "ready" => x \in wrote'[c]
  /\ \/ PeerGone(x) /\ n = Len(Incoming(x))
     \/ Taken(x, c)' = Taken(x, c) + n
  /\ \/ PeerGone(x)
     \/ /\ Written(x, c)' = Written(x, c) + Len(w)
        /\ \A i \in 1 .. Len(w) : w[i] = UnitOf(x, Written(x, c) + i)

LEMMA PositionType ==
  ASSUME TypeOK, NEW x \in End, NEW c \in Conn
  PROVE  Taken(x, c) \in Nat /\ Written(x, c) \in Nat
  <1>1. sent[c][x] \in 0 .. MaxMsgs + 1 /\ got[c][Other(x)] \in 0 .. MaxMsgs + 1
    BY TwoEnds DEF TypeOK
  <1>2. sent[c][x] \in Nat /\ got[c][Other(x)] \in Nat
    BY <1>1, TcpAssumption
  <1> QED BY <1>2 DEF Taken, Written

(* The other end, and other connections, are where they were. *)
LEMMA LocalPositions ==
  ASSUME TypeOK, NEW x \in End, Local(x), conn[x] # NoConn
  PROVE  /\ \A c \in Conn : /\ Taken(Other(x), c)' = Taken(Other(x), c)
                            /\ Written(Other(x), c)' = Written(Other(x), c)
         /\ \A c \in Conn : c # conn[x] => /\ Taken(x, c)' = Taken(x, c)
                                           /\ Written(x, c)' = Written(x, c)
         /\ \A c \in Conn, y \in End : Holds(y, c)' <=> Holds(y, c)
         /\ \A y \in End : \A k : UnitOf(y, k)' = UnitOf(y, k)
  <1>1. \A c \in Conn : c # conn[x] => /\ Taken(x, c)' = Taken(x, c)
                                       /\ Written(x, c)' = Written(x, c)
    BY DEF Local, Taken, Written
  <1>2. \A c \in Conn : Taken(Other(x), c)' = Taken(Other(x), c)
    BY TwoEnds DEF Local, Taken
  <1>3. \A c \in Conn : Written(Other(x), c)' = Written(Other(x), c)
    BY TwoEnds DEF Local, Written
  <1>4. \A c \in Conn, y \in End : Holds(y, c)' <=> Holds(y, c)
    BY DEF Local, Holds
  <1>5. \A y \in End : \A k : UnitOf(y, k)' = UnitOf(y, k)
    BY DEF Local, UnitOf
  <1> QED BY <1>1, <1>2, <1>3, <1>4, <1>5

LEMMA LocalStep ==
  ASSUME IInv, TypeOK', NEW x \in End, NEW c \in Conn, conn[x] = c, Local(x),
         NEW n \in Nat, NEW w \in Seq(Unit), n <= Len(Incoming(x)),
         Wired(x, n, w), Progress(x, c, n, w)
  PROVE  IInv'
  <1>0. PICK y \in End : y = Other(x)
    BY TwoEnds
  <1>1. TypeOK /\ Streams /\ Ends
    BY DEF IInv
  <1>2. /\ Other(x) = y /\ y # x /\ Other(y) = x /\ c # NoConn
        /\ \A z \in End : z = x \/ z = y
    BY <1>0, TwoEnds, TcpAssumption
  <1>3. conn' = conn /\ closed' = closed /\ setup' = setup /\ backlog' = backlog
    BY DEF Local
  <1>4. ThreadOK(y)'
    <2>1. pc'[y] = pc[y] /\ flags'[y] = flags[y] /\ call'[y] = call[y]
      BY <1>2 DEF Local
    <2>2. conn[y] # NoConn => sent'[conn[y]][y] = sent[conn[y]][y]
      BY <1>1, <1>2 DEF Local, TypeOK
    <2>3. ThreadOK(y)
      BY <1>2 DEF IInv
    <2> QED BY <1>3, <2>1, <2>2, <2>3 DEF ThreadOK
  <1>5. CountOK(y)'
    <2>1. flags'[y] = flags[y]
      BY <1>2 DEF Local
    <2>2. conn[y] # NoConn => /\ sent'[conn[y]][y] = sent[conn[y]][y]
                              /\ got'[conn[y]][x] = got[conn[y]][x]
      BY <1>1, <1>2 DEF Local, TypeOK
    <2>3. CountOK(y)
      BY <1>2 DEF IInv
    <2> QED BY <1>2, <1>3, <2>1, <2>2, <2>3 DEF CountOK
  <1>6. FlagOK(y)'
    <2>1. flags'[y] = flags[y]
      BY <1>2 DEF Local
    <2>2. conn[y] # NoConn => /\ y \in wrote[conn[y]] => y \in wrote'[conn[y]]
                              /\ x \in wrote[conn[y]] => x \in wrote'[conn[y]]
      <3>1. \A d \in Conn : /\ y \in wrote[d] => y \in wrote'[d]
                            /\ x \in wrote[d] => x \in wrote'[d]
        BY <1>2 DEF Local
      <3> QED BY <1>1, <3>1 DEF TypeOK
    <2>3. FlagOK(y)
      BY <1>2 DEF IInv
    <2> QED BY <1>2, <1>3, <2>1, <2>2, <2>3 DEF FlagOK
  <1>7. Streams'
    <2>1. conn[Server] = NoConn => flags'[Server] = flags[Server]
      BY <1>2, TwoEnds DEF Local
    <2>2. \A d \in Range(backlog) : sent'[d][Server] = sent[d][Server] /\ got'[d][Client] = got[d][Client]
      <3> SUFFICES ASSUME NEW d \in Range(backlog)
                   PROVE  sent'[d][Server] = sent[d][Server] /\ got'[d][Client] = got[d][Client]
        OBVIOUS
      <3>1. d \in Conn
        BY <1>1 DEF TypeOK, Range
      <3>2. CASE x = Server
        BY <1>1, <3>1, <3>2, TwoEnds DEF Streams, Local
      <3>3. CASE x = Client
        BY <3>1, <3>3, TwoEnds DEF Local
      <3> QED BY <3>2, <3>3, TwoEnds
    <2>3. bound' = bound /\ target' = target
      BY DEF Local
    <2> QED BY <1>1, <1>3, <2>1, <2>2, <2>3 DEF Streams
  <1>8. Ends'
    BY <1>1, <1>3 DEF Ends, Holds
  <1>9. ASSUME NEW d \in Conn, NEW z \in End PROVE GreetOK(d, z)'
    <2>1. CASE d = c /\ z = x
      BY <2>1 DEF Progress
    <2>2. CASE d # c \/ z # x
      <3>1. greetings'[d][z] = greetings[d][z] /\ GreetOK(d, z)
        BY <1>9, <2>2 DEF Local, IInv
      <3>2. CASE z = x
        BY <1>3, <2>2, <3>1, <3>2 DEF GreetOK
      <3>3. CASE z # x
        <4>1. pc'[z] = pc[z] /\ flags'[z] = flags[z]
          BY <3>3 DEF Local
        <4> QED BY <1>3, <3>1, <4>1 DEF GreetOK
      <3> QED BY <3>2, <3>3
    <2> QED BY <2>1, <2>2
  <1>10. ASSUME NEW d \in Conn, NEW z \in End PROVE ReadyOK(d, z)' /\ StreamOK(d, z)'
    <2>1. ReadyOK(d, z) /\ StreamOK(d, z)
      BY <1>10 DEF IInv
    <2>2. CASE d # c
      <3>1. wire'[d] = wire[d] /\ (z \in wrote[d] <=> z \in wrote'[d])
        BY <1>10, <2>2 DEF Wired, Local
      <3>2. ReadyOK(d, z)'
        BY <2>1, <3>1 DEF ReadyOK
      <3>3. /\ Taken(Other(z), d)' = Taken(Other(z), d) /\ Written(z, d)' = Written(z, d)
            /\ Holds(Other(z), d)' <=> Holds(Other(z), d)
            /\ \A k : UnitOf(z, k)' = UnitOf(z, k)
        BY <1>1, <1>2, <1>10, <2>2, LocalPositions
      <3> QED BY <1>3, <2>1, <3>1, <3>2, <3>3 DEF StreamOK
    <2>3. CASE d = c /\ z = y
      <3> DEFINE m == Len(wire[c][y])
      <3>1. /\ Len(wire'[c][y]) = m - n
            /\ \A i \in 1 .. m - n : wire'[c][y][i] = wire[c][y][i + n]
        BY <1>2 DEF Wired
      <3>2. m \in Nat /\ n <= m
        BY <1>1, <1>2 DEF TypeOK, Incoming
      <3>3. \A i \in 1 .. m - n : i + n \in 1 .. m
        BY <3>2
      <3>4. y \in wrote'[c] <=> y \in wrote[c]
        BY <1>2 DEF Local
      <3>5. /\ Written(y, c)' = Written(y, c) /\ (Holds(x, c)' <=> Holds(x, c))
            /\ \A k : UnitOf(y, k)' = UnitOf(y, k)
        BY <1>1, <1>2, LocalPositions
      <3>6. Taken(x, c) \in Nat /\ Written(y, c) \in Nat
        BY <1>1, <1>2, PositionType
      <3>7. /\ \A i \in 1 .. m : wire[c][y][i] = UnitOf(y, Taken(x, c) + i)
            /\ Holds(x, c)
            /\ y \notin closed[c] => Taken(x, c) + m = Written(y, c)
        BY <1>2, <2>1, <2>3 DEF StreamOK, Holds
      <3>8. ReadyOK(c, y)'
        <4>1. \A i \in 1 .. m : wire[c][y][i].kind = "ready" => y \in wrote[c]
          BY <2>1, <2>3 DEF ReadyOK
        <4> HIDE DEF m
        <4>2. \A i \in 1 .. Len(wire'[c][y]) : wire'[c][y][i].kind = "ready" => y \in wrote'[c]
          BY <3>1, <3>3, <3>4, <4>1
        <4> QED BY <1>3, <4>2 DEF ReadyOK
      <3>9. wire'[c][y] \in Seq(Unit)
        BY <1>2 DEF TypeOK
      <3> HIDE DEF m
      <3>10. CASE PeerGone(x) /\ n = Len(Incoming(x))
        <4>1. y \in closed[c] /\ Len(wire'[c][y]) = 0
          BY <1>2, <3>1, <3>2, <3>10 DEF PeerGone, Incoming, m
        <4> QED BY <1>2, <1>3, <2>3, <3>5, <3>7, <3>8, <3>9, <4>1 DEF StreamOK
      <3>11. CASE Taken(x, c)' = Taken(x, c) + n
        <4>1. \A i \in 1 .. m - n : wire'[c][y][i] = UnitOf(y, Taken(x, c) + n + i)
          <5>1. \A i \in 1 .. m - n : Taken(x, c) + (i + n) = Taken(x, c) + n + i
            BY <3>2, <3>6
          <5> QED BY <3>1, <3>3, <3>7, <5>1
        <4>2. y \notin closed[c] => Taken(x, c) + n + Len(wire'[c][y]) = Written(y, c)
          BY <3>1, <3>2, <3>6, <3>7
        <4> QED BY <1>2, <1>3, <2>3, <3>1, <3>5, <3>7, <3>8, <3>11, <4>1, <4>2 DEF StreamOK
      <3> QED BY <3>10, <3>11 DEF Progress
    <2>4. CASE d = c /\ z = x
      <3> DEFINE m == Len(wire[c][x])
      <3>1. m \in Nat /\ Len(w) \in Nat
        <4>1. wire[c][x] \in Seq(Unit)
          BY <1>1 DEF TypeOK
        <4> QED BY <4>1
      <3>2. x \in wrote[c] => x \in wrote'[c]
        BY DEF Local
      <3>3. /\ Taken(y, c)' = Taken(y, c) /\ (Holds(y, c)' <=> Holds(y, c))
            /\ \A k : UnitOf(x, k)' = UnitOf(x, k)
        BY <1>1, <1>2, LocalPositions
      <3>4. Taken(y, c) \in Nat /\ Written(x, c) \in Nat
        BY <1>1, <1>2, PositionType
      <3>5. /\ wire[c][x] # <<>> => Holds(y, c)
            /\ \A i \in 1 .. m : wire[c][x][i] = UnitOf(x, Taken(y, c) + i)
            /\ Holds(y, c) /\ x \notin closed[c] => Taken(y, c) + m = Written(x, c)
            /\ \A i \in 1 .. m : wire[c][x][i].kind = "ready" => x \in wrote[c]
        BY <1>2, <2>1, <2>4 DEF StreamOK, ReadyOK
      <3>6. /\ Holds(y, c) => y \notin closed[c]
            /\ y \notin closed[c] => Holds(y, c)
            /\ x \notin closed[c]
        BY <1>1, <1>2 DEF Ends, Holds
      <3>7. CASE PeerGone(x)
        <4>1. wire'[c][x] = wire[c][x] /\ y \in closed[c]
          BY <1>2, <3>7 DEF Wired, PeerGone
        <4>2. ReadyOK(c, x)'
          BY <1>3, <3>2, <3>5, <4>1 DEF ReadyOK
        <4>3. StreamOK(c, x)'
          BY <1>2, <1>3, <3>3, <3>5, <3>6, <4>1 DEF StreamOK
        <4> QED BY <2>4, <4>2, <4>3
      <3>8. CASE ~PeerGone(x)
        <4>1. /\ Len(wire'[c][x]) = m + Len(w)
              /\ \A i \in 1 .. m : wire'[c][x][i] = wire[c][x][i]
              /\ \A i \in 1 .. Len(w) : wire'[c][x][m + i] = w[i]
          BY <3>8 DEF Wired
        <4>2. Holds(y, c) /\ Taken(y, c) + m = Written(x, c)
          BY <1>2, <3>5, <3>6, <3>8 DEF PeerGone
        <4>3. /\ Written(x, c)' = Written(x, c) + Len(w)
              /\ \A i \in 1 .. Len(w) : w[i] = UnitOf(x, Written(x, c) + i)
              /\ \A i \in 1 .. Len(w) : w[i].kind = "ready" => x \in wrote'[c]
          BY <3>8 DEF Progress
        <4> HIDE DEF m
        <4>4. \A i \in 1 .. m + Len(w) : i \in 1 .. m \/ (i - m \in 1 .. Len(w) /\ i = m + (i - m))
          BY <3>1
        <4>5. \A i \in 1 .. m + Len(w) : wire'[c][x][i] = UnitOf(x, Taken(y, c) + i)
          <5>1. \A i \in 1 .. Len(w) : wire'[c][x][m + i] = UnitOf(x, Taken(y, c) + (m + i))
            <6>1. \A i \in 1 .. Len(w) : Written(x, c) + i = Taken(y, c) + (m + i)
              BY <3>1, <3>4, <4>2
            <6> QED BY <4>1, <4>3, <6>1
          <5>2. \A i \in 1 .. m : wire'[c][x][i] = UnitOf(x, Taken(y, c) + i)
            BY <3>5, <4>1
          <5> SUFFICES ASSUME NEW i \in 1 .. m + Len(w)
                       PROVE  wire'[c][x][i] = UnitOf(x, Taken(y, c) + i)
            OBVIOUS
          <5>3. CASE i \in 1 .. m
            BY <5>2, <5>3
          <5>4. CASE i - m \in 1 .. Len(w) /\ i = m + (i - m)
            BY <5>1, <5>4
          <5> QED BY <4>4, <5>3, <5>4
        <4>6. \A i \in 1 .. m + Len(w) : wire'[c][x][i].kind = "ready" => x \in wrote'[c]
          <5> SUFFICES ASSUME NEW i \in 1 .. m + Len(w), wire'[c][x][i].kind = "ready"
                       PROVE  x \in wrote'[c]
            OBVIOUS
          <5>1. CASE i \in 1 .. m
            BY <3>2, <3>5, <4>1, <5>1
          <5>2. CASE i - m \in 1 .. Len(w) /\ i = m + (i - m)
            BY <4>1, <4>3, <5>2
          <5> QED BY <4>4, <5>1, <5>2
        <4>7. Taken(y, c) + (m + Len(w)) = Written(x, c) + Len(w)
          BY <3>1, <3>4, <4>2
        <4>8. ReadyOK(c, x)'
          BY <1>3, <4>1, <4>6 DEF ReadyOK
        <4>9. StreamOK(c, x)'
          BY <1>2, <1>3, <3>3, <4>1, <4>2, <4>3, <4>5, <4>7 DEF StreamOK
        <4> QED BY <2>4, <4>8, <4>9
      <3> QED BY <3>7, <3>8
    <2> QED BY <1>2, <2>2, <2>3, <2>4
  <1>11. ThreadOK(x)' /\ CountOK(x)' /\ FlagOK(x)'
    BY DEF Progress
  <1> QED BY <1>2, <1>4, <1>5, <1>6, <1>7, <1>8, <1>9, <1>10, <1>11 DEF IInv

-----------------------------------------------------------------------------
(* The steps of the handshake. *)

LEMMA Pieces ==
  ASSUME NEW x
  PROVE  /\ Piece("prefix") = UnitOf(x, 1) /\ Piece("tail") = UnitOf(x, 2)
         /\ Piece("ready") = UnitOf(x, 3)
         /\ Piece("prefix").kind = "prefix" /\ Piece("tail").kind = "tail"
  BY DEF Piece, UnitOf

(* A thread in a call has a stream, and knows where it is on it. *)
LEMMA InCall ==
  ASSUME IInv, NEW x \in End, pc[x] # "idle"
  PROVE  /\ conn[x] \in Conn /\ conn[x] # NoConn
         /\ TypeOK /\ ThreadOK(x) /\ CountOK(x) /\ FlagOK(x)
         /\ \A c \in Conn : GreetOK(c, x) /\ ReadyOK(c, x) /\ StreamOK(c, x)
         /\ Incoming(x) \in Seq(Unit) /\ Len(Incoming(x)) \in Nat
         /\ flags[x] \in Flags
  <1>1. TypeOK /\ ThreadOK(x) /\ CountOK(x) /\ FlagOK(x)
    BY DEF IInv
  <1>2. conn[x] \in Conn /\ conn[x] # NoConn
    BY <1>1 DEF ThreadOK, TypeOK
  <1>3. Incoming(x) \in Seq(Unit)
    BY <1>1, <1>2, TwoEnds DEF TypeOK, Incoming
  <1>4. flags[x] \in Flags
    BY <1>1 DEF TypeOK
  <1> QED BY <1>1, <1>2, <1>3, <1>4 DEF IInv

LEMMA WriteGreetingIInv ==
  ASSUME IInv, NEW x \in End, WriteGreeting(x)
  PROVE  IInv'
  <1>0. pc[x] = "open" /\ flags' = flags /\ call' = call /\ closed' = closed
    BY DEF WriteGreeting
  <1>1. PICK c \in Conn : conn[x] = c
    BY <1>0, InCall
  <1>2. /\ TypeOK /\ ThreadOK(x) /\ CountOK(x) /\ FlagOK(x) /\ GreetOK(c, x)
        /\ Len(Incoming(x)) \in Nat /\ conn[x] # NoConn
    BY <1>0, InCall
  <1> DEFINE w == <<Piece("prefix")>>
  <1>3. w \in Seq(Unit) /\ Len(w) = 1 /\ w[1] = Piece("prefix")
    BY PieceType, OneUnit
  <1>4. Exchange(x, 0, w)
    BY DEF WriteGreeting
  <1> HIDE DEF w
  <1>5. Wired(x, 0, w) /\ wire' \in [Conn -> [End -> Seq(Unit)]]
    BY <1>2, <1>3, <1>4, ExchangeEffect
  <1>6. pc' = [pc EXCEPT ![x] = "prefix"] /\ pc'[x] = "prefix"
    BY <1>2 DEF WriteGreeting, TypeOK
  <1>7. greetings[c][x] \in 0 .. 2
    BY <1>2 DEF TypeOK
  <1>8. greetings' = [greetings EXCEPT ![c][x] = IF @ = 2 THEN 2 ELSE @ + 1]
    BY <1>1 DEF WriteGreeting
  <1>9. /\ greetings' \in [Conn -> [End -> 0 .. 2]]
        /\ greetings'[c][x] = IF greetings[c][x] = 2 THEN 2 ELSE greetings[c][x] + 1
        /\ \A d \in Conn, z \in End : d # c \/ z # x => greetings'[d][z] = greetings[d][z]
    BY <1>2, <1>7, <1>8 DEF TypeOK
  <1>10. UNCHANGED <<socketVars, flags, call, closed, wrote, sent, got>>
    BY DEF WriteGreeting
  <1>11. TypeOK'
    BY <1>2, <1>5, <1>6, <1>9, <1>10 DEF TypeOK, socketVars
  <1>12. Local(x)
    BY <1>1, <1>2, <1>6, <1>9, <1>10 DEF Local, TypeOK, socketVars
  <1>13. ThreadOK(x)' /\ CountOK(x)' /\ FlagOK(x)'
    BY <1>0, <1>2, <1>6, <1>10 DEF ThreadOK, CountOK, FlagOK, socketVars
  <1>14. GreetOK(c, x)'
    BY <1>0, <1>1, <1>2, <1>6, <1>7, <1>9, <1>10 DEF GreetOK, ThreadOK, socketVars
  <1>15. Taken(x, c) = 0 /\ Taken(x, c)' = 0 /\ Written(x, c) = 0 /\ Written(x, c)' = 1
    BY <1>0, <1>1, <1>2, <1>6, <1>10 DEF Taken, Written, ThreadOK, socketVars
  <1>16. \A i \in 1 .. Len(w) : w[i] = UnitOf(x, 0 + i) /\ w[i].kind # "ready"
    BY <1>3, Pieces
  <1>17. Progress(x, c, 0, w)
    BY <1>3, <1>13, <1>14, <1>15, <1>16 DEF Progress
  <1> QED BY <1>1, <1>2, <1>3, <1>5, <1>11, <1>12, <1>17, LocalStep

LEMMA ReadPrefixIInv ==
  ASSUME IInv, NEW x \in End, ReadPrefix(x)
  PROVE  IInv'
  <1>0. pc[x] = "prefix" /\ UNCHANGED <<socketVars, flags, call, closed, history>>
    BY DEF ReadPrefix
  <1>1. PICK c \in Conn : conn[x] = c
    BY <1>0, InCall
  <1>2. /\ TypeOK /\ ThreadOK(x) /\ CountOK(x) /\ FlagOK(x) /\ GreetOK(c, x)
        /\ Len(Incoming(x)) \in Nat /\ conn[x] # NoConn /\ Incoming(x) \in Seq(Unit)
    BY <1>0, InCall
  <1> DEFINE w == <<Piece("tail")>>
  <1>3. w \in Seq(Unit) /\ Len(w) = 1 /\ w[1] = Piece("tail")
    BY PieceType, OneUnit
  <1>4. Exchange(x, 1, w) /\ 1 <= Len(Incoming(x))
    BY <1>2 DEF ReadPrefix, Sees
  <1> HIDE DEF w
  <1>5. Wired(x, 1, w) /\ wire' \in [Conn -> [End -> Seq(Unit)]]
    BY <1>2, <1>3, <1>4, ExchangeEffect
  <1>6. pc' = [pc EXCEPT ![x] = "tail"] /\ pc'[x] = "tail"
    BY <1>2 DEF ReadPrefix, TypeOK
  <1>11. TypeOK'
    BY <1>0, <1>2, <1>5, <1>6 DEF TypeOK, socketVars, history
  <1>12. Local(x)
    BY <1>0, <1>2, <1>6 DEF Local, TypeOK, socketVars, history
  <1>13. ThreadOK(x)' /\ CountOK(x)' /\ FlagOK(x)'
    BY <1>0, <1>2, <1>6 DEF ThreadOK, CountOK, FlagOK, socketVars, history
  <1>14. GreetOK(c, x)'
    BY <1>0, <1>1, <1>2, <1>6 DEF GreetOK, socketVars, history
  <1>15. Taken(x, c) = 0 /\ Taken(x, c)' = 1 /\ Written(x, c) = 1 /\ Written(x, c)' = 2
    BY <1>0, <1>1, <1>2, <1>6 DEF Taken, Written, ThreadOK, socketVars, history
  <1>16. \A i \in 1 .. Len(w) : w[i] = UnitOf(x, 1 + i) /\ w[i].kind # "ready"
    BY <1>3, Pieces
  <1>17. Progress(x, c, 1, w)
    BY <1>3, <1>13, <1>14, <1>15, <1>16 DEF Progress
  <1> QED BY <1>1, <1>2, <1>3, <1>4, <1>5, <1>11, <1>12, <1>17, LocalStep

LEMMA TwoUnits ==
  ASSUME NEW u \in Unit, NEW v \in Unit
  PROVE  <<u, v>> \in Seq(Unit) /\ Len(<<u, v>>) = 2 /\ <<u, v>>[1] = u /\ <<u, v>>[2] = v
  OBVIOUS

(* READY has been written: where the call goes on. *)
LEMMA StartedEffect ==
  ASSUME IInv, NEW x \in End, NEW c \in Conn, conn[x] = c, pc[x] \in {"prefix", "tail"},
         NEW seen \in BOOLEAN, Started(x, seen)
  PROVE  /\ pc' \in [End -> PcType] /\ flags' \in [End -> Flags] /\ wrote' \in [Conn -> SUBSET End]
         /\ Local(x)
         /\ ThreadOK(x)' /\ CountOK(x)' /\ FlagOK(x)' /\ GreetOK(c, x)'
         /\ x \in wrote'[c]
         /\ Taken(x, c)' = (IF seen THEN 2 ELSE 0) /\ Written(x, c)' = 3
  <1>1. /\ TypeOK /\ ThreadOK(x) /\ CountOK(x) /\ FlagOK(x) /\ GreetOK(c, x)
        /\ conn[x] # NoConn /\ flags[x] \in Flags
    BY InCall
  <1>2. ~flags[x].started /\ sent[c][x] = 0 /\ got[c][Other(x)] = 0 /\ call[x] \in {"send", "recv"}
    BY <1>1 DEF ThreadOK, CountOK
  <1> DEFINE f == HandshakeResult(flags[x], seen)
             p == Place(call[x], f)
  <1>3. f \in Flags /\ f.started /\ f.greeted = seen /\ ~f.ready /\ f.hello = flags[x].hello
    BY <1>1 DEF Flags, HandshakeResult
  <1> HIDE DEF f
  <1>4. /\ call[x] = "send" => p = "talk"
        /\ call[x] = "recv" /\ ~seen => p = "greet"
        /\ call[x] = "recv" /\ seen => p = "ready"
    <2>1. CASE call[x] = "send"
      BY <1>3, <2>1 DEF Place
    <2>2. CASE call[x] = "recv" /\ ~seen
      BY <1>3, <2>2 DEF Place
    <2>3. CASE call[x] = "recv" /\ seen
      BY <1>3, <2>3 DEF Place
    <2> QED BY <1>2, <2>1, <2>2, <2>3
  <1>5. p \in {"talk", "greet", "ready"}
    BY <1>2, <1>4
  <1> HIDE DEF p
  <1>6. UNCHANGED <<socketVars, call, closed, greetings, sent, got>>
    BY DEF Started
  <1>7. /\ flags' = [flags EXCEPT ![x] = f] /\ pc' = [pc EXCEPT ![x] = p]
        /\ wrote' = [wrote EXCEPT ![c] = @ \cup {x}]
    BY DEF Started, f, p
  <1>8. flags' \in [End -> Flags] /\ flags'[x] = f /\ \A y \in End : y # x => flags'[y] = flags[y]
    BY <1>1, <1>3, <1>7 DEF TypeOK
  <1>9. pc' \in [End -> PcType] /\ pc'[x] = p /\ \A y \in End : y # x => pc'[y] = pc[y]
    BY <1>1, <1>5, <1>7 DEF TypeOK, PcType
  <1>10. /\ wrote' \in [Conn -> SUBSET End] /\ x \in wrote'[c]
         /\ \A d \in Conn, y \in End : d # c \/ y # x => (y \in wrote[d] <=> y \in wrote'[d])
    BY <1>1, <1>7 DEF TypeOK
  <1>11. Local(x)
    BY <1>6, <1>8, <1>9, <1>10 DEF Local, socketVars
  <1>12. ThreadOK(x)'
    BY <1>1, <1>2, <1>3, <1>4, <1>6, <1>8, <1>9 DEF ThreadOK, socketVars
  <1>13. CountOK(x)'
    BY <1>1, <1>2, <1>3, <1>6, <1>8 DEF CountOK, socketVars
  <1>14. FlagOK(x)'
    BY <1>1, <1>3, <1>6, <1>8, <1>10 DEF FlagOK, socketVars
  <1>15. GreetOK(c, x)'
    BY <1>1, <1>3, <1>6, <1>8 DEF GreetOK, socketVars
  <1>16. Taken(x, c)' = (IF seen THEN 2 ELSE 0)
    BY <1>3, <1>5, <1>6, <1>8, <1>9 DEF Taken, socketVars
  <1>17. Written(x, c)' = 3
    BY <1>2, <1>3, <1>6, <1>8 DEF Written, socketVars
  <1> QED BY <1>8, <1>9, <1>10, <1>11, <1>12, <1>13, <1>14, <1>15, <1>16, <1>17

LEMMA PrefixTimeoutIInv ==
  ASSUME IInv, NEW x \in End, PrefixTimeout(x)
  PROVE  IInv'
  <1>0. pc[x] = "prefix" /\ Started(x, FALSE)
    BY DEF PrefixTimeout
  <1>1. PICK c \in Conn : conn[x] = c
    BY <1>0, InCall
  <1>2. TypeOK /\ ThreadOK(x) /\ Len(Incoming(x)) \in Nat /\ conn[x] # NoConn
    BY <1>0, InCall
  <1> DEFINE w == <<Piece("tail"), Piece("ready")>>
  <1>3. w \in Seq(Unit) /\ Len(w) = 2 /\ w[1] = Piece("tail") /\ w[2] = Piece("ready")
    BY PieceType, TwoUnits
  <1>4. Exchange(x, 0, w)
    BY DEF PrefixTimeout
  <1> HIDE DEF w
  <1>5. Wired(x, 0, w) /\ wire' \in [Conn -> [End -> Seq(Unit)]]
    BY <1>2, <1>3, <1>4, ExchangeEffect
  <1>6. /\ pc' \in [End -> PcType] /\ flags' \in [End -> Flags] /\ wrote' \in [Conn -> SUBSET End]
        /\ Local(x) /\ ThreadOK(x)' /\ CountOK(x)' /\ FlagOK(x)' /\ GreetOK(c, x)'
        /\ x \in wrote'[c] /\ Taken(x, c)' = 0 /\ Written(x, c)' = 3
    BY <1>0, <1>1, StartedEffect
  <1>7. TypeOK'
    BY <1>0, <1>2, <1>5, <1>6 DEF TypeOK, PcType, Started, socketVars
  <1>8. Taken(x, c) = 0 /\ Written(x, c) = 1
    BY <1>0, <1>1, <1>2 DEF Taken, Written, ThreadOK
  <1>9. \A i \in 1 .. Len(w) : w[i] = UnitOf(x, 1 + i)
    <2>1. \A i \in 1 .. 2 : i = 1 \/ i = 2
      OBVIOUS
    <2> QED BY <1>3, <2>1, Pieces
  <1>10. Progress(x, c, 0, w)
    BY <1>3, <1>6, <1>8, <1>9 DEF Progress
  <1>11. 0 \in Nat /\ 0 <= Len(Incoming(x))
    BY <1>2
  <1> QED BY <1>1, <1>3, <1>5, <1>6, <1>7, <1>10, <1>11, LocalStep

LEMMA ReadTailIInv ==
  ASSUME IInv, NEW x \in End, ReadTail(x)
  PROVE  IInv'
  <1>0. pc[x] = "tail" /\ Started(x, TRUE)
    BY DEF ReadTail
  <1>1. PICK c \in Conn : conn[x] = c
    BY <1>0, InCall
  <1>2. /\ TypeOK /\ ThreadOK(x) /\ Len(Incoming(x)) \in Nat /\ conn[x] # NoConn
        /\ Incoming(x) \in Seq(Unit)
    BY <1>0, InCall
  <1> DEFINE w == <<Piece("ready")>>
  <1>3. w \in Seq(Unit) /\ Len(w) = 1 /\ w[1] = Piece("ready")
    BY PieceType, OneUnit
  <1>4. Exchange(x, 1, w) /\ 1 <= Len(Incoming(x))
    BY <1>2 DEF ReadTail, Sees
  <1> HIDE DEF w
  <1>5. Wired(x, 1, w) /\ wire' \in [Conn -> [End -> Seq(Unit)]]
    BY <1>2, <1>3, <1>4, ExchangeEffect
  <1>6. /\ pc' \in [End -> PcType] /\ flags' \in [End -> Flags] /\ wrote' \in [Conn -> SUBSET End]
        /\ Local(x) /\ ThreadOK(x)' /\ CountOK(x)' /\ FlagOK(x)' /\ GreetOK(c, x)'
        /\ x \in wrote'[c] /\ Taken(x, c)' = 2 /\ Written(x, c)' = 3
    BY <1>0, <1>1, StartedEffect
  <1>7. TypeOK'
    BY <1>0, <1>2, <1>5, <1>6 DEF TypeOK, PcType, Started, socketVars
  <1>8. Taken(x, c) = 1 /\ Written(x, c) = 2
    BY <1>0, <1>1, <1>2 DEF Taken, Written, ThreadOK
  <1>9. \A i \in 1 .. Len(w) : w[i] = UnitOf(x, 2 + i)
    BY <1>3, Pieces
  <1>10. Progress(x, c, 1, w)
    BY <1>3, <1>6, <1>8, <1>9 DEF Progress
  <1> QED BY <1>1, <1>2, <1>3, <1>4, <1>5, <1>6, <1>7, <1>10, LocalStep

(* The other side is gone: what was on the way is lost, and no more comes. *)
LEMMA HandshakeFailsIInv ==
  ASSUME IInv, NEW x \in End, HandshakeFails(x)
  PROVE  IInv'
  <1>0. /\ pc[x] \in {"open", "prefix", "tail", "greet", "ready"} /\ PeerGone(x) /\ Return(x)
        /\ UNCHANGED <<socketVars, flags, closed, history>>
    BY DEF HandshakeFails
  <1>1. PICK c \in Conn : conn[x] = c
    BY <1>0, InCall
  <1>2. /\ TypeOK /\ ThreadOK(x) /\ CountOK(x) /\ FlagOK(x) /\ GreetOK(c, x)
        /\ Len(Incoming(x)) \in Nat /\ conn[x] # NoConn
    BY <1>0, InCall
  <1> DEFINE w == <<>>
             n == Len(Incoming(x))
  <1>3. w \in Seq(Unit) /\ Len(w) = 0
    OBVIOUS
  <1>4. Exchange(x, n, w) /\ n \in Nat /\ n <= Len(Incoming(x))
    BY <1>2 DEF HandshakeFails
  <1> HIDE DEF w
  <1>5. Wired(x, n, w) /\ wire' \in [Conn -> [End -> Seq(Unit)]]
    BY <1>2, <1>3, <1>4, ExchangeEffect
  <1>6. /\ pc' \in [End -> PcType] /\ call' \in [End -> {"none", "send", "recv"}]
        /\ pc'[x] = "idle" /\ call'[x] = "none"
        /\ \A y \in End : y # x => pc'[y] = pc[y] /\ call'[y] = call[y]
    BY <1>0, <1>2, ReturnType DEF Return, TypeOK
  <1>7. TypeOK'
    BY <1>0, <1>2, <1>5, <1>6 DEF TypeOK, PcType, socketVars, history
  <1>8. Local(x)
    BY <1>0, <1>6 DEF Local, socketVars, history
  <1>9. ThreadOK(x)' /\ CountOK(x)' /\ FlagOK(x)'
    BY <1>0, <1>2, <1>6 DEF ThreadOK, CountOK, FlagOK, socketVars, history
  <1>10. GreetOK(c, x)'
    BY <1>0, <1>1 DEF GreetOK, PeerGone, socketVars
  <1>11. Progress(x, c, n, w)
    BY <1>0, <1>3, <1>9, <1>10 DEF Progress
  <1> HIDE DEF n
  <1> QED BY <1>1, <1>3, <1>4, <1>5, <1>7, <1>8, <1>11, LocalStep

LEMMA ReadGreetingIInv ==
  ASSUME IInv, NEW x \in End, ReadGreeting(x)
  PROVE  IInv'
  <1>0. /\ pc[x] = "greet" /\ Exchange(x, 2, <<>>) /\ Len(Incoming(x)) > 1
        /\ flags' = [flags EXCEPT ![x].greeted = TRUE] /\ pc' = [pc EXCEPT ![x] = "ready"]
        /\ UNCHANGED <<socketVars, call, closed, history>>
    BY DEF ReadGreeting
  <1>1. PICK c \in Conn : conn[x] = c
    BY <1>0, InCall
  <1>2. /\ TypeOK /\ ThreadOK(x) /\ CountOK(x) /\ FlagOK(x) /\ GreetOK(c, x)
        /\ Len(Incoming(x)) \in Nat /\ conn[x] # NoConn /\ flags[x] \in Flags
    BY <1>0, InCall
  <1> DEFINE w == <<>>
  <1>3. w \in Seq(Unit) /\ Len(w) = 0 /\ Exchange(x, 2, w)
    BY <1>0
  <1>4. 2 \in Nat /\ 2 <= Len(Incoming(x))
    BY <1>0, <1>2
  <1> HIDE DEF w
  <1>5. Wired(x, 2, w) /\ wire' \in [Conn -> [End -> Seq(Unit)]]
    BY <1>2, <1>3, <1>4, ExchangeEffect
  <1>6. /\ pc' \in [End -> PcType] /\ pc'[x] = "ready" /\ \A y \in End : y # x => pc'[y] = pc[y]
    BY <1>0, <1>2 DEF TypeOK, PcType
  <1>7. /\ flags' \in [End -> Flags] /\ \A y \in End : y # x => flags'[y] = flags[y]
        /\ flags'[x] = [flags[x] EXCEPT !.greeted = TRUE]
    BY <1>0, <1>2, FlagTypes DEF TypeOK
  <1>8. /\ flags'[x].greeted /\ flags'[x].started = flags[x].started
        /\ flags'[x].ready = flags[x].ready /\ flags'[x].hello = flags[x].hello
    BY <1>2, <1>7 DEF Flags
  <1>9. TypeOK'
    BY <1>0, <1>2, <1>5, <1>6, <1>7 DEF TypeOK, PcType, socketVars, history
  <1>10. Local(x)
    BY <1>0, <1>6, <1>7 DEF Local, socketVars, history
  <1>11. ThreadOK(x)' /\ CountOK(x)' /\ FlagOK(x)'
    <2>1. flags[x].started /\ ~flags[x].greeted /\ ~flags[x].ready
      BY <1>0, <1>2 DEF ThreadOK
    <2>2. ThreadOK(x)'
      BY <1>0, <1>2, <1>6, <1>8, <2>1 DEF ThreadOK, socketVars, history
    <2>3. CountOK(x)'
      BY <1>0, <1>2, <1>8, <2>1 DEF CountOK, socketVars, history
    <2>4. FlagOK(x)'
      BY <1>0, <1>2, <1>8, <2>1 DEF FlagOK, socketVars, history
    <2> QED BY <2>2, <2>3, <2>4
  <1>12. GreetOK(c, x)'
    BY <1>0, <1>2, <1>6, <1>8 DEF GreetOK, socketVars, history
  <1>13. Taken(x, c) = 0 /\ Taken(x, c)' = 2 /\ Written(x, c)' = Written(x, c)
    <2>1. flags[x].started /\ ~flags[x].greeted /\ ~flags[x].ready
      BY <1>0, <1>2 DEF ThreadOK
    <2>2. Taken(x, c) = 0
      BY <1>0, <1>1, <2>1 DEF Taken
    <2>3. Taken(x, c)' = 2
      BY <1>0, <1>1, <1>8, <2>1 DEF Taken, socketVars
    <2>4. Written(x, c)' = Written(x, c)
      BY <1>0, <1>1, <1>8, <2>1 DEF Written, socketVars, history
    <2> QED BY <2>2, <2>3, <2>4
  <1>14. Written(x, c) \in Nat
    BY <1>2, PositionType
  <1>15. Progress(x, c, 2, w)
    BY <1>3, <1>11, <1>12, <1>13, <1>14 DEF Progress
  <1> QED BY <1>1, <1>3, <1>4, <1>5, <1>9, <1>10, <1>15, LocalStep

LEMMA ReadReadyIInv ==
  ASSUME IInv, NEW x \in End, ReadReady(x)
  PROVE  IInv'
  <1>0. /\ pc[x] = "ready" /\ Exchange(x, 1, <<>>) /\ Sees(x, "ready")
        /\ flags' = [flags EXCEPT ![x].ready = TRUE] /\ pc' = [pc EXCEPT ![x] = "talk"]
        /\ UNCHANGED <<socketVars, call, closed, history>>
    BY DEF ReadReady
  <1>1. PICK c \in Conn : conn[x] = c
    BY <1>0, InCall
  <1>2. /\ TypeOK /\ ThreadOK(x) /\ CountOK(x) /\ FlagOK(x) /\ GreetOK(c, x)
        /\ Len(Incoming(x)) \in Nat /\ Incoming(x) \in Seq(Unit)
        /\ conn[x] # NoConn /\ flags[x] \in Flags
    BY <1>0, InCall
  <1> DEFINE w == <<>>
  <1>3. w \in Seq(Unit) /\ Len(w) = 0 /\ Exchange(x, 1, w)
    BY <1>0
  <1>4. 1 \in Nat /\ 1 <= Len(Incoming(x)) /\ Incoming(x)[1].kind = "ready"
    BY <1>0, <1>2 DEF Sees
  <1> HIDE DEF w
  <1>5. Wired(x, 1, w) /\ wire' \in [Conn -> [End -> Seq(Unit)]]
    BY <1>2, <1>3, <1>4, ExchangeEffect
  <1>6. /\ pc' \in [End -> PcType] /\ pc'[x] = "talk" /\ \A y \in End : y # x => pc'[y] = pc[y]
    BY <1>0, <1>2 DEF TypeOK, PcType
  <1>7. /\ flags' \in [End -> Flags] /\ \A y \in End : y # x => flags'[y] = flags[y]
        /\ flags'[x] = [flags[x] EXCEPT !.ready = TRUE]
    BY <1>0, <1>2, FlagTypes DEF TypeOK
  <1>8. /\ flags'[x].ready /\ flags'[x].started = flags[x].started
        /\ flags'[x].greeted = flags[x].greeted /\ flags'[x].hello = flags[x].hello
    BY <1>2, <1>7 DEF Flags
  <1>9. TypeOK'
    BY <1>0, <1>2, <1>5, <1>6, <1>7 DEF TypeOK, PcType, socketVars, history
  <1>10. Local(x)
    BY <1>0, <1>6, <1>7 DEF Local, socketVars, history
  <1>a. flags[x].started /\ flags[x].greeted /\ ~flags[x].ready
    BY <1>0, <1>2 DEF ThreadOK
  <1>b. got[c][Other(x)] = 0
    BY <1>1, <1>2, <1>a DEF CountOK
  <1>11. ThreadOK(x)' /\ CountOK(x)' /\ FlagOK(x)'
    <2>1. Other(x) \in wrote[c]
      <3>1. ReadyOK(c, Other(x))
        BY TwoEnds DEF IInv
      <3> QED BY <1>1, <1>2, <1>4, <3>1 DEF ReadyOK, Incoming
    <2>2. ThreadOK(x)'
      BY <1>0, <1>2, <1>6, <1>8, <1>a DEF ThreadOK, socketVars, history
    <2>3. CountOK(x)'
      BY <1>0, <1>2, <1>8, <1>a DEF CountOK, socketVars, history
    <2>4. FlagOK(x)'
      BY <1>0, <1>1, <1>2, <1>8, <1>a, <2>1 DEF FlagOK, socketVars, history
    <2> QED BY <2>2, <2>3, <2>4
  <1>12. GreetOK(c, x)'
    BY <1>0, <1>2, <1>6, <1>8 DEF GreetOK, socketVars, history
  <1>13. Taken(x, c) = 2 /\ Taken(x, c)' = 3 /\ Written(x, c)' = Written(x, c)
    <2>2. Taken(x, c) = 2
      BY <1>0, <1>1, <1>a DEF Taken
    <2>3. Taken(x, c)' = 3
      BY <1>0, <1>1, <1>8, <1>b DEF Taken, socketVars, history
    <2>4. Written(x, c)' = Written(x, c)
      BY <1>0, <1>1, <1>8, <1>a DEF Written, socketVars, history
    <2> QED BY <2>2, <2>3, <2>4
  <1>14. Written(x, c) \in Nat
    BY <1>2, PositionType
  <1>15. Progress(x, c, 1, w)
    BY <1>3, <1>11, <1>12, <1>13, <1>14 DEF Progress
  <1> QED BY <1>1, <1>3, <1>4, <1>5, <1>9, <1>10, <1>15, LocalStep

-----------------------------------------------------------------------------
(* The other steps of a call. *)

(* A step in which only the place in the call changes. *)
LEMMA ThreadStep ==
  ASSUME IInv, NEW x \in End, conn[x] # NoConn,
         UNCHANGED <<socketVars, flags, wire, closed, history>>,
         pc' \in [End -> PcType], call' \in [End -> {"none", "send", "recv"}],
         \A y \in End : y # x => pc'[y] = pc[y] /\ call'[y] = call[y],
         pc[x] \notin {"prefix", "tail"}, pc'[x] \notin {"prefix", "tail"}, ThreadOK(x)'
  PROVE  IInv'
  <1>1. PICK c \in Conn : conn[x] = c
    BY DEF IInv, TypeOK
  <1>2. /\ TypeOK /\ ThreadOK(x) /\ CountOK(x) /\ FlagOK(x) /\ GreetOK(c, x)
    BY DEF IInv
  <1> DEFINE w == <<>>
  <1>3. w \in Seq(Unit) /\ Len(w) = 0
    OBVIOUS
  <1> HIDE DEF w
  <1>4. \A d \in Conn, y \in End : wire[d][y] \in Seq(Unit) /\ Len(wire[d][y]) \in Nat
    <2>1. \A d \in Conn, y \in End : wire[d][y] \in Seq(Unit)
      BY <1>2 DEF TypeOK
    <2> QED BY <2>1
  <1>5. 0 \in Nat /\ 0 <= Len(Incoming(x))
    BY <1>1, <1>4, TwoEnds DEF Incoming
  <1>6. Wired(x, 0, w)
    BY <1>1, <1>3, <1>4, TwoEnds DEF Wired
  <1>7. TypeOK'
    BY <1>2 DEF TypeOK, PcType, socketVars, history
  <1>8. Local(x)
    BY DEF Local, socketVars, history
  <1>9. CountOK(x)' /\ FlagOK(x)' /\ GreetOK(c, x)'
    BY <1>2 DEF CountOK, FlagOK, GreetOK, socketVars, history
  <1>10. Taken(x, c)' = Taken(x, c) /\ Written(x, c)' = Written(x, c)
    BY DEF Taken, Written, socketVars, history
  <1>11. Taken(x, c) \in Nat /\ Written(x, c) \in Nat
    BY <1>2, PositionType
  <1>12. Progress(x, c, 0, w)
    BY <1>3, <1>9, <1>10, <1>11 DEF Progress
  <1> QED BY <1>1, <1>3, <1>5, <1>6, <1>7, <1>8, <1>12, LocalStep

(* Returning from a call. *)
LEMMA ReturnStep ==
  ASSUME IInv, NEW x \in End, pc[x] # "idle", pc[x] \notin {"prefix", "tail"}, Return(x),
         UNCHANGED <<socketVars, flags, wire, closed, history>>
  PROVE  IInv'
  <1>1. TypeOK /\ ThreadOK(x) /\ conn[x] # NoConn
    BY InCall
  <1>2. /\ pc' \in [End -> PcType] /\ call' \in [End -> {"none", "send", "recv"}]
        /\ pc'[x] = "idle" /\ call'[x] = "none"
        /\ \A y \in End : y # x => pc'[y] = pc[y] /\ call'[y] = call[y]
    BY <1>1, ReturnType DEF Return, TypeOK
  <1>3. ThreadOK(x)'
    BY <1>1, <1>2 DEF ThreadOK, socketVars, history
  <1> QED BY <1>1, <1>2, <1>3, ThreadStep

(* Where a call begins. *)
LEMMA PlaceOK ==
  ASSUME NEW k \in {"send", "recv"}, NEW f \in Flags, f.ready => f.greeted, f.greeted => f.started,
         NEW p, p = Place(k, f)
  PROVE  /\ ~f.started => p = "open"
         /\ f.started => p \in {"talk", "greet", "ready"}
         /\ p = "greet" => ~f.greeted
         /\ p = "ready" => f.greeted /\ ~f.ready
         /\ p = "talk" /\ k = "recv" => f.ready
  <1>1. CASE ~f.started
    BY <1>1 DEF Place
  <1>2. CASE f.started /\ k = "send"
    BY <1>2 DEF Place
  <1>3. CASE f.started /\ k = "recv" /\ ~f.greeted
    BY <1>3 DEF Place
  <1>4. CASE f.started /\ k = "recv" /\ f.greeted /\ f.ready
    BY <1>4 DEF Place
  <1>5. CASE f.started /\ k = "recv" /\ f.greeted /\ ~f.ready
    BY <1>5 DEF Place
  <1> QED BY <1>1, <1>2, <1>3, <1>4, <1>5

LEMMA CallIInv ==
  ASSUME IInv, NEW x \in End, NEW k \in {"send", "recv"}, Call(x, k)
  PROVE  IInv'
  <1>1. /\ pc[x] = "idle" /\ conn[x] # NoConn
        /\ k = "send" => sent[conn[x]][x] < setup.msgs
        /\ Begin(x, k, flags[x])
        /\ UNCHANGED <<socketVars, flags, wire, closed, history>>
    BY DEF Call
  <1>2. TypeOK /\ ThreadOK(x) /\ flags[x] \in Flags
    BY DEF IInv, TypeOK
  <1> DEFINE p == Place(k, flags[x])
  <1>3. /\ ~flags[x].started => p = "open"
        /\ flags[x].started => p \in {"talk", "greet", "ready"}
        /\ p = "greet" => ~flags[x].greeted
        /\ p = "ready" => flags[x].greeted /\ ~flags[x].ready
        /\ p = "talk" /\ k = "recv" => flags[x].ready
    BY <1>2, PlaceOK DEF ThreadOK
  <1> HIDE DEF p
  <1>4. /\ pc' \in [End -> PcType] /\ call' \in [End -> {"none", "send", "recv"}]
        /\ pc'[x] = p /\ call'[x] = k
        /\ \A y \in End : y # x => pc'[y] = pc[y] /\ call'[y] = call[y]
    BY <1>1, <1>2, BeginType DEF Begin, TypeOK, p
  <1>5. k = "send" => sent[conn[x]][x] < MaxMsgs
    <2>1. setup.msgs \in 0 .. MaxMsgs
      BY <1>2, TcpAssumption DEF TypeOK, Setup
    <2>2. sent[conn[x]][x] \in 0 .. MaxMsgs + 1
      BY <1>1, <1>2 DEF TypeOK
    <2> QED BY <1>1, <2>1, <2>2, TcpAssumption
  <1>6. ThreadOK(x)'
    BY <1>1, <1>2, <1>3, <1>4, <1>5 DEF ThreadOK, socketVars, history
  <1>7. p \notin {"prefix", "tail"}
    BY <1>3
  <1> QED BY <1>1, <1>4, <1>6, <1>7, ThreadStep

(* A message is received: the one that comes next. *)
LEMMA RecvFrameIInv ==
  ASSUME IInv, NEW x \in End, RecvFrame(x)
  PROVE  IInv'
  <1>0. /\ pc[x] = "read" /\ Exchange(x, 1, <<>>) /\ Incoming(x) # <<>> /\ Return(x)
        /\ UNCHANGED <<socketVars, flags, closed, wrote, greetings, sent>>
    BY DEF RecvFrame, Sees, FramesRead
  <1>1. PICK c \in Conn, y \in End : conn[x] = c /\ y = Other(x)
    BY <1>0, InCall, TwoEnds
  <1>2. /\ TypeOK /\ ThreadOK(x) /\ CountOK(x) /\ FlagOK(x) /\ GreetOK(c, x) /\ StreamOK(c, y)
        /\ Len(Incoming(x)) \in Nat /\ Incoming(x) \in Seq(Unit)
        /\ conn[x] # NoConn /\ flags[x] \in Flags
    BY <1>0, InCall DEF IInv
  <1>3. Other(y) = x /\ y # x
    BY <1>1, TwoEnds
  <1> DEFINE w == <<>>
  <1>4. w \in Seq(Unit) /\ Len(w) = 0 /\ Exchange(x, 1, w)
    BY <1>0
  <1>5. 1 \in Nat /\ 1 <= Len(Incoming(x)) /\ Incoming(x)[1] \in Unit
    BY <1>0, <1>2
  <1> HIDE DEF w
  <1>6. Wired(x, 1, w) /\ wire' \in [Conn -> [End -> Seq(Unit)]]
    BY <1>2, <1>4, <1>5, ExchangeEffect
  <1>7. flags[x].ready /\ Taken(x, c) = 3 + got[c][y] /\ got[c][y] \in 0 .. MaxMsgs + 1
    BY <1>0, <1>1, <1>2 DEF ThreadOK, Taken, TypeOK
  <1>8. got[c][y] \in Nat /\ got[c][y] <= MaxMsgs
    <2>1. Incoming(x)[1] = UnitOf(y, 3 + got[c][y] + 1)
      BY <1>1, <1>2, <1>3, <1>5, <1>7 DEF StreamOK, Incoming
    <2>2. got[c][y] \in Nat /\ MaxMsgs \in Nat
      BY <1>7, TcpAssumption
    <2>3. UnitOf(y, 3 + got[c][y] + 1).n = got[c][y] + 1
      BY <2>2 DEF UnitOf
    <2>4. got[c][y] + 1 \in 0 .. MaxMsgs + 1
      BY <1>5, <2>1, <2>3 DEF Unit
    <2> QED BY <2>2, <2>4
  <1>9. got' = [got EXCEPT ![c][y] = IF @ > MaxMsgs THEN @ ELSE @ + 1]
    BY <1>1 DEF RecvFrame
  <1>10. /\ got' \in [Conn -> [End -> 0 .. MaxMsgs + 1]] /\ got'[c][y] = got[c][y] + 1
         /\ \A d \in Conn, z \in End : d # c \/ z # y => got'[d][z] = got[d][z]
    <2>1. /\ ~(got[c][y] > MaxMsgs) /\ got[c][y] + 1 \in 0 .. MaxMsgs + 1
      BY <1>8, TcpAssumption
    <2>2. got' = [got EXCEPT ![c][y] = got[c][y] + 1]
      BY <1>2, <1>9, <2>1 DEF TypeOK
    <2> QED BY <1>2, <2>1, <2>2 DEF TypeOK
  <1>11. /\ pc' \in [End -> PcType] /\ call' \in [End -> {"none", "send", "recv"}]
         /\ pc'[x] = "idle" /\ call'[x] = "none"
         /\ \A z \in End : z # x => pc'[z] = pc[z] /\ call'[z] = call[z]
    BY <1>0, <1>2, ReturnType DEF Return, TypeOK
  <1>12. TypeOK'
    BY <1>0, <1>2, <1>6, <1>10, <1>11 DEF TypeOK, PcType, socketVars
  <1>13. Local(x)
    BY <1>0, <1>1, <1>3, <1>10, <1>11 DEF Local, socketVars
  <1>14. ThreadOK(x)' /\ CountOK(x)' /\ FlagOK(x)' /\ GreetOK(c, x)'
    <2>1. ThreadOK(x)'
      BY <1>0, <1>2, <1>11 DEF ThreadOK, socketVars
    <2>2. CountOK(x)'
      BY <1>0, <1>2, <1>7 DEF CountOK, socketVars
    <2>3. FlagOK(x)' /\ GreetOK(c, x)'
      BY <1>0, <1>2 DEF FlagOK, GreetOK, ThreadOK, socketVars
    <2> QED BY <2>1, <2>2, <2>3
  <1>15. Taken(x, c)' = Taken(x, c) + 1
    <2>1. Taken(x, c)' = 3 + got'[c][y]
      BY <1>0, <1>1, <1>7 DEF Taken, socketVars
    <2> QED BY <1>7, <1>8, <1>10, <2>1
  <1>16. Written(x, c)' = Written(x, c) /\ Written(x, c) \in Nat
    <2>1. flags[x].started
      BY <1>0, <1>2 DEF ThreadOK
    <2> QED BY <1>0, <1>2, <2>1, PositionType DEF Written, socketVars
  <1>17. Progress(x, c, 1, w)
    BY <1>4, <1>14, <1>15, <1>16 DEF Progress
  <1> QED BY <1>1, <1>4, <1>5, <1>6, <1>12, <1>13, <1>17, LocalStep

(* Messages are written after the s that were there, a hello message first. *)
LEMMA WriteStep ==
  ASSUME IInv, NEW x \in End, pc[x] = "talk", NEW s, s = sent[conn[x]][x],
         NEW w \in Seq(Unit), Write(x, w), s + Len(w) <= MaxMsgs + 1,
         \A i \in 1 .. Len(w) : w[i] = UnitOf(x, 3 + s + i) /\ w[i].kind # "ready",
         HelloDue(x) => Len(w) > 0,
         pc' \in [End -> PcType], call' \in [End -> {"none", "send", "recv"}],
         \A y \in End : y # x => pc'[y] = pc[y] /\ call'[y] = call[y],
         \/ pc'[x] = "idle" /\ call'[x] = "none"
         \/ pc'[x] = "read" /\ call'[x] = "recv" /\ call[x] = "recv"
  PROVE  IInv'
  <1>1. PICK c \in Conn : conn[x] = c
    BY InCall
  <1>2. /\ TypeOK /\ ThreadOK(x) /\ CountOK(x) /\ FlagOK(x) /\ GreetOK(c, x)
        /\ Len(Incoming(x)) \in Nat /\ conn[x] # NoConn /\ flags[x] \in Flags
    BY InCall
  <1>3. s = sent[c][x] /\ s \in Nat /\ s <= MaxMsgs + 1 /\ Len(w) \in Nat
    BY <1>1, <1>2, HelloUnits
  <1>4. /\ Exchange(x, 0, w) /\ sent' = [sent EXCEPT ![c][x] = @ + Len(w)]
        /\ flags' = [flags EXCEPT ![x].hello = @ \/ HelloDue(x)]
        /\ UNCHANGED <<socketVars, closed, wrote, greetings, got>>
    BY <1>1 DEF Write
  <1>5. 0 \in Nat /\ 0 <= Len(Incoming(x))
    BY <1>2
  <1>6. Wired(x, 0, w) /\ wire' \in [Conn -> [End -> Seq(Unit)]]
    BY <1>2, <1>4, <1>5, ExchangeEffect
  <1>7. /\ sent' \in [Conn -> [End -> 0 .. MaxMsgs + 1]] /\ sent'[c][x] = s + Len(w)
        /\ \A d \in Conn, z \in End : d # c \/ z # x => sent'[d][z] = sent[d][z]
    <2>1. s + Len(w) \in 0 .. MaxMsgs + 1
      BY <1>3, TcpAssumption
    <2>2. sent' = [sent EXCEPT ![c][x] = s + Len(w)]
      BY <1>2, <1>3, <1>4 DEF TypeOK
    <2> QED BY <1>2, <2>1, <2>2 DEF TypeOK
  <1>8. /\ flags' \in [End -> Flags] /\ \A y \in End : y # x => flags'[y] = flags[y]
        /\ flags'[x] = [flags[x] EXCEPT !.hello = @ \/ HelloDue(x)]
    BY <1>2, <1>4, FlagTypes DEF TypeOK
  <1>9. /\ flags'[x].started = flags[x].started /\ flags'[x].greeted = flags[x].greeted
        /\ flags'[x].ready = flags[x].ready
    BY <1>2, <1>8 DEF Flags
  <1>10. flags'[x].hello = (flags[x].hello \/ HelloDue(x))
    BY <1>2, <1>8 DEF Flags
  <1>11. flags[x].started
    BY <1>2 DEF ThreadOK
  <1>12. TypeOK'
    BY <1>2, <1>4, <1>6, <1>7, <1>8 DEF TypeOK, PcType, socketVars
  <1>13. Local(x)
    BY <1>1, <1>4, <1>7, <1>8 DEF Local, socketVars
  <1>14. ThreadOK(x)' /\ CountOK(x)' /\ FlagOK(x)' /\ GreetOK(c, x)'
    <2>1. ThreadOK(x)'
      BY <1>2, <1>4, <1>9 DEF ThreadOK, socketVars
    <2>2. CountOK(x)'
      <3>1. x \in setup.hello => flags'[x].hello /\ s + Len(w) > 0
        <4>1. x \in setup.hello => flags[x].hello \/ HelloDue(x)
          BY DEF HelloDue
        <4>2. x \in setup.hello => flags'[x].hello
          BY <1>10, <4>1, Zenon
        <4>3. x \in setup.hello /\ flags[x].hello => s > 0
          BY <1>1, <1>2, <1>3 DEF CountOK
        <4> QED BY <1>3, <4>1, <4>2, <4>3
      <3> QED BY <1>1, <1>2, <1>4, <1>7, <1>9, <1>11, <3>1 DEF CountOK, socketVars
    <2>3. FlagOK(x)'
      BY <1>2, <1>4, <1>9 DEF FlagOK, socketVars
    <2>4. GreetOK(c, x)'
      BY <1>2, <1>4, <1>9, <1>11 DEF GreetOK, socketVars
    <2> QED BY <2>1, <2>2, <2>3, <2>4
  <1>15. Written(x, c) = 3 + s /\ Written(x, c)' = 3 + (s + Len(w))
    BY <1>1, <1>3, <1>4, <1>7, <1>9, <1>11 DEF Written, socketVars
  <1>16. Taken(x, c)' = Taken(x, c) /\ Taken(x, c) \in Nat
    <2>1. pc'[x] # "tail"
      OBVIOUS
    <2> QED BY <1>2, <1>4, <1>9, <2>1, PositionType DEF Taken, socketVars
  <1>17. Progress(x, c, 0, w)
    <2>1. \A i \in 1 .. Len(w) : w[i] = UnitOf(x, Written(x, c) + i)
      BY <1>15
    <2>2. Written(x, c)' = Written(x, c) + Len(w) /\ Taken(x, c)' = Taken(x, c) + 0
      BY <1>3, <1>15, <1>16
    <2> QED BY <1>14, <2>1, <2>2 DEF Progress
  <1> QED BY <1>1, <1>5, <1>6, <1>12, <1>13, <1>17, LocalStep

LEMMA SendFrameIInv ==
  ASSUME IInv, NEW x \in End, SendFrame(x)
  PROVE  IInv'
  <1>1. pc[x] = "talk" /\ call[x] = "send" /\ Return(x)
    BY DEF SendFrame
  <1>2. TypeOK /\ ThreadOK(x) /\ CountOK(x) /\ conn[x] # NoConn
    BY <1>1, InCall
  <1> DEFINE s == sent[conn[x]][x]
             w == Append(Hello(x), [kind |-> "data", n |-> s + Len(Hello(x)) + 1])
  <1>3. s < MaxMsgs
    BY <1>1, <1>2 DEF ThreadOK
  <1>4. Write(x, w)
    BY DEF SendFrame
  <1>5. /\ w \in Seq(Unit) /\ Len(w) \in Nat \ {0} /\ s + Len(w) <= MaxMsgs + 1
        /\ \A i \in 1 .. Len(w) : w[i] = UnitOf(x, 3 + s + i) /\ w[i].kind # "ready"
    BY <1>2, <1>3, SendUnits
  <1> HIDE DEF w
  <1>6. Len(w) > 0
    BY <1>5
  <1>7. /\ pc' \in [End -> PcType] /\ call' \in [End -> {"none", "send", "recv"}]
        /\ pc'[x] = "idle" /\ call'[x] = "none"
        /\ \A y \in End : y # x => pc'[y] = pc[y] /\ call'[y] = call[y]
    BY <1>1, <1>2, ReturnType DEF Return, TypeOK
  <1> QED BY <1>1, <1>4, <1>5, <1>6, <1>7, WriteStep

LEMMA RecvHelloIInv ==
  ASSUME IInv, NEW x \in End, RecvHello(x)
  PROVE  IInv'
  <1>1. /\ pc[x] = "talk" /\ call[x] = "recv" /\ Write(x, Hello(x))
        /\ pc' = [pc EXCEPT ![x] = "read"] /\ call' = call
    BY DEF RecvHello
  <1>2. TypeOK /\ ThreadOK(x) /\ CountOK(x) /\ conn[x] # NoConn
    BY <1>1, InCall
  <1> DEFINE s == sent[conn[x]][x]
             w == Hello(x)
  <1>3. /\ s \in Nat /\ s <= MaxMsgs + 1
        /\ HelloDue(x) => s = 0 /\ w = <<UnitOf(x, 4)>>
        /\ ~HelloDue(x) => w = <<>>
    BY <1>2, HelloUnits
  <1> HIDE DEF w
  <1>4. /\ w \in Seq(Unit) /\ s + Len(w) <= MaxMsgs + 1
        /\ \A i \in 1 .. Len(w) : w[i] = UnitOf(x, 3 + s + i) /\ w[i].kind # "ready"
        /\ HelloDue(x) => Len(w) > 0
    <2>1. CASE HelloDue(x)
      <3>1. UnitOf(x, 4) \in Unit /\ UnitOf(x, 4).kind # "ready"
        BY MessageUnit, TcpAssumption
      <3>2. w \in Seq(Unit) /\ Len(w) = 1 /\ w[1] = UnitOf(x, 4)
        BY <1>3, <2>1, <3>1, OneUnit
      <3>3. \A i \in 1 .. 1 : i = 1 /\ 3 + s + i = 4
        BY <1>3, <2>1
      <3> QED BY <1>3, <2>1, <3>1, <3>2, <3>3, TcpAssumption
    <2>2. CASE ~HelloDue(x)
      BY <1>3, <2>2
    <2> QED BY <2>1, <2>2
  <1>5. /\ pc' \in [End -> PcType] /\ call' \in [End -> {"none", "send", "recv"}]
        /\ pc'[x] = "read" /\ call'[x] = "recv"
        /\ \A y \in End : y # x => pc'[y] = pc[y] /\ call'[y] = call[y]
    BY <1>1, <1>2 DEF TypeOK, PcType
  <1>6. Write(x, w)
    BY <1>1 DEF w
  <1>7. s = sent[conn[x]][x]
    OBVIOUS
  <1> HIDE DEF s
  <1> QED BY <1>1, <1>4, <1>5, <1>6, <1>7, WriteStep

-----------------------------------------------------------------------------
(* Streams come and go. *)

(* x gives up its stream, and with a listener what it has not accepted. *)
LEMMA LeaveStep ==
  ASSUME IInv, TypeOK', NEW x \in End, NEW C, Close(x, C),
         conn' = [conn EXCEPT ![x] = NoConn],
         backlog' = backlog \/ (x = Server /\ backlog' = <<>>),
         \A c \in Conn : c \in C <=> Holds(x, c) /\ ~(Holds(x, c)'),
         UNCHANGED <<setup, history>>,
         \A y \in End : y # x => pc'[y] = pc[y] /\ call'[y] = call[y] /\ flags'[y] = flags[y],
         pc'[x] = "idle", call'[x] = "none",
         ~flags'[x].started, ~flags'[x].greeted, ~flags'[x].ready,
         Streams'
  PROVE  IInv'
  <1>0. PICK y \in End : y = Other(x)
    BY TwoEnds
  <1>1. TypeOK /\ Streams /\ Ends
    BY DEF IInv
  <1>2. /\ Other(x) = y /\ y # x /\ Other(y) = x
        /\ \A z \in End : z = x \/ z = y
    BY <1>0, TwoEnds
  <1>3. conn'[x] = NoConn /\ conn'[y] = conn[y] /\ \A c \in Conn : conn'[x] # c
    BY <1>1, <1>2, TcpAssumption DEF TypeOK
  <1>4. \A c \in Conn : Holds(y, c)' <=> Holds(y, c)
    BY <1>2, <1>3, TwoEnds DEF Holds
  <1>5. \A c \in Conn : conn[x] = c => c \in C
    <2> SUFFICES ASSUME NEW c \in Conn, conn[x] = c PROVE ~(Holds(x, c)')
      BY DEF Holds
    <2>1. x = Server => c \notin Range(backlog)
      BY <1>1 DEF Streams
    <2>2. Range(<<>>) = {}
      BY DEF Range
    <2> QED BY <1>3, <2>1, <2>2 DEF Holds
  <1>6. \A c \in Conn : c \notin C => (Holds(x, c)' <=> Holds(x, c))
    <2>1. \A c \in Conn : Holds(x, c)' => Holds(x, c)
      <3>1. Range(<<>>) = {}
        BY DEF Range
      <3> QED BY <1>3, <3>1 DEF Holds
    <2> QED BY <2>1
  <1>7. /\ \A c \in Conn : c \in C => closed'[c] = closed[c] \cup {x}
        /\ \A c \in Conn : c \notin C => closed'[c] = closed[c]
    BY DEF Close
  <1>8. /\ \A c \in Conn : wire'[c][x] = wire[c][x]
        /\ \A c \in Conn : c \in C => wire'[c][y] = <<>>
        /\ \A c \in Conn : c \notin C => wire'[c][y] = wire[c][y]
    <2>1. \A c \in Conn : wire[c] \in [End -> Seq(Unit)]
      BY <1>1 DEF TypeOK
    <2>2. /\ \A c \in Conn : c \in C => wire'[c] = [wire[c] EXCEPT ![y] = <<>>]
          /\ \A c \in Conn : c \notin C => wire'[c] = wire[c]
      BY <1>2 DEF Close
    <2> QED BY <1>2, <2>1, <2>2
  <1>9. /\ \A c \in Conn : Taken(y, c)' = Taken(y, c) /\ Written(y, c)' = Written(y, c)
        /\ \A c \in Conn : c \notin C => Taken(x, c)' = Taken(x, c) /\ Written(x, c)' = Written(x, c)
        /\ \A z \in End : \A k : UnitOf(z, k)' = UnitOf(z, k)
    <2>1. \A c \in Conn : Taken(y, c)' = Taken(y, c) /\ Written(y, c)' = Written(y, c)
      BY <1>2, <1>3 DEF Taken, Written, history
    <2>2. \A c \in Conn : c \notin C => Taken(x, c)' = Taken(x, c) /\ Written(x, c)' = Written(x, c)
      BY <1>3, <1>5 DEF Taken, Written
    <2>3. \A z \in End : \A k : UnitOf(z, k)' = UnitOf(z, k)
      BY DEF UnitOf
    <2> QED BY <2>1, <2>2, <2>3
  <1>10. ThreadOK(x)' /\ CountOK(x)' /\ FlagOK(x)'
    BY <1>3 DEF ThreadOK, CountOK, FlagOK
  <1>11. ThreadOK(y)' /\ CountOK(y)' /\ FlagOK(y)'
    <2>1. ThreadOK(y) /\ CountOK(y) /\ FlagOK(y)
      BY DEF IInv
    <2>2. pc'[y] = pc[y] /\ call'[y] = call[y] /\ flags'[y] = flags[y]
      BY <1>2
    <2> QED BY <1>3, <2>1, <2>2 DEF ThreadOK, CountOK, FlagOK, history
  <1>12. Ends'
    <2> SUFFICES ASSUME NEW c \in Conn, NEW z \in End, Holds(z, c)'
                 PROVE  z \notin closed'[c] /\ (Holds(Other(z), c)' \/ Other(z) \in closed'[c])
      BY DEF Ends
    <2>1. CASE z = x
      <3>1. c \notin C
        BY <2>1
      <3> QED BY <1>1, <1>2, <1>4, <1>6, <1>7, <2>1, <3>1 DEF Ends
    <2>2. CASE z = y
      BY <1>1, <1>2, <1>4, <1>6, <1>7, <2>2 DEF Ends
    <2> QED BY <1>2, <2>1, <2>2
  <1>13. ASSUME NEW c \in Conn, NEW z \in End PROVE GreetOK(c, z)' /\ ReadyOK(c, z)' /\ StreamOK(c, z)'
    <2>1. GreetOK(c, z) /\ ReadyOK(c, z) /\ StreamOK(c, z)
      BY <1>13 DEF IInv
    <2>2. GreetOK(c, z)'
      <3> SUFFICES ASSUME closed'[c] = {} PROVE GreetOK(c, z)'
        BY DEF GreetOK
      <3>1. c \notin C /\ closed[c] = {} /\ greetings' = greetings
        BY <1>7, <1>13 DEF history
      <3>2. CASE z = x
        BY <1>5, <2>1, <3>1, <3>2 DEF GreetOK
      <3>3. CASE z = y
        <4>1. pc'[y] = pc[y] /\ flags'[y] = flags[y]
          BY <1>2
        <4> QED BY <1>3, <2>1, <3>1, <3>3, <4>1 DEF GreetOK
      <3> QED BY <1>2, <3>2, <3>3
    <2>3. ReadyOK(c, z)'
      <3>1. wire'[c][z] = wire[c][z] \/ wire'[c][z] = <<>>
        BY <1>2, <1>8, <1>13
      <3> QED BY <2>1, <3>1 DEF ReadyOK, history
    <2>4. CASE z = x
      <3>1. Holds(y, c)' <=> Holds(y, c)
        BY <1>4
      <3>2. x \notin closed'[c] => c \notin C /\ closed'[c] = closed[c]
        BY <1>7
      <3>3. StreamOK(c, x)'
        BY <1>2, <1>8, <1>9, <2>1, <2>4, <3>1, <3>2 DEF StreamOK
      <3> QED BY <2>2, <2>3, <2>4, <3>3
    <2>5. CASE z = y /\ c \in C
      <3>1. wire'[c][y] = <<>> /\ ~(Holds(x, c)')
        BY <1>8, <2>5
      <3>2. StreamOK(c, y)'
        BY <1>2, <3>1 DEF StreamOK
      <3> QED BY <2>2, <2>3, <2>5, <3>2
    <2>6. CASE z = y /\ c \notin C
      <3>1. StreamOK(c, y)'
        BY <1>2, <1>6, <1>7, <1>8, <1>9, <2>1, <2>6 DEF StreamOK
      <3> QED BY <2>2, <2>3, <2>6, <3>1
    <2> QED BY <1>2, <2>4, <2>5, <2>6
  <1> QED BY <1>2, <1>10, <1>11, <1>12, <1>13 DEF IInv

LEMMA UnbindIInv ==
  ASSUME IInv, UnbindTcp
  PROVE  IInv'
  <1> DEFINE C == {conn[Server]} \cup Range(backlog)
  <1>1. TypeOK /\ Streams /\ ThreadOK(Server) /\ TypeOK'
    BY LifecycleType, TwoEnds DEF IInv, Lifecycle
  <1>2. /\ Close(Server, C) /\ backlog' = <<>> /\ conn' = [conn EXCEPT ![Server] = NoConn]
        /\ flags' = FlagsReset(Server) /\ bound' = NoEndpoint /\ pc[Server] = "idle"
        /\ UNCHANGED <<setup, target, backoff, threadVars, history>>
    BY DEF UnbindTcp
  <1>3. conn'[Server] = NoConn /\ conn'[Client] = conn[Client] /\ Range(backlog') = {}
    BY <1>1, <1>2, TwoEnds DEF TypeOK, Range
  <1>4. \A c \in Conn : c \in C <=> Holds(Server, c) /\ ~(Holds(Server, c)')
    BY <1>3, TcpAssumption DEF Holds
  <1>5. /\ flags'[Server] = NoFlags /\ ~flags'[Server].started /\ ~flags'[Server].greeted
        /\ ~flags'[Server].ready
        /\ \A y \in End : y # Server => flags'[y] = flags[y]
    BY <1>1, <1>2, TwoEnds DEF TypeOK, FlagsReset, NoFlags
  <1>6. Streams'
    BY <1>1, <1>2, <1>3, <1>5 DEF Streams
  <1>7. /\ pc'[Server] = "idle" /\ call'[Server] = "none"
        /\ \A y \in End : y # Server => pc'[y] = pc[y] /\ call'[y] = call[y]
    BY <1>1, <1>2 DEF threadVars, ThreadOK
  <1> QED BY <1>1, <1>2, <1>4, <1>5, <1>6, <1>7, TwoEnds, LeaveStep

LEMMA DisconnectIInv ==
  ASSUME IInv, DisconnectTcp
  PROVE  IInv'
  <1> DEFINE C == {conn[Client]}
  <1>1. TypeOK /\ Streams /\ ThreadOK(Client) /\ TypeOK'
    BY LifecycleType, TwoEnds DEF IInv, Lifecycle
  <1>2. /\ Close(Client, C) /\ backlog' = backlog /\ conn' = [conn EXCEPT ![Client] = NoConn]
        /\ flags' = FlagsReset(Client) \/ flags' = FlagsButHello(Client)
        /\ pc[Client] = "idle" /\ bound' = bound
        /\ UNCHANGED <<setup, threadVars, history>>
    BY DEF DisconnectTcp
  <1>3. conn'[Client] = NoConn /\ conn'[Server] = conn[Server]
    BY <1>1, <1>2, TwoEnds DEF TypeOK
  <1>4. \A c \in Conn : c \in C <=> Holds(Client, c) /\ ~(Holds(Client, c)')
    BY <1>3, TcpAssumption, TwoEnds DEF Holds
  <1>5. /\ ~flags'[Client].started /\ ~flags'[Client].greeted /\ ~flags'[Client].ready
        /\ \A y \in End : y # Client => flags'[y] = flags[y]
    <2>1. CASE flags' = FlagsReset(Client)
      BY <1>1, <2>1, TwoEnds DEF TypeOK, FlagsReset, NoFlags
    <2>2. CASE flags' = FlagsButHello(Client)
      BY <1>1, <2>2, TwoEnds DEF TypeOK, FlagsButHello, NoFlags
    <2> QED BY <1>2, <2>1, <2>2
  <1>6. Streams'
    BY <1>1, <1>2, <1>3, <1>5, TwoEnds DEF Streams, history
  <1>7. /\ pc'[Client] = "idle" /\ call'[Client] = "none"
        /\ \A y \in End : y # Client => pc'[y] = pc[y] /\ call'[y] = call[y]
    BY <1>1, <1>2 DEF threadVars, ThreadOK
  <1>8. /\ Close(Client, C) /\ backlog' = backlog /\ conn' = [conn EXCEPT ![Client] = NoConn]
        /\ UNCHANGED <<setup, history>> /\ Client \in End
    BY <1>2, TwoEnds
  <1> HIDE DEF C
  <1> QED BY <1>1, <1>4, <1>5, <1>6, <1>7, <1>8, LeaveStep

LEMMA RecvFailsIInv ==
  ASSUME IInv, NEW x \in End, RecvFails(x)
  PROVE  IInv'
  <1>1. /\ pc[x] = "read" /\ Return(x)
        /\ UNCHANGED <<setup, bound, backlog, target, backoff, rebound, history>>
    BY DEF RecvFails
  <1>2. TypeOK /\ Streams /\ conn[x] \in Conn
    BY <1>1, InCall DEF IInv
  <1>3. CASE x \notin setup.notice
    <2>1. UNCHANGED <<socketVars, flags, wire, closed, history>>
      BY <1>1, <1>3 DEF RecvFails, socketVars
    <2> QED BY <1>1, <2>1, ReturnStep
  <1>4. CASE x \in setup.notice
    <2> DEFINE C == {conn[x]}
    <2>1. /\ conn' = [conn EXCEPT ![x] = NoConn] /\ Close(x, C) /\ flags' = FlagsReset(x)
      BY <1>4 DEF RecvFails
    <2>2. /\ pc' \in [End -> PcType] /\ call' \in [End -> {"none", "send", "recv"}]
          /\ pc'[x] = "idle" /\ call'[x] = "none"
          /\ \A y \in End : y # x => pc'[y] = pc[y] /\ call'[y] = call[y]
      BY <1>1, <1>2, ReturnType DEF Return, TypeOK
    <2>3. /\ flags'[x] = NoFlags /\ ~flags'[x].started /\ ~flags'[x].greeted /\ ~flags'[x].ready
          /\ \A y \in End : y # x => flags'[y] = flags[y]
      BY <1>2, <2>1 DEF TypeOK, FlagsReset, NoFlags
    <2>4. conn'[x] = NoConn /\ (\A y \in End : y # x => conn'[y] = conn[y])
      BY <1>2, <2>1 DEF TypeOK
    <2>5. \A c \in Conn : c \in C <=> Holds(x, c) /\ ~(Holds(x, c)')
      <3>1. backlog' = backlog /\ conn[Server] \notin Range(backlog)
        BY <1>1, <1>2 DEF Streams
      <3> QED BY <2>4, <3>1, TcpAssumption DEF Holds
    <2>6. TypeOK'
      <3>1. closed' \in [Conn -> SUBSET End] /\ wire' \in [Conn -> [End -> Seq(Unit)]]
        BY <1>2, <2>1, CloseType
      <3>2. flags' \in [End -> Flags]
        BY <1>2, <2>1, FlagTypes
      <3>3. conn' \in [End -> Conn \cup {NoConn}]
        BY <1>2, <2>1 DEF TypeOK
      <3> QED BY <1>1, <1>2, <2>2, <3>1, <3>2, <3>3 DEF TypeOK, PcType, history
    <2>7. Streams'
      <3>1. conn'[Server] = NoConn \/ conn'[Server] = conn[Server]
        BY <2>4, TwoEnds
      <3>2. conn'[Server] = NoConn => flags'[Server] = NoFlags
        BY <1>2, <2>3, <2>4, TwoEnds DEF Streams
      <3>3. NoConn \notin Range(backlog)
        BY <1>2, TcpAssumption DEF TypeOK, Range
      <3>4. conn'[Client] = NoConn \/ conn'[Client] = conn[Client]
        BY <2>4, TwoEnds
      <3> QED BY <1>1, <1>2, <3>1, <3>2, <3>3, <3>4 DEF Streams, history
    <2> QED BY <1>1, <2>1, <2>2, <2>3, <2>5, <2>6, <2>7, LeaveStep
  <1> QED BY <1>3, <1>4

(* The client has a new connection, in the place of the one it had if it had
   one, and so has the listener's backlog. *)
LEMMA DialStep ==
  ASSUME IInv, TypeOK', Dial, bound # NoEndpoint, bound' = bound, target' # NoEndpoint,
         setup' = setup, flags' = FlagsReset(Client),
         pc'[Server] = pc[Server], call'[Server] = call[Server],
         \/ pc'[Client] = "idle" /\ call'[Client] = "none"
         \/ pc'[Client] = "open" /\ call'[Client] \in {"send", "recv"}
  PROVE  IInv'
  <1>1. TypeOK /\ Streams /\ Ends
    BY DEF IInv
  <1>2. PICK c \in Conn :
          /\ c \in Unused
          /\ backlog' = Append(backlog, c)
          /\ conn' = [conn EXCEPT ![Client] = c]
          /\ wire' = [d \in Conn |->
               IF d = c THEN [x \in End |-> <<>>]
               ELSE IF d = conn[Client] THEN [wire[d] EXCEPT ![Server] = <<>>] ELSE wire[d]]
          /\ closed' = [d \in Conn |->
               IF d = c THEN {}
               ELSE IF d = conn[Client] THEN closed[d] \cup {Client} ELSE closed[d]]
          /\ wrote' = [wrote EXCEPT ![c] = {}]
          /\ greetings' = [greetings EXCEPT ![c] = [x \in End |-> 0]]
          /\ sent' = [sent EXCEPT ![c] = [x \in End |-> 0]]
          /\ got' = [got EXCEPT ![c] = [x \in End |-> 0]]
    <2> DEFINE d == CHOOSE d \in Unused : TRUE
    <2>1. d \in Unused /\ d \in Conn
      BY DEF Dial, Unused
    <2> HIDE DEF d
    <2>2. /\ backlog' = Append(backlog, d)
          /\ conn' = [conn EXCEPT ![Client] = d]
          /\ wire' = [b \in Conn |->
               IF b = d THEN [x \in End |-> <<>>]
               ELSE IF b = conn[Client] THEN [wire[b] EXCEPT ![Server] = <<>>] ELSE wire[b]]
          /\ closed' = [b \in Conn |->
               IF b = d THEN {}
               ELSE IF b = conn[Client] THEN closed[b] \cup {Client} ELSE closed[b]]
          /\ wrote' = [wrote EXCEPT ![d] = {}]
          /\ greetings' = [greetings EXCEPT ![d] = [x \in End |-> 0]]
          /\ sent' = [sent EXCEPT ![d] = [x \in End |-> 0]]
          /\ got' = [got EXCEPT ![d] = [x \in End |-> 0]]
      BY DEF Dial, d
    <2> QED BY <2>1, <2>2
  <1>3. c # conn[Server] /\ c # conn[Client] /\ c \notin Range(backlog) /\ c # NoConn
    BY <1>2, TwoEnds, TcpAssumption DEF Unused
  <1>4. conn'[Client] = c /\ conn'[Server] = conn[Server]
    BY <1>1, <1>2, TwoEnds DEF TypeOK
  <1>5. /\ backlog \in Seq(Conn) /\ Len(backlog) \in Nat /\ Len(backlog') = Len(backlog) + 1
        /\ \A i \in 1 .. Len(backlog) : backlog'[i] = backlog[i]
        /\ backlog'[Len(backlog) + 1] = c
    BY <1>1, <1>2 DEF TypeOK
  <1>6. \A i : i \in 1 .. Len(backlog) + 1 <=> i \in 1 .. Len(backlog) \/ i = Len(backlog) + 1
    BY <1>5
  <1>7. DOMAIN backlog = 1 .. Len(backlog) /\ DOMAIN backlog' = 1 .. Len(backlog) + 1
    <2>1. backlog' \in Seq(Conn)
      BY DEF TypeOK
    <2> QED BY <1>5, <2>1
  <1>8. Range(backlog') = Range(backlog) \cup {c}
    BY <1>5, <1>6, <1>7 DEF Range
  <1>9. \A i, j \in DOMAIN backlog' : backlog'[i] = backlog'[j] => i = j
    <2>1. \A i \in DOMAIN backlog : backlog[i] # c
      BY <1>3 DEF Range
    <2>2. \A i, j \in DOMAIN backlog : backlog[i] = backlog[j] => i = j
      BY <1>1 DEF Streams
    <2> QED BY <1>5, <1>6, <1>7, <2>1, <2>2
  <1>10. \A d \in Conn : d # c => /\ wrote'[d] = wrote[d] /\ greetings'[d] = greetings[d]
                                  /\ sent'[d] = sent[d] /\ got'[d] = got[d]
    BY <1>1, <1>2 DEF TypeOK
  <1>21. \A d \in Conn : d # c /\ d # conn[Client] => wire'[d] = wire[d] /\ closed'[d] = closed[d]
    BY <1>2
  <1>22. \A d \in Conn : d # c /\ d = conn[Client] =>
           /\ closed'[d] = closed[d] \cup {Client}
           /\ wire'[d][Server] = <<>> /\ wire'[d][Client] = wire[d][Client]
    <2> SUFFICES ASSUME NEW d \in Conn, d # c, d = conn[Client]
                 PROVE  /\ closed'[d] = closed[d] \cup {Client}
                        /\ wire'[d][Server] = <<>> /\ wire'[d][Client] = wire[d][Client]
      OBVIOUS
    <2>1. closed'[d] = closed[d] \cup {Client} /\ wire'[d] = [wire[d] EXCEPT ![Server] = <<>>]
      BY <1>2
    <2>2. wire[d] \in [End -> Seq(Unit)]
      BY <1>1 DEF TypeOK
    <2> QED BY <2>1, <2>2, TwoEnds
  <1>11. /\ closed'[c] = {} /\ wrote'[c] = {}
         /\ \A x \in End : /\ wire'[c][x] = <<>> /\ greetings'[c][x] = 0
                           /\ sent'[c][x] = 0 /\ got'[c][x] = 0
    BY <1>1, <1>2 DEF TypeOK
  <1>12. /\ ~flags'[Client].started /\ ~flags'[Client].greeted /\ ~flags'[Client].ready
         /\ ~flags'[Client].hello /\ flags'[Server] = flags[Server]
    BY <1>1, TwoEnds DEF TypeOK, FlagsReset, NoFlags
  <1>13. ThreadOK(Client)' /\ CountOK(Client)' /\ FlagOK(Client)'
    <2>1. 0 < MaxMsgs
      BY TcpAssumption
    <2>2. ThreadOK(Client)'
      BY <1>3, <1>4, <1>11, <1>12, <2>1, TwoEnds DEF ThreadOK
    <2>3. CountOK(Client)'
      BY <1>4, <1>11, <1>12, TwoEnds DEF CountOK
    <2>4. FlagOK(Client)'
      BY <1>12 DEF FlagOK
    <2> QED BY <2>2, <2>3, <2>4
  <1>14. ThreadOK(Server)' /\ CountOK(Server)' /\ FlagOK(Server)'
    <2>1. ThreadOK(Server) /\ CountOK(Server) /\ FlagOK(Server)
      BY TwoEnds DEF IInv
    <2>2. conn[Server] # NoConn => /\ sent'[conn[Server]] = sent[conn[Server]]
                                   /\ got'[conn[Server]] = got[conn[Server]]
                                   /\ wrote'[conn[Server]] = wrote[conn[Server]]
      BY <1>1, <1>3, <1>10, TwoEnds DEF TypeOK
    <2> QED BY <1>4, <1>12, <2>1, <2>2 DEF ThreadOK, CountOK, FlagOK
  <1>15. Streams'
    <2>1. \A d \in Range(backlog') : sent'[d][Server] = 0 /\ got'[d][Client] = 0
      <3>1. Range(backlog) \subseteq Conn
        BY <1>1 DEF TypeOK, Range
      <3> QED BY <1>1, <1>3, <1>8, <1>10, <1>11, <3>1, TwoEnds DEF Streams
    <2> QED BY <1>1, <1>3, <1>4, <1>8, <1>9, <1>12, <2>1 DEF Streams
  <1>16. /\ \A d \in Conn : d # c => (Holds(Server, d)' <=> Holds(Server, d))
         /\ \A d \in Conn : d # c => ~(Holds(Client, d)')
         /\ \A d \in Conn : d # conn[Client] => ~Holds(Client, d)
         /\ Holds(Client, c)' /\ Holds(Server, c)'
    BY <1>4, <1>8, TwoEnds, TcpAssumption DEF Holds
  <1>17. Ends'
    <2> SUFFICES ASSUME NEW d \in Conn, NEW x \in End, Holds(x, d)'
                 PROVE  x \notin closed'[d] /\ (Holds(Other(x), d)' \/ Other(x) \in closed'[d])
      BY DEF Ends
    <2>1. CASE d = c
      BY <1>11, <1>16, <2>1, TwoEnds
    <2>2. CASE d # c
      <3>1. x = Server /\ Other(x) = Client /\ Holds(Server, d)
        BY <1>16, <2>2, TwoEnds
      <3>2. Server \notin closed[d] /\ (Holds(Client, d) \/ Client \in closed[d])
        BY <1>1, <3>1, TwoEnds DEF Ends
      <3>3. CASE d = conn[Client]
        BY <1>22, <2>2, <3>1, <3>2, <3>3, TwoEnds
      <3>4. CASE d # conn[Client]
        BY <1>16, <1>21, <2>2, <3>1, <3>2, <3>4
      <3> QED BY <3>3, <3>4
    <2> QED BY <2>1, <2>2
  <1>18. \A d \in Conn, x \in End : d # c /\ (x = Server \/ d # conn[Client]) =>
           /\ Taken(x, d)' = Taken(x, d) /\ Written(x, d)' = Written(x, d)
           /\ \A k : UnitOf(x, k)' = UnitOf(x, k)
    <2> SUFFICES ASSUME NEW d \in Conn, NEW x \in End, d # c, x = Server \/ d # conn[Client]
                 PROVE  /\ Taken(x, d)' = Taken(x, d) /\ Written(x, d)' = Written(x, d)
                        /\ \A k : UnitOf(x, k)' = UnitOf(x, k)
      OBVIOUS
    <2>1. \A k : UnitOf(x, k)' = UnitOf(x, k)
      BY DEF UnitOf
    <2>2. CASE x = Client
      BY <1>4, <2>1, <2>2, TcpAssumption DEF Taken, Written
    <2>3. CASE x = Server
      BY <1>4, <1>10, <1>12, <2>1, <2>3 DEF Taken, Written
    <2> QED BY <2>2, <2>3, TwoEnds
  <1>19. \A x \in End : Taken(x, c)' = 0 /\ Written(x, c)' = 0
    <2>1. Taken(Client, c)' = 0 /\ Written(Client, c)' = 0
      BY <1>12 DEF Taken, Written
    <2>2. Taken(Server, c)' = 0 /\ Written(Server, c)' = 0
      BY <1>3, <1>4 DEF Taken, Written
    <2> QED BY <2>1, <2>2, TwoEnds
  <1>20. ASSUME NEW d \in Conn, NEW x \in End PROVE GreetOK(d, x)' /\ ReadyOK(d, x)' /\ StreamOK(d, x)'
    <2>1. CASE d = c
      <3>1. wire'[d][x] = <<>> /\ greetings'[d][x] = 0
        BY <1>11, <1>20, <2>1
      <3>2. Other(x) \in End
        BY TwoEnds
      <3>3. Taken(Other(x), d)' = 0 /\ Written(x, d)' = 0
        BY <1>19, <2>1, <3>2
      <3>4. GreetOK(d, x)' /\ ReadyOK(d, x)'
        BY <3>1 DEF GreetOK, ReadyOK
      <3>5. Len(wire'[d][x]) = 0
        BY <3>1
      <3>6. StreamOK(d, x)'
        BY <3>1, <3>3, <3>5 DEF StreamOK
      <3> QED BY <3>4, <3>6
    <2>2. CASE d # c /\ d # conn[Client]
      <3>1. GreetOK(d, x) /\ ReadyOK(d, x) /\ StreamOK(d, x)
        BY <1>20 DEF IInv
      <3>2. Other(x) \in End
        BY TwoEnds
      <3>3. GreetOK(d, x)'
        <4>1. CASE x = Client
          <5>1. conn[x] # d
            BY <2>2, <4>1
          <5> QED BY <1>10, <1>21, <2>2, <3>1, <5>1 DEF GreetOK
        <4>2. CASE x = Server
          BY <1>4, <1>10, <1>12, <1>21, <2>2, <3>1, <4>2 DEF GreetOK
        <4> QED BY <4>1, <4>2, TwoEnds
      <3>4. ReadyOK(d, x)'
        BY <1>10, <1>21, <2>2, <3>1 DEF ReadyOK
      <3>6. Holds(Other(x), d)' <=> Holds(Other(x), d)
        BY <1>16, <2>2, <3>2, TwoEnds
      <3>5. StreamOK(d, x)'
        BY <1>10, <1>18, <1>21, <2>2, <3>1, <3>2, <3>6 DEF StreamOK
      <3> QED BY <3>3, <3>4, <3>5
    <2>3. CASE d # c /\ d = conn[Client]
      <3>1. GreetOK(d, x) /\ ReadyOK(d, x) /\ StreamOK(d, x)
        BY <1>20 DEF IInv
      <3>2. closed'[d] # {} /\ Client \in closed'[d]
        BY <1>22, <2>3
      <3>3. GreetOK(d, x)'
        BY <3>2 DEF GreetOK
      <3>4. CASE x = Server
        <4>1. wire'[d][x] = <<>> /\ ~(Holds(Other(x), d)') /\ Len(<<>>) = 0
          BY <1>16, <1>22, <2>3, <3>4, TwoEnds
        <4>2. ReadyOK(d, x)' /\ StreamOK(d, x)'
          BY <4>1 DEF ReadyOK, StreamOK
        <4> QED BY <3>3, <4>2
      <3>5. CASE x = Client
        <4>1. wire'[d][x] = wire[d][x] /\ Other(x) = Server
          BY <1>22, <2>3, <3>5, TwoEnds
        <4>2. ReadyOK(d, x)'
          BY <1>10, <2>3, <3>1, <4>1 DEF ReadyOK
        <4>3. /\ Holds(Server, d)' <=> Holds(Server, d)
              /\ Taken(Server, d)' = Taken(Server, d) /\ \A k : UnitOf(x, k)' = UnitOf(x, k)
          BY <1>16, <1>18, <2>3, TwoEnds DEF UnitOf
        <4>4. StreamOK(d, x)'
          BY <3>1, <3>2, <3>5, <4>1, <4>3 DEF StreamOK
        <4> QED BY <3>3, <4>2, <4>4
      <3> QED BY <3>4, <3>5, TwoEnds
    <2> QED BY <2>1, <2>2, <2>3
  <1> QED BY <1>13, <1>14, <1>15, <1>17, <1>20, TwoEnds DEF IInv

(* The server takes the first connection of its backlog. *)
LEMMA AcceptStep ==
  ASSUME IInv, TypeOK', NEW k \in {"send", "recv"}, conn[Server] = NoConn, backlog # <<>>,
         conn' = [conn EXCEPT ![Server] = Head(backlog)], backlog' = Tail(backlog),
         flags' = flags, Begin(Server, k, NoFlags),
         UNCHANGED <<setup, bound, target, wire, closed, history>>
  PROVE  IInv'
  <1>1. TypeOK /\ Streams /\ Ends
    BY DEF IInv
  <1>2. backlog \in Seq(Conn) /\ backlog' \in Seq(Conn)
    BY <1>1 DEF TypeOK
  <1>3. PICK c \in Conn : c = Head(backlog)
    BY <1>2
  <1>4. /\ Len(backlog) \in Nat \ {0} /\ c = backlog[1]
        /\ Len(backlog') = Len(backlog) - 1
        /\ \A i \in 1 .. Len(backlog) - 1 : backlog'[i] = backlog[i + 1]
        /\ DOMAIN backlog = 1 .. Len(backlog) /\ DOMAIN backlog' = 1 .. Len(backlog) - 1
    BY <1>2, <1>3
  <1>5. /\ \A i \in 1 .. Len(backlog) - 1 : i + 1 \in 1 .. Len(backlog) /\ i + 1 # 1
        /\ \A i \in 1 .. Len(backlog) : i = 1 \/ i - 1 \in 1 .. Len(backlog) - 1
        /\ \A i \in 1 .. Len(backlog) : i - 1 + 1 = i
        /\ 1 \in 1 .. Len(backlog)
    BY <1>4
  <1>6. \A i, j \in DOMAIN backlog : backlog[i] = backlog[j] => i = j
    BY <1>1 DEF Streams
  <1>7. Range(backlog) = Range(backlog') \cup {c} /\ c \notin Range(backlog')
    <2>1. \A e \in Range(backlog') : e \in Range(backlog) /\ e # c
      BY <1>4, <1>5, <1>6 DEF Range
    <2>2. \A e \in Range(backlog) : e = c \/ e \in Range(backlog')
      <3> SUFFICES ASSUME NEW e \in Range(backlog), e # c PROVE e \in Range(backlog')
        OBVIOUS
      <3>1. PICK i \in 1 .. Len(backlog) : e = backlog[i]
        BY <1>4 DEF Range
      <3>2. i - 1 \in 1 .. Len(backlog) - 1
        BY <1>4, <1>5, <3>1
      <3>3. backlog'[i - 1] = e
        BY <1>4, <1>5, <3>1, <3>2
      <3> QED BY <1>4, <3>2, <3>3 DEF Range
    <2>3. c \in Range(backlog)
      BY <1>4, <1>5 DEF Range
    <2> QED BY <2>1, <2>2, <2>3
  <1>8. \A i, j \in DOMAIN backlog' : backlog'[i] = backlog'[j] => i = j
    <2> SUFFICES ASSUME NEW i \in 1 .. Len(backlog) - 1, NEW j \in 1 .. Len(backlog) - 1,
                        backlog'[i] = backlog'[j]
                 PROVE  i = j
      BY <1>4
    <2>1. i + 1 = j + 1
      BY <1>4, <1>5, <1>6
    <2> QED BY <1>4, <2>1
  <1>9. conn'[Server] = c /\ conn'[Client] = conn[Client] /\ c # NoConn
    <2>1. c # NoConn
      BY TcpAssumption
    <2>2. conn' = [conn EXCEPT ![Server] = c] /\ conn \in [End -> Conn \cup {NoConn}]
      BY <1>1, <1>3 DEF TypeOK
    <2>3. conn'[Server] = c /\ conn'[Client] = conn[Client]
      BY <2>2, TwoEnds
    <2> QED BY <2>1, <2>3
  <1>10. /\ flags[Server] = NoFlags /\ ~flags[Server].started /\ ~flags[Server].greeted
         /\ ~flags[Server].ready /\ ~flags[Server].hello
    BY <1>1 DEF Streams, NoFlags
  <1>11. /\ pc'[Server] = "open" /\ call'[Server] = k
         /\ pc'[Client] = pc[Client] /\ call'[Client] = call[Client]
    <2>1. Place(k, NoFlags) = "open"
      BY DEF Place, NoFlags
    <2> QED BY <1>1, <2>1, TwoEnds DEF Begin, TypeOK
  <1>12. sent[c][Server] = 0 /\ got[c][Client] = 0
    BY <1>1, <1>7 DEF Streams
  <1>13. ThreadOK(Server)' /\ CountOK(Server)' /\ FlagOK(Server)'
    <2>1. 0 < MaxMsgs
      BY TcpAssumption
    <2>2. ThreadOK(Server)'
      BY <1>9, <1>10, <1>11, <1>12, <2>1 DEF ThreadOK, history
    <2>3. CountOK(Server)'
      BY <1>9, <1>10, <1>12, TwoEnds DEF CountOK, history
    <2>4. FlagOK(Server)'
      BY <1>10 DEF FlagOK
    <2> QED BY <2>2, <2>3, <2>4
  <1>14. ThreadOK(Client)' /\ CountOK(Client)' /\ FlagOK(Client)'
    <2>1. ThreadOK(Client) /\ CountOK(Client) /\ FlagOK(Client)
      BY TwoEnds DEF IInv
    <2> QED BY <1>9, <1>11, <2>1 DEF ThreadOK, CountOK, FlagOK, history
  <1>15. Streams'
    <2>1. bound' # NoEndpoint /\ (target' = NoEndpoint => conn'[Client] = NoConn)
      BY <1>1, <1>9 DEF Streams
    <2>2. \A d \in Range(backlog') : sent'[d][Server] = 0 /\ got'[d][Client] = 0
      BY <1>1, <1>7 DEF Streams, history
    <2> QED BY <1>7, <1>8, <1>9, <2>1, <2>2 DEF Streams
  <1>16. \A d \in Conn, x \in End : Holds(x, d)' <=> Holds(x, d)
    <2>1. \A d \in Conn : Holds(Server, d)' <=> Holds(Server, d)
      BY <1>7, <1>9, TcpAssumption DEF Holds
    <2>2. \A d \in Conn : Holds(Client, d)' <=> Holds(Client, d)
      BY <1>9, TwoEnds DEF Holds
    <2> QED BY <2>1, <2>2, TwoEnds
  <1>17. Ends'
    BY <1>1, <1>16, TwoEnds DEF Ends
  <1>18. \A d \in Conn, x \in End :
           /\ Taken(x, d)' = Taken(x, d) /\ Written(x, d)' = Written(x, d)
           /\ \A j : UnitOf(x, j)' = UnitOf(x, j)
    <2>1. \A x \in End : \A j : UnitOf(x, j)' = UnitOf(x, j)
      BY DEF UnitOf
    <2>2. \A d \in Conn : Taken(Client, d)' = Taken(Client, d) /\ Written(Client, d)' = Written(Client, d)
      BY <1>9, <1>11 DEF Taken, Written, history
    <2>3. \A d \in Conn : Taken(Server, d)' = 0 /\ Written(Server, d)' = 0
      BY <1>9, <1>10, <1>11 DEF Taken, Written
    <2>4. \A d \in Conn : Taken(Server, d) = 0 /\ Written(Server, d) = 0
      BY TcpAssumption DEF Taken, Written
    <2> QED BY <2>1, <2>2, <2>3, <2>4, TwoEnds
  <1>19. ASSUME NEW d \in Conn, NEW x \in End PROVE GreetOK(d, x)' /\ ReadyOK(d, x)' /\ StreamOK(d, x)'
    <2>1. GreetOK(d, x) /\ ReadyOK(d, x) /\ StreamOK(d, x)
      BY <1>19 DEF IInv
    <2>2. Other(x) \in End
      BY TwoEnds
    <2>3. GreetOK(d, x)'
      <3>1. CASE x = Server
        <4>1. conn[x] # d
          BY <3>1, TcpAssumption
        <4> QED BY <2>1, <4>1 DEF GreetOK, history
      <3>2. CASE x = Client
        BY <1>9, <1>11, <2>1, <3>2 DEF GreetOK, history
      <3> QED BY <3>1, <3>2, TwoEnds
    <2>4. ReadyOK(d, x)'
      BY <2>1 DEF ReadyOK, history
    <2>5. StreamOK(d, x)'
      BY <1>16, <1>18, <2>1, <2>2 DEF StreamOK
    <2> QED BY <2>3, <2>4, <2>5
  <1> QED BY <1>13, <1>14, <1>15, <1>17, <1>19, TwoEnds DEF IInv

-----------------------------------------------------------------------------
(* The client gives up its stream, and tries again later. *)
LEMMA ConnectLaterIInv ==
  ASSUME IInv, TypeOK', NEW e \in Endpoint, ConnectTcpLater(e)
  PROVE  IInv'
  <1> DEFINE C == {conn[Client]}
  <1>1. TypeOK /\ Streams /\ ThreadOK(Client)
    BY TwoEnds DEF IInv
  <1>2. /\ Close(Client, C) /\ backlog' = backlog /\ conn' = [conn EXCEPT ![Client] = NoConn]
        /\ flags' = FlagsReset(Client) /\ pc[Client] = "idle" /\ bound' = bound
        /\ UNCHANGED <<setup, threadVars, history>>
    BY DEF ConnectTcpLater, MayConnect
  <1>3. conn'[Client] = NoConn /\ conn'[Server] = conn[Server]
    BY <1>1, <1>2, TwoEnds DEF TypeOK
  <1>4. \A c \in Conn : c \in C <=> Holds(Client, c) /\ ~(Holds(Client, c)')
    BY <1>3, TcpAssumption, TwoEnds DEF Holds
  <1>5. /\ ~flags'[Client].started /\ ~flags'[Client].greeted /\ ~flags'[Client].ready
        /\ \A y \in End : y # Client => flags'[y] = flags[y]
    BY <1>1, <1>2, TwoEnds DEF TypeOK, FlagsReset, NoFlags
  <1>6. Streams'
    BY <1>1, <1>2, <1>3, <1>5, TwoEnds DEF Streams, history
  <1>7. /\ pc'[Client] = "idle" /\ call'[Client] = "none"
        /\ \A y \in End : y # Client => pc'[y] = pc[y] /\ call'[y] = call[y]
    BY <1>1, <1>2 DEF threadVars, ThreadOK
  <1>8. /\ Close(Client, C) /\ backlog' = backlog /\ conn' = [conn EXCEPT ![Client] = NoConn]
        /\ UNCHANGED <<setup, history>> /\ Client \in End
    BY <1>2, TwoEnds
  <1> HIDE DEF C
  <1> QED BY <1>4, <1>5, <1>6, <1>7, <1>8, LeaveStep

(* A bind of a server without a stream: what its listener had not accepted is
   given up. *)
LEMMA BindIInv ==
  ASSUME IInv, TypeOK', NEW e \in Endpoint, BindTcp(e), ~rebound'
  PROVE  IInv'
  <1> DEFINE C == Range(backlog)
  <1>1. TypeOK /\ Streams /\ ThreadOK(Server)
    BY TwoEnds DEF IInv
  <1>2. /\ Close(Server, C) /\ backlog' = <<>> /\ conn' = conn /\ conn[Server] = NoConn
        /\ flags' = FlagsReset(Server) /\ bound' = e /\ pc[Server] = "idle"
        /\ UNCHANGED <<setup, target, threadVars, history>>
    BY DEF BindTcp
  <1>3. conn' = [conn EXCEPT ![Server] = NoConn] /\ Range(backlog') = {}
    BY <1>1, <1>2 DEF TypeOK, Range
  <1>4. \A c \in Conn : c \in C <=> Holds(Server, c) /\ ~(Holds(Server, c)')
    BY <1>2, <1>3, TcpAssumption DEF Holds
  <1>5. /\ flags'[Server] = NoFlags /\ ~flags'[Server].started /\ ~flags'[Server].greeted
        /\ ~flags'[Server].ready
        /\ \A y \in End : y # Server => flags'[y] = flags[y]
    BY <1>1, <1>2, TwoEnds DEF TypeOK, FlagsReset, NoFlags
  <1>6. Streams'
    <2>1. bound' # NoEndpoint
      BY <1>2, TcpAssumption
    <2> QED BY <1>1, <1>2, <1>3, <1>5, <2>1 DEF Streams
  <1>7. /\ pc'[Server] = "idle" /\ call'[Server] = "none"
        /\ \A y \in End : y # Server => pc'[y] = pc[y] /\ call'[y] = call[y]
    BY <1>1, <1>2 DEF threadVars, ThreadOK
  <1>8. /\ Close(Server, C) /\ backlog' = <<>> /\ UNCHANGED <<setup, history>> /\ Server \in End
    BY <1>2, TwoEnds
  <1> HIDE DEF C
  <1> QED BY <1>3, <1>4, <1>5, <1>6, <1>7, <1>8, LeaveStep

LEMMA LifecycleIInv ==
  ASSUME IInv, Lifecycle, ~rebound'
  PROVE  IInv'
  <1>1. TypeOK /\ Streams /\ TypeOK'
    BY LifecycleType DEF IInv
  <1>2. ThreadOK(Client) /\ ThreadOK(Server) /\ setup.at \subseteq Endpoint
    BY <1>1, TwoEnds, TcpAssumption DEF IInv, TypeOK, Setup
  <1>3. ASSUME NEW e \in Endpoint, ConnectTcp(e) \/ ConnectIpc(e) PROVE IInv'
    <2>1. /\ pc[Client] = "idle" /\ bound = e /\ Dial /\ target' = e
          /\ flags' = FlagsReset(Client) /\ UNCHANGED <<setup, bound, threadVars>>
      BY <1>3 DEF ConnectTcp, ConnectIpc, MayConnect
    <2>2. e # NoEndpoint
      BY TcpAssumption
    <2>3. /\ pc'[Client] = "idle" /\ call'[Client] = "none"
          /\ pc'[Server] = pc[Server] /\ call'[Server] = call[Server]
      BY <1>2, <2>1 DEF ThreadOK, threadVars
    <2>4. bound # NoEndpoint /\ bound' = bound /\ target' # NoEndpoint /\ setup' = setup
      BY <2>1, <2>2
    <2> QED BY <1>1, <2>1, <2>3, <2>4, DialStep
  <1> QED BY <1>1, <1>2, <1>3, BindIInv, ConnectLaterIInv, UnbindIInv, DisconnectIInv
          DEF Lifecycle

LEMMA EnterIInv ==
  ASSUME IInv, NEW k \in {"send", "recv"}, Enter(k)
  PROVE  IInv'
  <1>1. TypeOK /\ Streams /\ TypeOK'
    BY EnterType DEF IInv
  <1>2. CASE Reconnect(k)
    <2>1. /\ target # NoEndpoint /\ bound = target /\ Dial /\ flags' = FlagsReset(Client)
          /\ Begin(Client, k, NoFlags) /\ UNCHANGED <<setup, bound, target, backoff>>
      BY <1>2 DEF Reconnect
    <2>2. /\ pc'[Client] = "open" /\ call'[Client] \in {"send", "recv"}
          /\ pc'[Server] = pc[Server] /\ call'[Server] = call[Server]
      <3>1. Place(k, NoFlags) = "open"
        BY DEF Place, NoFlags
      <3> QED BY <1>1, <2>1, <3>1, TwoEnds DEF Begin, TypeOK
    <2>3. bound # NoEndpoint /\ bound' = bound /\ target' # NoEndpoint /\ setup' = setup
      BY <2>1
    <2> QED BY <1>1, <2>1, <2>2, <2>3, DialStep
  <1>3. CASE AcceptTcp(k) \/ AcceptIpc(k)
    <2>1. /\ conn[Server] = NoConn /\ backlog # <<>>
          /\ conn' = [conn EXCEPT ![Server] = Head(backlog)] /\ backlog' = Tail(backlog)
          /\ UNCHANGED <<setup, bound, target, wire, closed, history>>
      BY <1>3 DEF AcceptTcp, AcceptIpc
    <2>2. flags[Server] = NoFlags
      BY <1>1, <2>1 DEF Streams
    <2>3. flags' = flags /\ Begin(Server, k, NoFlags)
      BY <1>1, <1>3, <2>2, TwoEnds DEF AcceptTcp, AcceptIpc, FlagsReset, TypeOK
    <2> QED BY <1>1, <2>1, <2>3, AcceptStep
  <1> QED BY <1>2, <1>3, CallIInv DEF Enter

LEMMA StepIInv ==
  ASSUME IInv, NEW x \in End, Step(x)
  PROVE  IInv'
  <1>1. CASE HandshakeTimeout(x)
    <2>1. /\ pc[x] # "idle" /\ pc[x] \notin {"prefix", "tail"} /\ Return(x)
          /\ UNCHANGED <<socketVars, flags, wire, closed, history>>
      BY <1>1 DEF HandshakeTimeout
    <2> QED BY <2>1, ReturnStep
  <1>2. CASE SendFails(x)
    <2>1. /\ pc[x] # "idle" /\ pc[x] \notin {"prefix", "tail"} /\ Return(x)
          /\ UNCHANGED <<socketVars, flags, wire, closed, history>>
      BY <1>2 DEF SendFails
    <2> QED BY <2>1, ReturnStep
  <1> QED BY <1>1, <1>2, WriteGreetingIInv, ReadPrefixIInv, PrefixTimeoutIInv, ReadTailIInv,
             HandshakeFailsIInv, ReadGreetingIInv, ReadReadyIInv, SendFrameIInv,
             RecvHelloIInv, RecvFrameIInv, RecvFailsIInv DEF Step

(* No part of the invariant but the type speaks of the backoff. *)
LEMMA BackoffIInv ==
  ASSUME IInv, TypeOK',
         UNCHANGED <<setup, bound, backlog, target, conn, flags, threadVars,
                     wire, closed, history>>
  PROVE  IInv'
  BY DEF IInv, ThreadOK, CountOK, FlagOK, Streams, Ends, Holds, GreetOK, ReadyOK, StreamOK,
         Taken, Written, UnitOf, threadVars, history

LEMMA InitType == ASSUME Init PROVE TypeOK
  <1>1. /\ setup \in Setups /\ bound \in Endpoint \cup {NoEndpoint}
        /\ target \in Endpoint \cup {NoEndpoint} /\ backoff \in BOOLEAN /\ rebound \in BOOLEAN
    BY DEF Init
  <1>2. backlog \in Seq(Conn) /\ conn \in [End -> Conn \cup {NoConn}]
    BY DEF Init
  <1>3. flags \in [End -> Flags]
    BY DEF Init, Flags, NoFlags
  <1>4. /\ pc \in [End -> {"idle", "open", "prefix", "tail", "greet", "ready", "talk", "read"}]
        /\ call \in [End -> {"none", "send", "recv"}]
    BY DEF Init
  <1>5. wire \in [Conn -> [End -> Seq(Unit)]]
    <2>1. <<>> \in Seq(Unit)
      OBVIOUS
    <2> QED BY <2>1 DEF Init
  <1>6. closed \in [Conn -> SUBSET End] /\ wrote \in [Conn -> SUBSET End]
    BY DEF Init
  <1>7. /\ greetings \in [Conn -> [End -> 0 .. 2]]
        /\ sent \in [Conn -> [End -> 0 .. MaxMsgs + 1]]
        /\ got \in [Conn -> [End -> 0 .. MaxMsgs + 1]]
    <2>1. 0 \in 0 .. 2 /\ 0 \in 0 .. MaxMsgs + 1
      BY TcpAssumption
    <2> QED BY <2>1 DEF Init
  <1> QED BY <1>1, <1>2, <1>3, <1>4, <1>5, <1>6, <1>7 DEF TypeOK

LEMMA InitIInv == ASSUME Init PROVE IInv
  <1>1. TypeOK
    BY InitType
  <1>2. ASSUME NEW x \in End PROVE ThreadOK(x) /\ CountOK(x) /\ FlagOK(x)
    <2>1. /\ pc[x] = "idle" /\ call[x] = "none" /\ conn[x] = NoConn
          /\ ~flags[x].started /\ ~flags[x].greeted /\ ~flags[x].ready
      BY DEF Init, NoFlags
    <2> QED BY <2>1 DEF ThreadOK, CountOK, FlagOK
  <1>3. Range(backlog) = {} /\ DOMAIN backlog = {}
    BY DEF Init, Range
  <1>4. Streams
    BY <1>3, TwoEnds DEF Init, Streams
  <1>5. \A c \in Conn, x \in End : ~Holds(x, c)
    <2>1. \A x \in End : conn[x] = NoConn
      BY DEF Init
    <2> QED BY <1>3, <2>1, TcpAssumption DEF Holds
  <1>6. Ends
    BY <1>5 DEF Ends
  <1>7. ASSUME NEW c \in Conn, NEW x \in End PROVE GreetOK(c, x) /\ ReadyOK(c, x) /\ StreamOK(c, x)
    <2>1. wire[c][x] = <<>> /\ greetings[c][x] = 0
      BY DEF Init
    <2>2. Len(wire[c][x]) = 0
      BY <2>1
    <2>3. ~Holds(Other(x), c)
      BY <1>5, TwoEnds
    <2>4. 1 .. Len(wire[c][x]) = {}
      BY <2>2
    <2> QED BY <2>1, <2>3, <2>4 DEF GreetOK, ReadyOK, StreamOK
  <1> QED BY <1>1, <1>2, <1>4, <1>6, <1>7 DEF IInv

LEMMA NextIInv == ASSUME IInv, [Next]_vars, ~rebound' PROVE IInv'
  <1>1. TypeOK
    BY DEF IInv
  <1>2. CASE BackoffExpires \/ ReconnectRefused
    <2>1. UNCHANGED <<setup, bound, backlog, target, conn, flags, threadVars,
                      wire, closed, history>>
      BY <1>2 DEF BackoffExpires, ReconnectRefused
    <2>2. TypeOK'
      BY <1>1, <1>2, LifecycleType
    <2> QED BY <2>1, <2>2, BackoffIInv
  <1>3. CASE UNCHANGED vars
    <2>1. UNCHANGED <<setup, bound, backlog, target, conn, flags, threadVars,
                      wire, closed, history>> /\ backoff' = backoff /\ rebound' = rebound
      BY <1>3 DEF vars, socketVars
    <2>2. TypeOK'
      BY <1>1, <2>1 DEF TypeOK, threadVars, history
    <2> QED BY <2>1, <2>2, BackoffIInv
  <1>4. ASSUME NEW k \in {"send", "recv"}, Enter(k) PROVE IInv'
    BY <1>4, EnterIInv
  <1>5. ASSUME NEW x \in End, Step(x) PROVE IInv'
    BY <1>5, StepIInv
  <1>6. CASE Lost
    BY <1>3, <1>6 DEF Lost
  <1> QED BY <1>2, <1>3, <1>4, <1>5, <1>6, LifecycleIInv DEF Next

(* That a bind has met a stream in use is not forgotten. *)
LEMMA ReboundStays == ASSUME rebound, [Next]_vars PROVE rebound'
  <1>1. CASE Lifecycle
    BY <1>1 DEF Lifecycle, BindTcp, UnbindTcp, ConnectTcpLater, ConnectTcp, ConnectIpc,
                DisconnectTcp
  <1>2. CASE BackoffExpires \/ ReconnectRefused
    BY <1>2 DEF BackoffExpires, ReconnectRefused
  <1>3. ASSUME NEW k \in {"send", "recv"}, Enter(k) PROVE rebound'
    BY <1>3 DEF Enter, Call, Reconnect, AcceptTcp, AcceptIpc, socketVars
  <1>4. ASSUME NEW x \in End, Step(x) PROVE rebound'
    BY <1>4 DEF Step, WriteGreeting, ReadPrefix, PrefixTimeout, ReadTail, Started,
                HandshakeFails, ReadGreeting, ReadReady, HandshakeTimeout, SendFrame,
                SendFails, RecvHello, RecvFrame, RecvFails, Write, socketVars
  <1>5. CASE Lost \/ UNCHANGED vars
    BY <1>5 DEF Lost, vars, socketVars
  <1> QED BY <1>1, <1>2, <1>3, <1>4, <1>5 DEF Next

(* IInv is an invariant of the streams of two sockets, until a bind meets a
   stream in use. *)
THEOREM AlwaysIInv == Spec => [](~rebound => IInv)
  <1>1. Init => (~rebound => IInv)
    BY InitIInv
  <1>2. (~rebound => IInv) /\ [Next]_vars => (~rebound => IInv)'
    BY NextIInv, ReboundStays
  <1> QED BY <1>1, <1>2, PTL DEF Spec

-----------------------------------------------------------------------------
(* What a reader is about to read, from its position in the stream. *)
LEMMA NextUnitExpected ==
  ASSUME IInv PROVE Aligned
  <1> SUFFICES ASSUME NEW x \in End, Reading(x), Incoming(x) # <<>>
               PROVE  Head(Incoming(x)).kind \in Expected(x)
    BY DEF Aligned
  <1>1. PICK y \in End : y = Other(x) /\ Other(y) = x
    BY TwoEnds
  <1>2. TypeOK /\ ThreadOK(x)
    BY DEF IInv
  <1>3. conn[x] # NoConn
    BY <1>2 DEF ThreadOK, Reading
  <1>4. PICK c \in Conn : c = conn[x]
    BY <1>2, <1>3 DEF TypeOK
  <1>5. wire[c][y] \in Seq(Unit) /\ wire[c][y] # <<>> /\ Incoming(x) = wire[c][y]
    BY <1>1, <1>2, <1>4 DEF TypeOK, Incoming
  <1>6. Head(Incoming(x)) = wire[c][y][1] /\ 1 \in 1 .. Len(wire[c][y])
    BY <1>5
  <1>7. Head(Incoming(x)) = UnitOf(y, Taken(x, c) + 1)
    BY <1>1, <1>6 DEF IInv, StreamOK
  <1>8. CASE pc[x] \in {"prefix", "greet"}
    <2>1. Taken(x, c) = 0
      BY <1>2, <1>4, <1>8 DEF ThreadOK, Taken
    <2>2. UnitOf(y, 1).kind = "prefix"
      BY DEF UnitOf
    <2> QED BY <1>7, <1>8, <2>1, <2>2 DEF Expected
  <1>9. CASE pc[x] = "tail"
    <2>1. Taken(x, c) = 1
      BY <1>2, <1>4, <1>9 DEF ThreadOK, Taken
    <2>2. UnitOf(y, 2).kind = "tail"
      BY DEF UnitOf
    <2> QED BY <1>7, <1>9, <2>1, <2>2 DEF Expected
  <1>10. CASE pc[x] = "ready"
    <2>1. Taken(x, c) = 2
      BY <1>2, <1>4, <1>10 DEF ThreadOK, Taken
    <2>2. UnitOf(y, 3).kind = "ready"
      BY DEF UnitOf
    <2> QED BY <1>7, <1>10, <2>1, <2>2 DEF Expected
  <1>11. CASE pc[x] = "read"
    <2>1. flags[x].ready
      BY <1>2, <1>11 DEF ThreadOK
    <2>2. got[c][y] \in 0 .. MaxMsgs + 1
      BY <1>2 DEF TypeOK
    <2>3. got[c][y] \in Nat
      BY <2>2, TcpAssumption
    <2>4. Taken(x, c) = 3 + got[c][y]
      BY <1>1, <1>4, <2>1 DEF Taken
    <2>5. PICK k \in Nat : k = Taken(x, c) + 1 /\ k > 3
      BY <2>3, <2>4
    <2>6. UnitOf(y, k).kind \in {"hello", "data"}
      BY <2>5 DEF UnitOf
    <2>7. Expected(x) = {"hello", "data"}
      BY <1>11 DEF Expected
    <2> QED BY <1>7, <2>5, <2>6, <2>7
  <1> QED BY <1>8, <1>9, <1>10, <1>11 DEF Reading

(* How much has been received of a stream, from the position of its reader. *)
LEMMA ReceivedOf ==
  ASSUME IInv, NEW c \in Conn, NEW x \in End, wire[c][x] # <<>>,
         NEW t, t = Taken(Other(x), c)
  PROVE  /\ t \in Nat /\ got[c][x] \in Nat
         /\ t >= 3 => t = 3 + got[c][x]
         /\ t < 3 => got[c][x] = 0
  <1>1. PICK y \in End : y = Other(x) /\ Other(y) = x
    BY TwoEnds
  <1>2. TypeOK /\ CountOK(y) /\ Streams /\ StreamOK(c, x)
    BY DEF IInv
  <1>3. t \in Nat
    BY <1>1, <1>2, PositionType
  <1>4. got[c][x] \in 0 .. MaxMsgs + 1
    BY <1>2 DEF TypeOK
  <1>5. got[c][x] \in Nat
    BY <1>4, TcpAssumption
  <1>6. Holds(y, c)
    BY <1>1, <1>2 DEF StreamOK
  <1>7. CASE conn[y] = c
    <2>1. c # NoConn
      BY TcpAssumption
    <2>2. CASE flags[y].ready
      <3>1. t = 3 + got[c][x]
        BY <1>1, <1>7, <2>2 DEF Taken
      <3> QED BY <1>3, <1>5, <3>1
    <2>3. CASE ~flags[y].ready
      <3>1. got[c][x] = 0
        BY <1>1, <1>2, <1>7, <2>1, <2>3 DEF CountOK
      <3>2. t \in {0, 1, 2}
        BY <1>1, <1>7, <2>3 DEF Taken
      <3> QED BY <1>3, <1>5, <3>1, <3>2
    <2> QED BY <2>2, <2>3
  <1>8. CASE conn[y] # c
    <2>1. y = Server /\ c \in Range(backlog)
      BY <1>6, <1>8 DEF Holds
    <2>2. x = Client
      BY <1>1, <2>1, TwoEnds
    <2>3. got[c][x] = 0 /\ t = 0
      BY <1>1, <1>2, <1>8, <2>1, <2>2 DEF Streams, Taken
    <2> QED BY <1>3, <1>5, <2>3
  <1> QED BY <1>7, <1>8

LEMMA UnitNumber ==
  ASSUME NEW x, NEW k \in Nat
  PROVE  /\ UnitOf(x, k).n = IF k <= 3 THEN 0 ELSE k - 3
         /\ k > 3 => (UnitOf(x, k).kind = "hello" <=> k = 4 /\ x \in setup.hello)
  <1>1. UnitOf(x, k).n = IF k <= 3 THEN 0 ELSE k - 3
    BY DEF UnitOf
  <1>2. ASSUME k > 3
        PROVE  UnitOf(x, k).kind = IF k = 4 /\ x \in setup.hello THEN "hello" ELSE "data"
    BY <1>2 DEF UnitOf
  <1> QED BY <1>1, <1>2

LEMMA ReceivedInOrder ==
  ASSUME IInv PROVE InOrder
  <1> SUFFICES ASSUME NEW c \in Conn, NEW x \in End, NEW i \in 1 .. Len(wire[c][x]),
                      wire[c][x][i].n > 0
               PROVE  /\ wire[c][x][i].kind = "hello" <=> x \in setup.hello /\ wire[c][x][i].n = 1
                      /\ wire[c][x][i].n = got[c][x] + Cardinality(MessagesUpTo(c, x, i))
    BY DEF InOrder, HelloComesFirst
  <1>1. wire[c][x] \in Seq(Unit) /\ StreamOK(c, x)
    BY DEF IInv, TypeOK
  <1>2. PICK m \in Nat : m = Len(wire[c][x])
    BY <1>1
  <1>3. i \in Nat /\ 1 <= i /\ i <= m
    BY <1>2
  <1>4. wire[c][x] # <<>>
    BY <1>1, <1>2, <1>3
  <1>5. PICK t : t = Taken(Other(x), c)
    OBVIOUS
  <1>6. PICK g : g = got[c][x]
    OBVIOUS
  <1>7. t \in Nat /\ g \in Nat /\ (t >= 3 => t = 3 + g) /\ (t < 3 => g = 0)
    BY <1>4, <1>5, <1>6, ReceivedOf
  <1>8. \A j \in 1 .. m : wire[c][x][j] = UnitOf(x, t + j)
    BY <1>1, <1>2, <1>5 DEF StreamOK
  <1>9. \A j \in 1 .. m : wire[c][x][j].n = IF t + j <= 3 THEN 0 ELSE t + j - 3
    BY <1>2, <1>7, <1>8, UnitNumber
  <1>10. t + i > 3 /\ wire[c][x][i].n = t + i - 3
    <2>1. wire[c][x][i].n = IF t + i <= 3 THEN 0 ELSE t + i - 3
      BY <1>2, <1>9
    <2>2. PICK v : v = wire[c][x][i].n
      OBVIOUS
    <2>3. v > 0 /\ v = IF t + i <= 3 THEN 0 ELSE t + i - 3
      BY <2>1, <2>2
    <2>4. t + i > 3 /\ v = t + i - 3
      BY <1>3, <1>7, <2>3
    <2> QED BY <2>2, <2>4
  <1>11. wire[c][x][i].kind = "hello" <=> t + i = 4 /\ x \in setup.hello
    BY <1>3, <1>7, <1>8, <1>10, UnitNumber
  <1>12. t + i = 4 <=> wire[c][x][i].n = 1
    BY <1>3, <1>7, <1>10
  <1>13. MessagesUpTo(c, x, i) = {j \in 1 .. i : t + j > 3}
    <2>1. \A j \in 1 .. i : j \in 1 .. m /\ j \in Nat
      BY <1>2, <1>3
    <2>2. \A j \in 1 .. i : wire[c][x][j].n > 0 <=> t + j > 3
      <3> SUFFICES ASSUME NEW j \in 1 .. i PROVE wire[c][x][j].n > 0 <=> t + j > 3
        OBVIOUS
      <3>1. wire[c][x][j].n = IF t + j <= 3 THEN 0 ELSE t + j - 3
        BY <1>9, <2>1
      <3>2. PICK v : v = wire[c][x][j].n
        OBVIOUS
      <3>3. v > 0 <=> t + j > 3
        BY <1>7, <2>1, <3>1, <3>2
      <3> QED BY <3>2, <3>3
    <2> QED BY <2>2 DEF MessagesUpTo
  <1>14. CASE t >= 3
    <2>1. MessagesUpTo(c, x, i) = 1 .. i
      BY <1>3, <1>7, <1>13, <1>14
    <2>2. Cardinality(1 .. i) = i
      BY <1>3, FS_Interval
    <2>3. wire[c][x][i].n = g + i
      BY <1>3, <1>7, <1>10, <1>14
    <2> QED BY <1>6, <1>11, <1>12, <2>1, <2>2, <2>3
  <1>15. CASE t < 3
    <2>1. MessagesUpTo(c, x, i) = (4 - t) .. i
      BY <1>3, <1>7, <1>13, <1>15
    <2>2. 4 - t \in Int /\ i \in Int /\ ~(4 - t > i)
      BY <1>3, <1>7, <1>10
    <2>3. Cardinality((4 - t) .. i) = i - (4 - t) + 1
      BY <2>2, FS_Interval
    <2>4. wire[c][x][i].n = g + (i - (4 - t) + 1)
      BY <1>3, <1>7, <1>10, <1>15
    <2> QED BY <1>6, <1>11, <1>12, <2>1, <2>3, <2>4
  <1> QED BY <1>7, <1>14, <1>15

-----------------------------------------------------------------------------
(***************************************************************************)
(* Whatever a socket remembers of a handshake it remembers of the stream   *)
(* it holds, and a stream that nobody has closed is greeted at most once   *)
(* by each side, over any number of resets, reconnects, binds, unbinds and *)
(* repeated connects, as long as the server does not bind while it has a   *)
(* stream (TcpState's flags in libzmq-core/src/socket.rs).                 *)
(***************************************************************************)
THEOREM HandshakesAlwaysOfTheirStream == Spec => []HandshakeOfItsStream
  <1>1. (~rebound => IInv) => HandshakeOfItsStream
    BY DEF IInv, FlagOK, GreetOK, HandshakeOfItsStream, FlagsMatchStream, GreetedOnce
  <1> QED BY <1>1, AlwaysIInv, PTL

(***************************************************************************)
(* No read of write_zmtp_handshake_tcp or of recv meets anything but what  *)
(* it expects on a live connection, whichever side called what first and   *)
(* whichever reads timed out before, until the server binds while it has a *)
(* stream.                                                                 *)
(***************************************************************************)
THEOREM AlwaysAligned == Spec => []Aligned
  <1>1. (~rebound => IInv) => Aligned
    BY NextUnitExpected DEF Aligned
  <1> QED BY <1>1, AlwaysIInv, PTL

(***************************************************************************)
(* On every connection each side receives the messages of the other in the *)
(* order they were sent, none missing and none twice, and a hello message  *)
(* comes first and once, until the server binds while it has a stream.     *)
(***************************************************************************)
THEOREM AlwaysInOrder == Spec => []InOrder
  <1>1. (~rebound => IInv) => InOrder
    BY ReceivedInOrder DEF InOrder
  <1> QED BY <1>1, AlwaysIInv, PTL
=============================================================================
