-------------------------- MODULE HandshakeProofs --------------------------
(***************************************************************************)
(* For every pair of options, every number of GSSAPI tokens and every      *)
(* number of messages: a server finishes the handshake only with a client  *)
(* that is entitled to it, both ends then agree, and the traffic that      *)
(* follows is in order and never uses a nonce twice.                       *)
(***************************************************************************)
EXTENDS Handshake, FiniteSetTheorems, TLAPS

(***************************************************************************)
(* The options o of both sides fix what a side x writes, however far it    *)
(* gets: the greeting, the commands of its mechanism, and then messages.   *)
(* This is the number of frames before the first message ...               *)
(***************************************************************************)
Half(n) == n \div 2

HandshakeLen(o, x) ==
  CASE Mechanism(o[x]) = "NULL" -> 3
    [] Mechanism(o[x]) \in {"PLAIN", "CURVE"} -> 4
    [] Mechanism(o[x]) = "GSSAPI" ->
         IF x = "server" THEN 3 + Half(o[x].gssapi_rounds)
         ELSE IF Placeholder(o[x]) THEN 4 ELSE 3 + Half(o[x].gssapi_rounds + 1)

(* ... the session it has then ... *)
SessionOf(o, x) ==
  CASE Mechanism(o[x]) = "CURVE" -> "CURVE"
    [] Mechanism(o[x]) = "GSSAPI" -> GssSession(o[x])
    [] OTHER -> "none"

(* ... and its frame number k: a command ... *)
Metadata(o, x, cmd) == Frame(cmd, "metadata", o[x].routing_id)

PlainCommand(o, x, k) ==
  IF x = "client"
  THEN IF k = 3 THEN Frame("HELLO", "PLAIN", <<o[x].plain_username, o[x].plain_password>>)
       ELSE Metadata(o, x, "INITIATE")
  ELSE IF k = 3 THEN Frame("WELCOME", "PLAIN", <<>>) ELSE Metadata(o, x, "READY")

CurveCommand(o, x, k) ==
  IF x = "client"
  THEN IF k = 3
       THEN Frame("HELLO", "CURVE",
                  [transient |-> "client", nonce |-> 1, box |-> HelloBox(o[x])])
       ELSE Frame("INITIATE", "CURVE",
                  [cookie |-> Cookie, nonce |-> 2, box |-> InitiateBox(o[x], "server", 2)])
  ELSE IF k = 3 THEN Frame("WELCOME", "CURVE", WelcomeBox(o[x], "client"))
       ELSE Frame("READY", "CURVE", [nonce |-> 1, box |-> ReadyBox(o[x], "client")])

GssCommand(o, x, k) ==
  IF k = HandshakeLen(o, x)
  THEN IF GssSession(o[x]) = "none" THEN Metadata(o, x, "READY")
       ELSE Frame("READY", "GSSAPI", o[x].routing_id)
  ELSE IF Placeholder(o[x]) THEN Frame("INITIATE", "principal", o[x].gssapi_principal)
  ELSE Token(IF x = "client" THEN 2 * k - 5 ELSE 2 * k - 4)

CommandOf(o, x, k) ==
  CASE Mechanism(o[x]) = "NULL" -> Metadata(o, x, "READY")
    [] Mechanism(o[x]) = "PLAIN" -> PlainCommand(o, x, k)
    [] Mechanism(o[x]) = "CURVE" -> CurveCommand(o, x, k)
    [] Mechanism(o[x]) = "GSSAPI" -> GssCommand(o, x, k)

(* ... or its message number j; the counter of a CURVE session has counted *)
(* the boxes of the commands before it.                                    *)
FirstNonce(x) == IF x = "client" THEN 3 ELSE 2

MessageOf(o, x, j) ==
  CASE SessionOf(o, x) = "CURVE" ->
         LET nonce == FirstNonce(x) + j - 1 IN
         Frame("MESSAGE", "CURVE",
               [nonce |-> nonce, box |-> Box(j, <<MessagePrefix(x), nonce>>, Peer(x), x)])
    [] SessionOf(o, x) = "GSSAPI" -> Frame("MESSAGE", "GSSAPI", j)
    [] OTHER -> Frame("message", "none", j)

FrameOf(o, x, k) ==
  IF k = 1 THEN Prefix ELSE IF k = 2 THEN GreetingTail
  ELSE IF k <= HandshakeLen(o, x) THEN CommandOf(o, x, k)
  ELSE MessageOf(o, x, k - HandshakeLen(o, x))

-----------------------------------------------------------------------------
(* The mechanisms with which a handshake can end on both sides. *)
Compatible(o) ==
  \/ Mechanism(o["client"]) = Mechanism(o["server"])
  \/ /\ Mechanism(o["client"]) = "GSSAPI" /\ GssSession(o["client"]) = "none"
     /\ Mechanism(o["server"]) = "NULL"

(* Both ends exchange tokens, of the same library. *)
SameTokens(o) ==
  /\ Mechanism(o["client"]) = "GSSAPI" /\ Mechanism(o["server"]) = "GSSAPI"
  /\ ~Placeholder(o["client"]) /\ ~Placeholder(o["server"])
  /\ o["client"].gssapi_rounds = o["server"].gssapi_rounds

(* What a server has made sure of when it answers the first command. *)
Admitted(o) ==
  LET c == o["client"] s == o["server"] IN
  /\ Mechanism(c) = Mechanism(s)
  /\ Mechanism(s) = "PLAIN" =>
       Authorize(s, "PLAIN", <<c.plain_username, c.plain_password>>)
  /\ Mechanism(s) = "CURVE" => c.curve_serverkey = s.curve_secretkey
  /\ Mechanism(s) = "GSSAPI" => (Placeholder(c) <=> Placeholder(s))

(* What x knows after m frames it has written, its place notwithstanding. *)
Learnt(o, x, m) ==
  LET M == Mechanism(o[x])
      L == HandshakeLen(o, x) IN
  /\ m >= 3 /\ x = "client" /\ M = "GSSAPI" =>
       Placeholder(o[x]) \/ o[x].gssapi_service_principal # ""
  /\ m >= 4 /\ x = "client" /\ M = "GSSAPI" /\ m < L => SameTokens(o)
  /\ m >= 3 /\ x = "server" /\ M # "NULL" => Admitted(o)
  /\ m >= L /\ x = "server" => Entitled(o["client"], o["server"])
  /\ m >= L /\ M # "NULL" => Compatible(o)
  /\ m >= L /\ x = "client" /\ M = "GSSAPI" => SessionOf(o, "client") = SessionOf(o, "server")

(***************************************************************************)
(* Where x is with the session h, after s messages sent, g received, n     *)
(* frames read and m written.                                              *)
(***************************************************************************)
AtStart(o, x, p, h, n, m) ==
  /\ p = "start" => n = 0 /\ m = 0 /\ ~h.greeted
  /\ p = "prefix" => n = 0 /\ m = 1 /\ ~h.greeted
  /\ p = "tail" => n = 1 /\ m = 2 /\ h.greeted
  /\ p \in {"start", "prefix", "tail", "mechanism"} => h.send_nonce = 1 /\ h.recv_nonce = 0
  /\ p = "mechanism" =>
       \/ x = "client" /\ n = 0 /\ m = 2 /\ ~h.greeted
       \/ n = 2 /\ m = 2 /\ h.greeted
       \/ /\ x = "server" /\ m > 2 /\ n = m /\ h.greeted
          /\ SameTokens(o) /\ 2 * m - 4 < o[x].gssapi_rounds

AtCommands(o, x, p, h, n, m) ==
  LET M == Mechanism(o[x])
      r == o[x].gssapi_rounds IN
  /\ p = "welcome" =>
       /\ x = "client" /\ M \in {"PLAIN", "CURVE"} /\ m = 3
       /\ n = IF h.greeted THEN 2 ELSE 0
       /\ M = "CURVE" => h.send_nonce = 2 /\ h.recv_nonce = 0
  /\ p = "initiate" =>
       /\ x = "server" /\ M \in {"PLAIN", "CURVE"} /\ n = 3 /\ m = 3 /\ h.greeted
       /\ M = "CURVE" => h.send_nonce = 1 /\ h.recv_nonce = 1 /\ h.peer_transient = "client"
  /\ p = "token" =>
       /\ x = "client" /\ M = "GSSAPI" /\ m >= 3 /\ 2 * m - 5 < r /\ r > 1
       /\ n = IF h.greeted THEN m - 1 ELSE 0
       /\ ~h.greeted => m = 3
  /\ p = "ready" /\ M = "CURVE" =>
       /\ x = "client" /\ n = 3 /\ m = 4 /\ h.greeted
       /\ h.send_nonce = 3 /\ h.recv_nonce = 0 /\ h.peer_transient = "server"
  /\ p = "ready" /\ M = "GSSAPI" /\ x = "client" =>
       /\ m = HandshakeLen(o, x) - 1
       /\ n = IF h.greeted THEN m - 1 ELSE 0
       /\ r > 1 => SameTokens(o) /\ m >= 4
  /\ p = "ready" /\ x = "server" =>
       /\ M = "GSSAPI" /\ m = HandshakeLen(o, x) /\ n = HandshakeLen(o, "client") - 1
       /\ h.greeted

AtDone(o, x, p, h, s, g, n, m) ==
  LET M == Mechanism(o[x])
      y == Peer(x) IN
  p = "done" =>
    /\ m = HandshakeLen(o, x) + s
    /\ h.session = SessionOf(o, x)
    /\ ~h.peer_ready =>
         /\ M = "NULL" \/ (M = "PLAIN" /\ x = "client" /\ h.greeted)
         /\ g = <<>> /\ n < HandshakeLen(o, y)
         /\ h.greeted => n >= 2
         /\ ~h.greeted => n = 0
    /\ h.peer_ready =>
         /\ h.greeted /\ n = HandshakeLen(o, y) + Len(g)
         /\ SessionOf(o, x) = SessionOf(o, y)
    /\ M = "CURVE" =>
         /\ h.peer_ready /\ h.peer_transient = y
         /\ h.send_nonce = FirstNonce(x) + s
         /\ h.recv_nonce = FirstNonce(y) + Len(g) - 1

Place(o, x, p, h, s, g, n, m) ==
  /\ p # "done" => s = 0 /\ g = <<>> /\ h.session = "none" /\ ~h.peer_ready
  /\ h.send_nonce \in 1..(3 + s)
  /\ \A i \in 1..Len(g) : g[i] = i
  /\ m <= HandshakeLen(o, x) + s
  /\ Learnt(o, x, m)
  /\ AtStart(o, x, p, h, n, m)
  /\ AtCommands(o, x, p, h, n, m)
  /\ AtDone(o, x, p, h, s, g, n, m)

-----------------------------------------------------------------------------
Places == {"start", "prefix", "tail", "mechanism", "welcome", "initiate", "ready",
           "token", "done", "failed", "timeout"}

Sessions ==
  [send_nonce : Nat, recv_nonce : Nat, peer_transient : Sides \cup {Unknown},
   cookie : {<<>>, Cookie}, greeted : BOOLEAN, peer_ready : BOOLEAN,
   session : {"none", "CURVE", "GSSAPI"}]

Names == STRING \cup {Unknown}

Frames == {FrameOf(o, x, k) : o \in Configs, x \in Sides, k \in Nat}

Types ==
  /\ opts \in Configs
  /\ pc \in [Sides -> Places]
  /\ hs \in [Sides -> Sessions]
  /\ seen \in [Sides -> Names]
  /\ sent \in [Sides -> 0..MaxMessages]
  /\ wire \in [Sides -> Seq(Frames)]
  /\ got \in [Sides -> Seq(Nat)]

(* What is under way to x are the frames its peer has written and x has not *)
(* read, with n the number of frames a side has read and m of those it has  *)
(* written.                                                                 *)
Streams(n, m) ==
  \A x \in Sides :
    /\ m[Peer(x)] = n[x] + Len(wire[x])
    /\ \A i \in 1..Len(wire[x]) : wire[x][i] = FrameOf(opts, Peer(x), n[x] + i)

(* The side that makes the box of a nonce, and the frame it is made for. *)
MakerOf(nonce) ==
  IF nonce[1] \in {"HELLO", "VOUCH---", "INITIATE", "MESSAGEC"} THEN "client" ELSE "server"
MadeFor(nonce) ==
  CASE nonce[1] \in {"HELLO", "WELCOME-"} -> 3
    [] nonce[1] \in {"VOUCH---", "INITIATE", "READY"} -> 4
    [] nonce[1] = "MESSAGEC" -> 2 + nonce[2]
    [] OTHER -> 3 + nonce[2]

Boxes(m) ==
  /\ IsFiniteSet(used) /\ made = Cardinality(used)
  /\ \A u \in used : MadeFor(u[2]) \in 0..m[MakerOf(u[2])]

Named == \A x \in Sides : seen[x] # Unknown => seen[x] = opts[Peer(x)].routing_id

At(x, n, m) == Place(opts, x, pc[x], hs[x], sent[x], got[x], n, m)

Sync(n, m) ==
  /\ Types
  /\ Streams(n, m)
  /\ \A x \in Sides : At(x, n[x], m[x])
  /\ Boxes(m)
  /\ Named

(* The inductive invariant. *)
IInv == \E n, m \in [Sides -> Nat] : Sync(n, m)

-----------------------------------------------------------------------------
(* The two sides, their options and mechanisms. *)

LEMMA Peers ==
  /\ Peer("client") = "server" /\ Peer("server") = "client"
  /\ \A x \in Sides : Peer(x) \in Sides /\ Peer(x) # x /\ Peer(Peer(x)) = x
<1>1. Peer("client") = "server"
  BY DEF Peer, Sides
<1>2. Peer("server") = "client"
  BY DEF Peer, Sides
<1> QED
  BY <1>1, <1>2 DEF Sides

LEMMA Mechanisms ==
  \A o : Mechanism(o) \in {"NULL", "PLAIN", "CURVE", "GSSAPI"}
BY DEF Mechanism

LEMMA ConfigTypes ==
  ASSUME NEW o \in Configs
  PROVE  /\ \A x \in Sides : o[x] \in Options
         /\ o["client"] \in Options /\ o["server"] \in Options
         /\ ~Placeholder(o["client"]) /\ ~Placeholder(o["server"]) =>
              o["client"].gssapi_rounds = o["server"].gssapi_rounds
BY HandshakeAssumption DEF Sides, Placeholder

LEMMA Halves ==
  \A r \in Nat : Half(r) \in Nat /\ 2 * Half(r) <= r /\ r <= 2 * Half(r) + 1
BY DEF Half

LEMMA Rounds ==
  ASSUME NEW o \in Configs, NEW x \in Sides
  PROVE  /\ o[x].gssapi_rounds \in Nat
         /\ Half(o[x].gssapi_rounds) \in Nat
         /\ Half(o[x].gssapi_rounds + 1) \in Nat
<1>1. o[x].gssapi_rounds \in Nat
  BY ConfigTypes DEF Options
<1>2. o[x].gssapi_rounds + 1 \in Nat
  BY <1>1
<1> QED
  BY <1>1, <1>2, Halves

LEMMA Lengths ==
  ASSUME NEW o \in Configs, NEW x \in Sides
  PROVE  HandshakeLen(o, x) \in Nat /\ HandshakeLen(o, x) >= 3
BY Rounds, Mechanisms DEF HandshakeLen

(* The lengths, mechanism by mechanism. *)
LEMMA LengthOf ==
  ASSUME NEW o \in Configs, NEW x \in Sides
  PROVE  /\ Mechanism(o[x]) = "NULL" => HandshakeLen(o, x) = 3
         /\ Mechanism(o[x]) \in {"PLAIN", "CURVE"} => HandshakeLen(o, x) = 4
         /\ Mechanism(o[x]) = "GSSAPI" /\ x = "server" =>
              HandshakeLen(o, x) = 3 + Half(o[x].gssapi_rounds)
         /\ Mechanism(o[x]) = "GSSAPI" /\ x = "client" /\ Placeholder(o[x]) =>
              HandshakeLen(o, x) = 4
         /\ Mechanism(o[x]) = "GSSAPI" /\ x = "client" /\ ~Placeholder(o[x]) =>
              HandshakeLen(o, x) = 3 + Half(o[x].gssapi_rounds + 1)
BY DEF HandshakeLen, Sides

LEMMA SessionTypes ==
  \A o, x : SessionOf(o, x) \in {"none", "CURVE", "GSSAPI"}
BY DEF SessionOf, GssSession

-----------------------------------------------------------------------------
(* What the operations on the wire do to the streams. *)

LEMMA FrameTypes ==
  ASSUME NEW o \in Configs, NEW x \in Sides, NEW k \in Nat
  PROVE  FrameOf(o, x, k) \in Frames
BY DEF Frames

(* The next frame that x reads. *)
LEMMA HeadIs ==
  ASSUME NEW n \in [Sides -> Nat], NEW m \in [Sides -> Nat], NEW x \in Sides,
         Sync(n, m), wire[x] # <<>>
  PROVE  /\ Head(wire[x]) = FrameOf(opts, Peer(x), n[x] + 1)
         /\ n[x] + 1 <= m[Peer(x)]
<1>1. wire[x] \in Seq(Frames) /\ Len(wire[x]) \in Nat /\ Len(wire[x]) > 0
  BY DEF Sync, Types
<1>2. 1 \in 1..Len(wire[x]) /\ Head(wire[x]) = wire[x][1]
  BY <1>1
<1>3. m[Peer(x)] = n[x] + Len(wire[x])
  BY DEF Sync, Streams
<1>4. wire[x][1] = FrameOf(opts, Peer(x), n[x] + 1)
  BY <1>2 DEF Sync, Streams
<1>5. n[x] \in Nat
  OBVIOUS
<1> QED
  BY <1>1, <1>2, <1>3, <1>4, <1>5

(* What x has read was written. *)
LEMMA ReadIsWritten ==
  ASSUME NEW n \in [Sides -> Nat], NEW m \in [Sides -> Nat], NEW x \in Sides,
         Sync(n, m)
  PROVE  n[x] <= m[Peer(x)] /\ n[x] \in Nat /\ m[x] \in Nat /\ m[Peer(x)] \in Nat
<1>1. wire[x] \in Seq(Frames) /\ Len(wire[x]) \in Nat
  BY DEF Sync, Types
<1>2. m[Peer(x)] = n[x] + Len(wire[x])
  BY DEF Sync, Streams
<1>3. Peer(x) \in Sides
  BY Peers
<1> QED
  BY <1>1, <1>2, <1>3

(* One stream after a frame has been put on it, or taken from it. *)
Stream(o, x, w, n, m) ==
  /\ w \in Seq(Frames)
  /\ m = n + Len(w)
  /\ \A i \in 1..Len(w) : w[i] = FrameOf(o, Peer(x), n + i)

LEMMA StreamPut ==
  ASSUME NEW o \in Configs, NEW x \in Sides, NEW w, NEW n \in Nat, NEW m \in Nat, NEW f,
         Stream(o, x, w, n, m), f = FrameOf(o, Peer(x), m + 1)
  PROVE  Stream(o, x, Append(w, f), n, m + 1)
<1>1. f \in Frames
  BY FrameTypes, Peers
<1>2. /\ w \in Seq(Frames) /\ Len(w) \in Nat /\ Append(w, f) \in Seq(Frames)
      /\ Len(Append(w, f)) = Len(w) + 1
  BY <1>1 DEF Stream
<1>3. m = n + Len(w)
  BY DEF Stream
<1>4. ASSUME NEW i \in 1..Len(Append(w, f))
      PROVE  Append(w, f)[i] = FrameOf(o, Peer(x), n + i)
  <2>1. CASE i \in 1..Len(w)
    <3>1. Append(w, f)[i] = w[i]
      BY <1>2, <2>1
    <3> QED
      BY <3>1, <2>1 DEF Stream
  <2>2. CASE i = Len(w) + 1
    <3>1. Append(w, f)[i] = f
      BY <1>2, <2>2
    <3>2. n + i = m + 1
      BY <1>2, <1>3, <2>2
    <3> QED
      BY <3>1, <3>2
  <2> QED
    BY <2>1, <2>2, <1>2
<1>5. m + 1 = n + Len(Append(w, f))
  BY <1>2, <1>3
<1> QED
  BY <1>2, <1>4, <1>5 DEF Stream

LEMMA StreamTake ==
  ASSUME NEW o \in Configs, NEW x \in Sides, NEW w, NEW n \in Nat, NEW m \in Nat,
         Stream(o, x, w, n, m), w # <<>>
  PROVE  Stream(o, x, Tail(w), n + 1, m)
<1>1. /\ w \in Seq(Frames) /\ Len(w) \in Nat /\ Len(w) > 0 /\ Tail(w) \in Seq(Frames)
      /\ Len(Tail(w)) = Len(w) - 1 /\ m = n + Len(w)
  BY DEF Stream
<1>2. ASSUME NEW i \in 1..Len(Tail(w))
      PROVE  Tail(w)[i] = FrameOf(o, Peer(x), (n + 1) + i)
  <2>1. Tail(w)[i] = w[i + 1] /\ i + 1 \in 1..Len(w)
    BY <1>1
  <2>2. (n + 1) + i = n + (i + 1)
    BY <1>1
  <2> QED
    BY <2>1, <2>2 DEF Stream
<1>3. m = (n + 1) + Len(Tail(w))
  BY <1>1
<1> QED
  BY <1>1, <1>2, <1>3 DEF Stream

(* A step of x after which it has read a frames and written b. *)
WireStep(n, m, x, a, b) ==
  /\ DOMAIN wire' = Sides /\ wire' = [y \in Sides |-> wire'[y]]
  /\ Stream(opts, x, wire'[x], a, m[Peer(x)])
  /\ Stream(opts, Peer(x), wire'[Peer(x)], n[Peer(x)], b)

LEMMA BothStreams ==
  ASSUME NEW n \in [Sides -> Nat], NEW m \in [Sides -> Nat], NEW x \in Sides, Sync(n, m)
  PROVE  /\ opts \in Configs
         /\ wire \in [Sides -> Seq(Frames)]
         /\ n[x] \in Nat /\ m[x] \in Nat /\ n[Peer(x)] \in Nat /\ m[Peer(x)] \in Nat
         /\ Stream(opts, x, wire[x], n[x], m[Peer(x)])
         /\ Stream(opts, Peer(x), wire[Peer(x)], n[Peer(x)], m[x])
<1>1. Peer(x) \in Sides /\ Peer(Peer(x)) = x
  BY Peers
<1>2. opts \in Configs /\ wire \in [Sides -> Seq(Frames)]
  BY DEF Sync, Types
<1>3. ASSUME NEW y \in Sides PROVE Stream(opts, y, wire[y], n[y], m[Peer(y)])
  BY <1>2 DEF Sync, Streams, Stream
<1>4. Stream(opts, Peer(x), wire[Peer(x)], n[Peer(x)], m[x])
  BY <1>1, <1>3
<1> QED
  BY <1>1, <1>2, <1>3, <1>4

LEMMA WireSame ==
  ASSUME NEW n \in [Sides -> Nat], NEW m \in [Sides -> Nat], NEW x \in Sides,
         Sync(n, m), UNCHANGED wire
  PROVE  WireStep(n, m, x, n[x], m[x])
BY BothStreams DEF WireStep

LEMMA WireSay ==
  ASSUME NEW n \in [Sides -> Nat], NEW m \in [Sides -> Nat], NEW x \in Sides,
         Sync(n, m), NEW f, Say(x, f), f = FrameOf(opts, x, m[x] + 1)
  PROVE  WireStep(n, m, x, n[x], m[x] + 1)
<1>1. Peer(x) \in Sides /\ Peer(Peer(x)) = x /\ Peer(x) # x
  BY Peers
<1>2. /\ opts \in Configs /\ wire \in [Sides -> Seq(Frames)]
      /\ n[Peer(x)] \in Nat /\ m[x] \in Nat
      /\ Stream(opts, x, wire[x], n[x], m[Peer(x)])
      /\ Stream(opts, Peer(x), wire[Peer(x)], n[Peer(x)], m[x])
  BY BothStreams
<1>3. Stream(opts, Peer(x), Append(wire[Peer(x)], f), n[Peer(x)], m[x] + 1)
  BY <1>1, <1>2, StreamPut
<1>4. /\ wire'[Peer(x)] = Append(wire[Peer(x)], f) /\ wire'[x] = wire[x]
      /\ DOMAIN wire' = Sides /\ wire' = [y \in Sides |-> wire'[y]]
  BY <1>1, <1>2 DEF Say
<1> QED
  BY <1>2, <1>3, <1>4 DEF WireStep

LEMMA WireHear ==
  ASSUME NEW n \in [Sides -> Nat], NEW m \in [Sides -> Nat], NEW x \in Sides,
         Sync(n, m), wire[x] # <<>>, Hear(x)
  PROVE  WireStep(n, m, x, n[x] + 1, m[x])
<1>1. Peer(x) \in Sides /\ Peer(x) # x
  BY Peers
<1>2. /\ opts \in Configs /\ wire \in [Sides -> Seq(Frames)]
      /\ n[x] \in Nat /\ m[Peer(x)] \in Nat
      /\ Stream(opts, x, wire[x], n[x], m[Peer(x)])
      /\ Stream(opts, Peer(x), wire[Peer(x)], n[Peer(x)], m[x])
  BY BothStreams
<1>3. Stream(opts, x, Tail(wire[x]), n[x] + 1, m[Peer(x)])
  BY <1>2, StreamTake
<1>4. /\ wire'[Peer(x)] = wire[Peer(x)] /\ wire'[x] = Tail(wire[x])
      /\ DOMAIN wire' = Sides /\ wire' = [y \in Sides |-> wire'[y]]
  BY <1>1, <1>2 DEF Hear
<1> QED
  BY <1>2, <1>3, <1>4 DEF WireStep

LEMMA WireAnswer ==
  ASSUME NEW n \in [Sides -> Nat], NEW m \in [Sides -> Nat], NEW x \in Sides,
         Sync(n, m), wire[x] # <<>>, NEW f, Answer(x, f), f = FrameOf(opts, x, m[x] + 1)
  PROVE  WireStep(n, m, x, n[x] + 1, m[x] + 1)
<1>1. Peer(x) \in Sides /\ Peer(Peer(x)) = x /\ Peer(x) # x
  BY Peers
<1>2. /\ opts \in Configs /\ wire \in [Sides -> Seq(Frames)]
      /\ n[x] \in Nat /\ m[Peer(x)] \in Nat /\ n[Peer(x)] \in Nat /\ m[x] \in Nat
      /\ Stream(opts, x, wire[x], n[x], m[Peer(x)])
      /\ Stream(opts, Peer(x), wire[Peer(x)], n[Peer(x)], m[x])
  BY BothStreams
<1>3. Stream(opts, x, Tail(wire[x]), n[x] + 1, m[Peer(x)])
  BY <1>2, StreamTake
<1>4. Stream(opts, Peer(x), Append(wire[Peer(x)], f), n[Peer(x)], m[x] + 1)
  BY <1>1, <1>2, StreamPut
<1>5. /\ wire'[Peer(x)] = Append(wire[Peer(x)], f) /\ wire'[x] = Tail(wire[x])
      /\ DOMAIN wire' = Sides /\ wire' = [y \in Sides |-> wire'[y]]
  BY <1>1, <1>2 DEF Answer
<1> QED
  BY <1>3, <1>4, <1>5 DEF WireStep

-----------------------------------------------------------------------------
(* A step of x leaves what the other side has. *)
Only(x) ==
  /\ opts' = opts
  /\ pc' \in [Sides -> Places] /\ hs' \in [Sides -> Sessions]
  /\ seen' \in [Sides -> Names]
  /\ sent' \in [Sides -> 0..MaxMessages] /\ got' \in [Sides -> Seq(Nat)]
  /\ pc'[Peer(x)] = pc[Peer(x)] /\ hs'[Peer(x)] = hs[Peer(x)]
  /\ sent'[Peer(x)] = sent[Peer(x)] /\ got'[Peer(x)] = got[Peer(x)]

(* What remains to be shown of a step of x. *)
LEMMA Advance ==
  ASSUME NEW n \in [Sides -> Nat], NEW m \in [Sides -> Nat], NEW x \in Sides,
         NEW a \in Nat, NEW b \in Nat,
         Sync(n, m), Only(x), WireStep(n, m, x, a, b),
         Place(opts, x, pc'[x], hs'[x], sent'[x], got'[x], a, b),
         Boxes([m EXCEPT ![x] = b])', Named'
  PROVE  IInv'
<1> DEFINE n2 == [n EXCEPT ![x] = a]
           m2 == [m EXCEPT ![x] = b]
<1>1. Peer(x) \in Sides /\ Peer(Peer(x)) = x /\ Peer(x) # x /\ Sides = {x, Peer(x)}
  BY Peers DEF Sides
<1>2. /\ n2 \in [Sides -> Nat] /\ m2 \in [Sides -> Nat]
      /\ n2[x] = a /\ m2[x] = b /\ n2[Peer(x)] = n[Peer(x)] /\ m2[Peer(x)] = m[Peer(x)]
  BY <1>1
<1>3. wire' \in [Sides -> Seq(Frames)]
  BY <1>1 DEF WireStep, Stream
<1>4. Types'
  BY <1>3 DEF Sync, Types, Only
<1>5. Streams(n2, m2)'
  <2>1. ASSUME NEW y \in Sides PROVE Stream(opts, y, wire'[y], n2[y], m2[Peer(y)])
    BY <1>1, <1>2 DEF WireStep
  <2> QED
    BY <2>1 DEF Streams, Stream, Only
<1>6. At(x, n2[x], m2[x])'
  BY <1>2 DEF At, Only
<1>7. At(Peer(x), n2[Peer(x)], m2[Peer(x)])'
  <2>1. At(Peer(x), n[Peer(x)], m[Peer(x)])
    BY <1>1 DEF Sync
  <2> QED
    BY <2>1, <1>2 DEF At, Only
<1>8. \A y \in Sides : At(y, n2[y], m2[y])'
  BY <1>1, <1>6, <1>7
<1>9. Sync(n2, m2)'
  BY <1>4, <1>5, <1>8 DEF Sync
<1> QED
  BY <1>2, <1>9 DEF IInv

(* The boxes and the names when no box is made and nobody is named. *)
LEMMA BoxesKept ==
  ASSUME NEW m \in [Sides -> Nat], NEW x \in Sides, NEW b \in Nat,
         Boxes(m), NoBox, b >= m[x]
  PROVE  Boxes([m EXCEPT ![x] = b])'
<1>1. IsFiniteSet(used)' /\ (made = Cardinality(used))'
  BY DEF Boxes, NoBox
<1>2. ASSUME NEW u \in used PROVE MadeFor(u[2]) \in 0..[m EXCEPT ![x] = b][MakerOf(u[2])]
  <2>1. MadeFor(u[2]) \in 0..m[MakerOf(u[2])] /\ MakerOf(u[2]) \in Sides
    BY DEF Boxes, MakerOf, Sides
  <2> QED
    BY <2>1
<1> QED
  BY <1>1, <1>2 DEF Boxes, NoBox

LEMMA NamesKept ==
  ASSUME Named, UNCHANGED <<seen, opts>>
  PROVE  Named'
BY DEF Named

-----------------------------------------------------------------------------
(* What the invariant says of one side. *)
LEMMA Basics ==
  ASSUME NEW n \in [Sides -> Nat], NEW m \in [Sides -> Nat], NEW x \in Sides, Sync(n, m)
  PROVE  /\ opts \in Configs /\ opts[x] \in Options /\ opts[Peer(x)] \in Options
         /\ pc \in [Sides -> Places] /\ hs \in [Sides -> Sessions] /\ hs[x] \in Sessions
         /\ seen \in [Sides -> Names]
         /\ sent \in [Sides -> 0..MaxMessages] /\ sent[x] \in Nat
         /\ got \in [Sides -> Seq(Nat)] /\ got[x] \in Seq(Nat) /\ Len(got[x]) \in Nat
         /\ n[x] \in Nat /\ m[x] \in Nat
         /\ HandshakeLen(opts, x) \in Nat /\ HandshakeLen(opts, x) >= 3
         /\ HandshakeLen(opts, Peer(x)) \in Nat /\ HandshakeLen(opts, Peer(x)) >= 3
         /\ Place(opts, x, pc[x], hs[x], sent[x], got[x], n[x], m[x])
         /\ Learnt(opts, x, m[x]) /\ Learnt(opts, Peer(x), m[Peer(x)])
         /\ Boxes(m) /\ Named
<1>1. Peer(x) \in Sides
  BY Peers
<1>2. opts \in Configs /\ Types /\ Boxes(m) /\ Named
  BY DEF Sync, Types
<1>3. opts[x] \in Options /\ opts[Peer(x)] \in Options
  BY <1>1, <1>2, ConfigTypes
<1>4. /\ HandshakeLen(opts, x) \in Nat /\ HandshakeLen(opts, x) >= 3
      /\ HandshakeLen(opts, Peer(x)) \in Nat /\ HandshakeLen(opts, Peer(x)) >= 3
  BY <1>1, <1>2, Lengths
<1>5. At(x, n[x], m[x]) /\ At(Peer(x), n[Peer(x)], m[Peer(x)])
  BY <1>1 DEF Sync
<1>6. /\ pc \in [Sides -> Places] /\ hs \in [Sides -> Sessions] /\ hs[x] \in Sessions
      /\ seen \in [Sides -> Names]
      /\ sent \in [Sides -> 0..MaxMessages] /\ sent[x] \in Nat
      /\ got \in [Sides -> Seq(Nat)] /\ got[x] \in Seq(Nat) /\ Len(got[x]) \in Nat
  BY <1>2 DEF Types
<1>7. Learnt(opts, x, m[x]) /\ Learnt(opts, Peer(x), m[Peer(x)])
  BY <1>5 DEF At, Place
<1> QED
  BY <1>2, <1>3, <1>4, <1>5, <1>6, <1>7 DEF At

(* Nothing is learnt from the greeting. *)
LEMMA LearntOfGreeting ==
  ASSUME NEW o \in Configs, NEW x \in Sides, NEW k \in Nat, k < 3
  PROVE  Learnt(o, x, k)
<1>1. HandshakeLen(o, x) \in Nat /\ HandshakeLen(o, x) >= 3
  BY Lengths
<1>2. ~(k >= 3) /\ ~(k >= 4) /\ ~(k >= HandshakeLen(o, x))
  BY <1>1
<1> QED
  BY <1>2 DEF Learnt

LEMMA GreetingFrames ==
  ASSUME NEW o \in Configs, NEW x \in Sides
  PROVE  FrameOf(o, x, 1) = Prefix /\ FrameOf(o, x, 2) = GreetingTail
BY DEF FrameOf

(* A step to another place with the session h, everything else as it was. *)
LEMMA OnlyPlace ==
  ASSUME NEW n \in [Sides -> Nat], NEW m \in [Sides -> Nat], NEW x \in Sides, Sync(n, m),
         NEW p \in Places, Go(x, p), NoTraffic,
         hs' \in [Sides -> Sessions], hs'[Peer(x)] = hs[Peer(x)], seen' \in [Sides -> Names]
  PROVE  Only(x) /\ pc'[x] = p
<1>1. Peer(x) \in Sides /\ Peer(x) # x
  BY Peers
<1> QED
  BY <1>1, Basics DEF Only, Go, NoTraffic

LEMMA RefuseStep ==
  ASSUME NEW n \in [Sides -> Nat], NEW m \in [Sides -> Nat], NEW x \in Sides, Sync(n, m),
         wire[x] # <<>>, pc[x] # "done", Refuse(x)
  PROVE  IInv'
<1>1. WireStep(n, m, x, n[x] + 1, m[x])
  BY WireHear DEF Refuse
<1>2. hs \in [Sides -> Sessions] /\ seen \in [Sides -> Names] /\ n[x] \in Nat /\ m[x] \in Nat
  BY Basics
<1>3. Only(x) /\ pc'[x] = "failed"
  <2>1. "failed" \in Places
    BY DEF Places
  <2> QED
    BY <1>2, <2>1, OnlyPlace DEF Refuse
<1>4. Place(opts, x, pc'[x], hs'[x], sent'[x], got'[x], n[x] + 1, m[x])
  <2>1. Place(opts, x, pc[x], hs[x], sent[x], got[x], n[x], m[x])
    BY Basics
  <2>2. hs' = hs /\ sent' = sent /\ got' = got
    BY DEF Refuse, NoTraffic
  <2> QED
    BY <1>3, <2>1, <2>2 DEF Place, AtStart, AtCommands, AtDone
<1>5. Boxes([m EXCEPT ![x] = m[x]])'
  <2>1. NoBox /\ Boxes(m) /\ m[x] >= m[x]
    BY <1>2, Basics DEF Refuse
  <2> QED
    BY <1>2, <2>1, BoxesKept
<1>6. Named'
  BY Basics, NamesKept DEF Refuse, NoTraffic
<1>7. n[x] + 1 \in Nat
  BY <1>2
<1> QED
  BY <1>1, <1>2, <1>3, <1>4, <1>5, <1>6, <1>7, Advance

-----------------------------------------------------------------------------
(* The greeting. *)

LEMMA GreetStep ==
  ASSUME NEW n \in [Sides -> Nat], NEW m \in [Sides -> Nat], NEW x \in Sides, Sync(n, m),
         Greet(x)
  PROVE  IInv'
<1>1. /\ hs \in [Sides -> Sessions] /\ seen \in [Sides -> Names] /\ opts \in Configs
      /\ Place(opts, x, pc[x], hs[x], sent[x], got[x], n[x], m[x]) /\ Boxes(m) /\ Named
      /\ HandshakeLen(opts, x) \in Nat /\ HandshakeLen(opts, x) >= 3
  BY Basics
<1>2. pc[x] = "start" /\ n[x] = 0 /\ m[x] = 0
  BY <1>1 DEF Greet, Place, AtStart
<1>3. Prefix = FrameOf(opts, x, m[x] + 1)
  BY <1>1, <1>2, GreetingFrames
<1>4. WireStep(n, m, x, n[x], m[x] + 1)
  BY <1>3, WireSay DEF Greet
<1>5. Only(x) /\ pc'[x] = "prefix"
  <2>1. "prefix" \in Places
    BY DEF Places
  <2> QED
    BY <1>1, <2>1, OnlyPlace DEF Greet
<1>6. Place(opts, x, pc'[x], hs'[x], sent'[x], got'[x], n[x], m[x] + 1)
  <2>1. hs' = hs /\ sent' = sent /\ got' = got
    BY DEF Greet, NoTraffic
  <2>2. Learnt(opts, x, m[x] + 1)
    BY <1>1, <1>2, LearntOfGreeting
  <2> QED
    BY <1>1, <1>2, <1>5, <2>1, <2>2 DEF Place, AtStart, AtCommands, AtDone
<1>7. Boxes([m EXCEPT ![x] = m[x] + 1])'
  <2>1. NoBox /\ m[x] + 1 \in Nat /\ m[x] + 1 >= m[x]
    BY <1>2 DEF Greet
  <2> QED
    BY <1>1, <2>1, BoxesKept
<1>8. Named'
  BY <1>1, NamesKept DEF Greet, NoTraffic
<1>9. n[x] \in Nat /\ m[x] + 1 \in Nat
  BY <1>2
<1> QED
  BY <1>4, <1>5, <1>6, <1>7, <1>8, <1>9, Advance

(* A step to p that makes no box, names nobody and carries no message. *)
LEMMA QuietStep ==
  ASSUME NEW n \in [Sides -> Nat], NEW m \in [Sides -> Nat], NEW x \in Sides, Sync(n, m),
         NEW a \in Nat, NEW b \in Nat, b >= m[x],
         NEW p \in Places, Go(x, p), NoTraffic, NoBox, UNCHANGED seen,
         hs' \in [Sides -> Sessions], hs'[Peer(x)] = hs[Peer(x)],
         WireStep(n, m, x, a, b),
         Place(opts, x, p, hs'[x], sent[x], got[x], a, b)
  PROVE  IInv'
<1>1. seen' \in [Sides -> Names] /\ Boxes(m) /\ Named
  BY Basics
<1>2. Only(x) /\ pc'[x] = p
  BY <1>1, OnlyPlace
<1>3. Place(opts, x, pc'[x], hs'[x], sent'[x], got'[x], a, b)
  BY <1>2 DEF NoTraffic
<1>4. Boxes([m EXCEPT ![x] = b])'
  BY <1>1, BoxesKept
<1>5. Named'
  BY <1>1, NamesKept DEF NoTraffic
<1> QED
  BY <1>2, <1>3, <1>4, <1>5, Advance

LEMMA ReadPrefixStep ==
  ASSUME NEW n \in [Sides -> Nat], NEW m \in [Sides -> Nat], NEW x \in Sides, Sync(n, m),
         ReadPrefix(x)
  PROVE  IInv'
<1>1. /\ hs \in [Sides -> Sessions] /\ hs[x] \in Sessions /\ opts \in Configs
      /\ Place(opts, x, pc[x], hs[x], sent[x], got[x], n[x], m[x])
      /\ HandshakeLen(opts, x) \in Nat /\ HandshakeLen(opts, x) >= 3
  BY Basics
<1>2. pc[x] = "prefix" /\ wire[x] # <<>> /\ n[x] = 0 /\ m[x] = 1
  BY <1>1 DEF ReadPrefix, Heard, Place, AtStart
<1>3. /\ hs' \in [Sides -> Sessions] /\ hs'[Peer(x)] = hs[Peer(x)]
      /\ hs'[x] = [hs[x] EXCEPT !.greeted = TRUE] /\ hs'[x].greeted
      /\ hs'[x].send_nonce = hs[x].send_nonce /\ hs'[x].recv_nonce = hs[x].recv_nonce
      /\ hs'[x].session = hs[x].session /\ hs'[x].peer_ready = hs[x].peer_ready
  BY <1>1, Peers DEF ReadPrefix, Sessions
<1>4. WireStep(n, m, x, n[x] + 1, m[x] + 1)
  <2>1. GreetingTail = FrameOf(opts, x, m[x] + 1) /\ Answer(x, GreetingTail)
    BY <1>1, <1>2, GreetingFrames DEF ReadPrefix
  <2> QED
    BY <1>2, <2>1, WireAnswer
<1>5. Place(opts, x, "tail", hs'[x], sent[x], got[x], n[x] + 1, m[x] + 1)
  <2>1. Learnt(opts, x, m[x] + 1)
    BY <1>1, <1>2, LearntOfGreeting
  <2> QED
    BY <1>1, <1>2, <1>3, <2>1 DEF Place, AtStart, AtCommands, AtDone
<1>6. /\ Go(x, "tail") /\ NoTraffic /\ NoBox /\ UNCHANGED seen /\ "tail" \in Places
      /\ n[x] + 1 \in Nat /\ m[x] + 1 \in Nat /\ m[x] + 1 >= m[x]
  BY <1>2 DEF ReadPrefix, Places
<1> QED
  BY <1>3, <1>4, <1>5, <1>6, QuietStep

LEMMA PrefixTimeoutStep ==
  ASSUME NEW n \in [Sides -> Nat], NEW m \in [Sides -> Nat], NEW x \in Sides, Sync(n, m),
         PrefixTimeout(x)
  PROVE  IInv'
<1>1. /\ hs \in [Sides -> Sessions] /\ hs[x] \in Sessions /\ opts \in Configs
      /\ Place(opts, x, pc[x], hs[x], sent[x], got[x], n[x], m[x])
      /\ HandshakeLen(opts, x) \in Nat /\ HandshakeLen(opts, x) >= 3
  BY Basics
<1>2. x = "client" /\ pc[x] = "prefix" /\ n[x] = 0 /\ m[x] = 1 /\ UNCHANGED hs
  BY <1>1 DEF PrefixTimeout, Place, AtStart
<1>3. WireStep(n, m, x, n[x], m[x] + 1)
  BY <1>1, <1>2, GreetingFrames, WireSay DEF PrefixTimeout
<1>4. Place(opts, x, "mechanism", hs'[x], sent[x], got[x], n[x], m[x] + 1)
  <2>1. Learnt(opts, x, m[x] + 1)
    BY <1>1, <1>2, LearntOfGreeting
  <2> QED
    BY <1>1, <1>2, <2>1 DEF Place, AtStart, AtCommands, AtDone
<1>5. /\ Go(x, "mechanism") /\ NoTraffic /\ NoBox /\ UNCHANGED seen /\ "mechanism" \in Places
      /\ n[x] \in Nat /\ m[x] + 1 \in Nat /\ m[x] + 1 >= m[x]
  BY <1>2 DEF PrefixTimeout, Places
<1> QED
  BY <1>1, <1>2, <1>3, <1>4, <1>5, QuietStep

LEMMA ReadTailStep ==
  ASSUME NEW n \in [Sides -> Nat], NEW m \in [Sides -> Nat], NEW x \in Sides, Sync(n, m),
         ReadTail(x)
  PROVE  IInv'
<1>1. /\ hs \in [Sides -> Sessions] /\ hs[x] \in Sessions /\ opts \in Configs
      /\ Place(opts, x, pc[x], hs[x], sent[x], got[x], n[x], m[x])
      /\ HandshakeLen(opts, x) \in Nat /\ HandshakeLen(opts, x) >= 3
  BY Basics
<1>2. pc[x] = "tail" /\ wire[x] # <<>> /\ n[x] = 1 /\ m[x] = 2 /\ UNCHANGED hs
  BY <1>1 DEF ReadTail, Heard, Place, AtStart
<1>3. WireStep(n, m, x, n[x] + 1, m[x])
  BY <1>2, WireHear DEF ReadTail
<1>4. Place(opts, x, "mechanism", hs'[x], sent[x], got[x], n[x] + 1, m[x])
  BY <1>1, <1>2 DEF Place, AtStart, AtCommands, AtDone
<1>5. /\ Go(x, "mechanism") /\ NoTraffic /\ NoBox /\ UNCHANGED seen /\ "mechanism" \in Places
      /\ n[x] + 1 \in Nat /\ m[x] \in Nat /\ m[x] >= m[x]
  BY <1>2 DEF ReadTail, Places
<1> QED
  BY <1>1, <1>2, <1>3, <1>4, <1>5, QuietStep

(* A side of the mechanism NULL says READY without a question. *)
LEMMA NullReadyStep ==
  ASSUME NEW n \in [Sides -> Nat], NEW m \in [Sides -> Nat], NEW x \in Sides, Sync(n, m),
         NullReady(x)
  PROVE  IInv'
<1>1. /\ hs \in [Sides -> Sessions] /\ hs[x] \in Sessions /\ opts \in Configs
      /\ Place(opts, x, pc[x], hs[x], sent[x], got[x], n[x], m[x])
      /\ HandshakeLen(opts, Peer(x)) \in Nat /\ HandshakeLen(opts, Peer(x)) >= 3
  BY Basics
<1>2. /\ pc[x] = "mechanism" /\ Mechanism(opts[x]) = "NULL" /\ HandshakeLen(opts, x) = 3
      /\ UNCHANGED hs
  BY <1>1, LengthOf DEF NullReady
<1>3. /\ m[x] = 2 /\ n[x] \in Nat
      /\ \/ n[x] = 0 /\ ~hs[x].greeted
         \/ n[x] = 2 /\ hs[x].greeted
  BY <1>1, <1>2 DEF Place, AtStart, SameTokens, Sides
<1>4. Ready(x) = FrameOf(opts, x, m[x] + 1)
  BY <1>1, <1>2, <1>3 DEF Ready, FrameOf, CommandOf, Metadata
<1>5. WireStep(n, m, x, n[x], m[x] + 1)
  BY <1>4, WireSay DEF NullReady
<1>6. Place(opts, x, "done", hs'[x], sent[x], got[x], n[x], m[x] + 1)
  <2>1. Learnt(opts, x, m[x] + 1)
    BY <1>2, <1>3 DEF Learnt, Entitled
  <2>2. SessionOf(opts, x) = "none"
    BY <1>2 DEF SessionOf
  <2>3. AtDone(opts, x, "done", hs'[x], sent[x], got[x], n[x], m[x] + 1)
    BY <1>1, <1>2, <1>3, <2>2 DEF Place, AtDone
  <2>4. /\ AtStart(opts, x, "done", hs'[x], n[x], m[x] + 1)
        /\ AtCommands(opts, x, "done", hs'[x], n[x], m[x] + 1)
    BY DEF AtStart, AtCommands
  <2> QED
    BY <1>1, <1>2, <1>3, <2>1, <2>3, <2>4 DEF Place
<1>7. /\ Go(x, "done") /\ NoTraffic /\ NoBox /\ UNCHANGED seen /\ "done" \in Places
      /\ m[x] + 1 \in Nat /\ m[x] + 1 >= m[x]
  BY <1>3 DEF NullReady, Places
<1> QED
  BY <1>1, <1>2, <1>3, <1>5, <1>6, <1>7, QuietStep

-----------------------------------------------------------------------------
(* The frames, and what a reader can tell from one.  A command: *)

LEMMA NullFrame ==
  ASSUME NEW o \in Configs, NEW x \in Sides, NEW k \in Nat,
         k >= 3, k <= HandshakeLen(o, x), Mechanism(o[x]) = "NULL"
  PROVE  k = HandshakeLen(o, x) /\ FrameOf(o, x, k) = Frame("READY", "metadata", o[x].routing_id)
<1>1. HandshakeLen(o, x) = 3
  BY LengthOf
<1> QED
  BY <1>1 DEF FrameOf, CommandOf, Metadata

LEMMA PlainFrame ==
  ASSUME NEW o \in Configs, NEW x \in Sides, NEW k \in Nat,
         k >= 3, k <= HandshakeLen(o, x), Mechanism(o[x]) = "PLAIN"
  PROVE  /\ HandshakeLen(o, x) = 4 /\ k \in {3, 4}
         /\ x = "client" /\ k = 3 => FrameOf(o, x, k) =
              Frame("HELLO", "PLAIN", <<o[x].plain_username, o[x].plain_password>>)
         /\ x = "client" /\ k = 4 => FrameOf(o, x, k) =
              Frame("INITIATE", "metadata", o[x].routing_id)
         /\ x = "server" /\ k = 3 => FrameOf(o, x, k) = Frame("WELCOME", "PLAIN", <<>>)
         /\ x = "server" /\ k = 4 => FrameOf(o, x, k) =
              Frame("READY", "metadata", o[x].routing_id)
<1>1. HandshakeLen(o, x) = 4 /\ k \in {3, 4}
  BY LengthOf
<1>2. FrameOf(o, x, k) = PlainCommand(o, x, k)
  BY <1>1 DEF FrameOf, CommandOf
<1> QED
  BY <1>1, <1>2 DEF PlainCommand, Metadata

LEMMA CurveFrame ==
  ASSUME NEW o \in Configs, NEW x \in Sides, NEW k \in Nat,
         k >= 3, k <= HandshakeLen(o, x), Mechanism(o[x]) = "CURVE"
  PROVE  /\ HandshakeLen(o, x) = 4 /\ k \in {3, 4}
         /\ x = "client" /\ k = 3 => FrameOf(o, x, k) =
              Frame("HELLO", "CURVE",
                    [transient |-> "client", nonce |-> 1, box |-> HelloBox(o[x])])
         /\ x = "client" /\ k = 4 => FrameOf(o, x, k) =
              Frame("INITIATE", "CURVE",
                    [cookie |-> Cookie, nonce |-> 2, box |-> InitiateBox(o[x], "server", 2)])
         /\ x = "server" /\ k = 3 => FrameOf(o, x, k) =
              Frame("WELCOME", "CURVE", WelcomeBox(o[x], "client"))
         /\ x = "server" /\ k = 4 => FrameOf(o, x, k) =
              Frame("READY", "CURVE", [nonce |-> 1, box |-> ReadyBox(o[x], "client")])
<1>1. HandshakeLen(o, x) = 4 /\ k \in {3, 4}
  BY LengthOf
<1>2. FrameOf(o, x, k) = CurveCommand(o, x, k)
  BY <1>1 DEF FrameOf, CommandOf
<1> QED
  BY <1>1, <1>2 DEF CurveCommand

LEMMA GssFrame ==
  ASSUME NEW o \in Configs, NEW x \in Sides, NEW k \in Nat,
         k >= 3, k <= HandshakeLen(o, x), Mechanism(o[x]) = "GSSAPI"
  PROVE  /\ k = HandshakeLen(o, x) /\ GssSession(o[x]) = "none" =>
              FrameOf(o, x, k) = Frame("READY", "metadata", o[x].routing_id)
         /\ k = HandshakeLen(o, x) /\ GssSession(o[x]) # "none" =>
              FrameOf(o, x, k) = Frame("READY", "GSSAPI", o[x].routing_id)
         /\ k < HandshakeLen(o, x) /\ Placeholder(o[x]) =>
              FrameOf(o, x, k) = Frame("INITIATE", "principal", o[x].gssapi_principal)
         /\ k < HandshakeLen(o, x) /\ ~Placeholder(o[x]) => FrameOf(o, x, k) =
              Frame("INITIATE", "token", IF x = "client" THEN 2 * k - 5 ELSE 2 * k - 4)
<1>1. HandshakeLen(o, x) \in Nat
  BY Lengths
<1>2. FrameOf(o, x, k) = GssCommand(o, x, k)
  BY <1>1 DEF FrameOf, CommandOf
<1>3. k < HandshakeLen(o, x) => k # HandshakeLen(o, x)
  BY <1>1
<1> QED
  BY <1>2, <1>3 DEF GssCommand, Metadata, Token

LEMMA PlainFrames ==
  ASSUME NEW o \in Configs, NEW x \in Sides, Mechanism(o[x]) = "PLAIN"
  PROVE  /\ x = "client" => FrameOf(o, x, 3) =
              Frame("HELLO", "PLAIN", <<o[x].plain_username, o[x].plain_password>>)
         /\ x = "client" => FrameOf(o, x, 4) = Frame("INITIATE", "metadata", o[x].routing_id)
         /\ x = "server" => FrameOf(o, x, 3) = Frame("WELCOME", "PLAIN", <<>>)
         /\ x = "server" => FrameOf(o, x, 4) = Frame("READY", "metadata", o[x].routing_id)
<1>1. HandshakeLen(o, x) = 4
  BY LengthOf
<1>2. FrameOf(o, x, 3) = PlainCommand(o, x, 3) /\ FrameOf(o, x, 4) = PlainCommand(o, x, 4)
  BY <1>1 DEF FrameOf, CommandOf
<1> QED
  BY <1>2 DEF PlainCommand, Metadata

LEMMA CurveFrames ==
  ASSUME NEW o \in Configs, NEW x \in Sides, Mechanism(o[x]) = "CURVE"
  PROVE  /\ x = "client" => FrameOf(o, x, 3) =
              Frame("HELLO", "CURVE",
                    [transient |-> "client", nonce |-> 1, box |-> HelloBox(o[x])])
         /\ x = "client" => FrameOf(o, x, 4) =
              Frame("INITIATE", "CURVE",
                    [cookie |-> Cookie, nonce |-> 2, box |-> InitiateBox(o[x], "server", 2)])
         /\ x = "server" => FrameOf(o, x, 3) =
              Frame("WELCOME", "CURVE", WelcomeBox(o[x], "client"))
         /\ x = "server" => FrameOf(o, x, 4) =
              Frame("READY", "CURVE", [nonce |-> 1, box |-> ReadyBox(o[x], "client")])
<1>1. HandshakeLen(o, x) = 4
  BY LengthOf
<1>2. FrameOf(o, x, 3) = CurveCommand(o, x, 3) /\ FrameOf(o, x, 4) = CurveCommand(o, x, 4)
  BY <1>1 DEF FrameOf, CommandOf
<1> QED
  BY <1>2 DEF CurveCommand

(* ... or a message. *)
LEMMA MessageFrame ==
  ASSUME NEW o \in Configs, NEW x \in Sides, NEW k \in Nat, k > HandshakeLen(o, x)
  PROVE  /\ FrameOf(o, x, k) = MessageOf(o, x, k - HandshakeLen(o, x))
         /\ FrameOf(o, x, k).cmd \in {"MESSAGE", "message"}
<1>1. HandshakeLen(o, x) \in Nat /\ HandshakeLen(o, x) >= 3
  BY Lengths
<1>2. FrameOf(o, x, k) = MessageOf(o, x, k - HandshakeLen(o, x))
  BY <1>1 DEF FrameOf
<1> QED
  BY <1>2 DEF MessageOf, Frame

(* A command is one of a mechanism. *)
LEMMA CommandIs ==
  ASSUME NEW o \in Configs, NEW x \in Sides, NEW k \in Nat, k > 0,
         FrameOf(o, x, k).cmd \in {"HELLO", "WELCOME", "INITIATE", "READY"}
  PROVE  k >= 3 /\ k <= HandshakeLen(o, x)
<1>1. HandshakeLen(o, x) \in Nat
  BY Lengths
<1>2. k # 1 /\ k # 2
  BY GreetingFrames DEF Prefix, GreetingTail, Frame
<1>3. ~(k > HandshakeLen(o, x))
  BY MessageFrame
<1> QED
  BY <1>1, <1>2, <1>3

(* HELLO is the client's, of PLAIN or of CURVE. *)
LEMMA HelloIs ==
  ASSUME NEW o \in Configs, NEW x \in Sides, NEW k \in Nat, k > 0,
         FrameOf(o, x, k).cmd = "HELLO"
  PROVE  /\ x = "client" /\ k = 3 /\ Mechanism(o[x]) \in {"PLAIN", "CURVE"}
         /\ FrameOf(o, x, k).format = Mechanism(o[x])
<1>1. k >= 3 /\ k <= HandshakeLen(o, x)
  BY CommandIs
<1>2. CASE Mechanism(o[x]) = "NULL"
  BY <1>1, <1>2, NullFrame DEF Frame
<1>3. CASE Mechanism(o[x]) = "PLAIN"
  BY <1>1, <1>3, PlainFrame DEF Frame, Sides
<1>4. CASE Mechanism(o[x]) = "CURVE"
  BY <1>1, <1>4, CurveFrame DEF Frame, Sides
<1>5. CASE Mechanism(o[x]) = "GSSAPI"
  BY <1>1, <1>5, GssFrame, Lengths DEF Frame
<1> QED
  BY <1>2, <1>3, <1>4, <1>5, Mechanisms

(* WELCOME is the server's, of PLAIN or of CURVE. *)
LEMMA WelcomeIs ==
  ASSUME NEW o \in Configs, NEW x \in Sides, NEW k \in Nat, k > 0,
         FrameOf(o, x, k).cmd = "WELCOME"
  PROVE  /\ x = "server" /\ k = 3 /\ Mechanism(o[x]) \in {"PLAIN", "CURVE"}
         /\ FrameOf(o, x, k).format = Mechanism(o[x])
<1>1. k >= 3 /\ k <= HandshakeLen(o, x)
  BY CommandIs
<1>2. CASE Mechanism(o[x]) = "NULL"
  BY <1>1, <1>2, NullFrame DEF Frame
<1>3. CASE Mechanism(o[x]) = "PLAIN"
  BY <1>1, <1>3, PlainFrame DEF Frame, Sides
<1>4. CASE Mechanism(o[x]) = "CURVE"
  BY <1>1, <1>4, CurveFrame DEF Frame, Sides
<1>5. CASE Mechanism(o[x]) = "GSSAPI"
  BY <1>1, <1>5, GssFrame, Lengths DEF Frame
<1> QED
  BY <1>2, <1>3, <1>4, <1>5, Mechanisms

(* INITIATE is the client's, of PLAIN or of CURVE, or anybody's of GSSAPI. *)
LEMMA InitiateIs ==
  ASSUME NEW o \in Configs, NEW x \in Sides, NEW k \in Nat, k > 0,
         FrameOf(o, x, k).cmd = "INITIATE"
  PROVE  LET f == FrameOf(o, x, k) IN
         \/ Mechanism(o[x]) = "PLAIN" /\ x = "client" /\ k = 4 /\ f.format = "metadata"
         \/ Mechanism(o[x]) = "CURVE" /\ x = "client" /\ k = 4 /\ f.format = "CURVE"
         \/ /\ Mechanism(o[x]) = "GSSAPI" /\ k >= 3 /\ k < HandshakeLen(o, x)
            /\ f.format = IF Placeholder(o[x]) THEN "principal" ELSE "token"
<1>1. k >= 3 /\ k <= HandshakeLen(o, x)
  BY CommandIs
<1>2. CASE Mechanism(o[x]) = "NULL"
  BY <1>1, <1>2, NullFrame DEF Frame
<1>3. CASE Mechanism(o[x]) = "PLAIN"
  BY <1>1, <1>3, PlainFrame DEF Frame, Sides
<1>4. CASE Mechanism(o[x]) = "CURVE"
  BY <1>1, <1>4, CurveFrame DEF Frame, Sides
<1>5. CASE Mechanism(o[x]) = "GSSAPI"
  BY <1>1, <1>5, GssFrame, Lengths DEF Frame
<1> QED
  BY <1>2, <1>3, <1>4, <1>5, Mechanisms

(* READY is the last command. *)
LEMMA ReadyIs ==
  ASSUME NEW o \in Configs, NEW x \in Sides, NEW k \in Nat, k > 0,
         FrameOf(o, x, k).cmd = "READY"
  PROVE  LET f == FrameOf(o, x, k) IN
         /\ k = HandshakeLen(o, x)
         /\ \/ Mechanism(o[x]) = "NULL" /\ f = Frame("READY", "metadata", o[x].routing_id)
            \/ /\ Mechanism(o[x]) = "PLAIN" /\ x = "server"
               /\ f = Frame("READY", "metadata", o[x].routing_id)
            \/ Mechanism(o[x]) = "CURVE" /\ x = "server" /\ f.format = "CURVE"
            \/ /\ Mechanism(o[x]) = "GSSAPI" /\ GssSession(o[x]) = "none"
               /\ f = Frame("READY", "metadata", o[x].routing_id)
            \/ /\ Mechanism(o[x]) = "GSSAPI" /\ GssSession(o[x]) # "none"
               /\ f = Frame("READY", "GSSAPI", o[x].routing_id)
<1>1. k >= 3 /\ k <= HandshakeLen(o, x)
  BY CommandIs
<1>2. CASE Mechanism(o[x]) = "NULL"
  BY <1>1, <1>2, NullFrame DEF Frame
<1>3. CASE Mechanism(o[x]) = "PLAIN"
  BY <1>1, <1>3, PlainFrame DEF Frame, Sides
<1>4. CASE Mechanism(o[x]) = "CURVE"
  BY <1>1, <1>4, CurveFrame DEF Frame, Sides
<1>5. CASE Mechanism(o[x]) = "GSSAPI"
  <2>1. HandshakeLen(o, x) \in Nat
    BY Lengths
  <2>2. k = HandshakeLen(o, x)
    BY <1>1, <1>5, <2>1, GssFrame DEF Frame
  <2> QED
    BY <1>1, <1>5, <2>2, GssFrame DEF Frame
<1> QED
  BY <1>2, <1>3, <1>4, <1>5, Mechanisms

-----------------------------------------------------------------------------
(* A step to p that carries no message. *)
LEMMA CommandStep ==
  ASSUME NEW n \in [Sides -> Nat], NEW m \in [Sides -> Nat], NEW x \in Sides, Sync(n, m),
         NEW a \in Nat, NEW b \in Nat,
         NEW p \in Places, Go(x, p), NoTraffic, seen' \in [Sides -> Names], Named',
         hs' \in [Sides -> Sessions], hs'[Peer(x)] = hs[Peer(x)],
         WireStep(n, m, x, a, b), Boxes([m EXCEPT ![x] = b])',
         Place(opts, x, p, hs'[x], sent[x], got[x], a, b)
  PROVE  IInv'
<1>1. Only(x) /\ pc'[x] = p
  BY OnlyPlace
<1>2. Place(opts, x, pc'[x], hs'[x], sent'[x], got'[x], a, b)
  BY <1>1 DEF NoTraffic
<1> QED
  BY <1>1, <1>2, Advance

(* x has read the name of its peer. *)
LEMMA NamedNow ==
  ASSUME NEW n \in [Sides -> Nat], NEW m \in [Sides -> Nat], NEW x \in Sides, Sync(n, m),
         seen' = [seen EXCEPT ![x] = opts[Peer(x)].routing_id], UNCHANGED opts
  PROVE  seen' \in [Sides -> Names] /\ Named'
<1>1. seen \in [Sides -> Names] /\ Named /\ opts[Peer(x)] \in Options
  BY Basics
<1>2. opts[Peer(x)].routing_id \in Names
  BY <1>1 DEF Options, Names
<1> QED
  BY <1>1, <1>2 DEF Named

(* The server of a mechanism other than GSSAPI waits for the first command. *)
LEMMA ServerWaits ==
  ASSUME NEW n \in [Sides -> Nat], NEW m \in [Sides -> Nat], Sync(n, m),
         pc["server"] = "mechanism", Mechanism(opts["server"]) # "GSSAPI"
  PROVE  /\ n["server"] = 2 /\ m["server"] = 2 /\ hs["server"].greeted
         /\ hs["server"].send_nonce = 1 /\ hs["server"].recv_nonce = 0
<1>1. "server" \in Sides
  BY DEF Sides
<1> QED
  <2>1. Place(opts, "server", pc["server"], hs["server"], sent["server"], got["server"],
              n["server"], m["server"])
    BY <1>1, Basics
  <2> QED
    BY <2>1 DEF Place, AtStart, SameTokens

LEMMA ClientWaits ==
  ASSUME NEW n \in [Sides -> Nat], NEW m \in [Sides -> Nat], Sync(n, m),
         pc["client"] = "mechanism"
  PROVE  /\ m["client"] = 2 /\ n["client"] = IF hs["client"].greeted THEN 2 ELSE 0
         /\ hs["client"].send_nonce = 1 /\ hs["client"].recv_nonce = 0
<1>1. "client" \in Sides
  BY DEF Sides
<1>2. Place(opts, "client", pc["client"], hs["client"], sent["client"], got["client"],
            n["client"], m["client"])
  BY <1>1, Basics
<1> QED
  BY <1>2 DEF Place, AtStart

-----------------------------------------------------------------------------
(* PLAIN *)

LEMMA PlainHelloStep ==
  ASSUME NEW n \in [Sides -> Nat], NEW m \in [Sides -> Nat], Sync(n, m), PlainHello
  PROVE  IInv'
<1> DEFINE x == "client"
<1>1. /\ x \in Sides /\ hs \in [Sides -> Sessions] /\ hs[x] \in Sessions /\ opts \in Configs
      /\ Place(opts, x, pc[x], hs[x], sent[x], got[x], n[x], m[x])
  BY Basics DEF Sides
<1>2. /\ pc[x] = "mechanism" /\ Mechanism(opts[x]) = "PLAIN" /\ UNCHANGED hs
      /\ m[x] = 2 /\ m[x] + 1 = 3 /\ n[x] = IF hs[x].greeted THEN 2 ELSE 0
  BY ClientWaits DEF PlainHello
<1>3. HandshakeLen(opts, x) = 4
  BY <1>1, <1>2, LengthOf
<1> DEFINE f == Frame("HELLO", "PLAIN", <<opts[x].plain_username, opts[x].plain_password>>)
<1>4. f = FrameOf(opts, x, m[x] + 1)
  BY <1>1, <1>2, <1>3, PlainFrames
<1>5. WireStep(n, m, x, n[x], m[x] + 1)
  <2>1. Say(x, f)
    BY DEF PlainHello
  <2> QED
    BY <1>1, <1>4, <2>1, WireSay
<1>6. Place(opts, x, "welcome", hs'[x], sent[x], got[x], n[x], m[x] + 1)
  <2>1. Learnt(opts, x, m[x] + 1)
    BY <1>2, <1>3 DEF Learnt
  <2> QED
    BY <1>1, <1>2, <1>3, <2>1 DEF Place, AtStart, AtCommands, AtDone
<1>7. /\ Go(x, "welcome") /\ NoTraffic /\ NoBox /\ UNCHANGED seen /\ "welcome" \in Places
      /\ n[x] \in Nat /\ m[x] + 1 \in Nat /\ m[x] + 1 >= m[x]
  BY <1>2 DEF PlainHello, Places
<1> QED
  BY <1>1, <1>2, <1>5, <1>6, <1>7, QuietStep

(* The server looks at the credentials before it answers. *)
LEMMA PlainServerHelloStep ==
  ASSUME NEW n \in [Sides -> Nat], NEW m \in [Sides -> Nat], Sync(n, m), PlainServerHello
  PROVE  IInv'
<1> DEFINE x == "server"
           f == Head(wire[x])
<1>1. /\ x \in Sides /\ hs \in [Sides -> Sessions] /\ hs[x] \in Sessions /\ opts \in Configs
      /\ Place(opts, x, pc[x], hs[x], sent[x], got[x], n[x], m[x])
  BY Basics DEF Sides
<1>2. /\ pc[x] = "mechanism" /\ wire[x] # <<>> /\ Mechanism(opts[x]) = "PLAIN"
      /\ n[x] = 2 /\ m[x] = 2 /\ n[x] + 1 = 3 /\ m[x] + 1 = 3 /\ hs[x].greeted
  BY ServerWaits DEF PlainServerHello, Heard
<1>3. CASE Refuse(x)
  BY <1>1, <1>2, <1>3, RefuseStep
<1>4. CASE ~Refuse(x)
  <2>1. /\ Is(f, "HELLO", "PLAIN") /\ Authorize(opts[x], "PLAIN", f.body)
        /\ Go(x, "initiate") /\ Answer(x, Frame("WELCOME", "PLAIN", <<>>))
        /\ UNCHANGED <<hs, seen>> /\ NoBox /\ NoTraffic
    BY <1>4 DEF PlainServerHello
  <2>2. f = FrameOf(opts, "client", 3)
    BY <1>1, <1>2, HeadIs, Peers
  <2>3. /\ Mechanism(opts["client"]) = "PLAIN"
        /\ f.body = <<opts["client"].plain_username, opts["client"].plain_password>>
    <3>1. "client" \in Sides /\ f.cmd = "HELLO" /\ f.format = "PLAIN"
      BY <2>1 DEF Is, Sides
    <3>2. Mechanism(opts["client"]) = "PLAIN"
      BY <1>1, <2>2, <3>1, HelloIs
    <3>3. HandshakeLen(opts, "client") = 4
      BY <1>1, <3>1, <3>2, LengthOf
    <3> QED
      BY <1>1, <2>2, <3>1, <3>2, <3>3, PlainFrames DEF Frame
  <2>4. HandshakeLen(opts, x) = 4
    BY <1>1, <1>2, LengthOf
  <2>5. WireStep(n, m, x, n[x] + 1, m[x] + 1)
    <3>1. Frame("WELCOME", "PLAIN", <<>>) = FrameOf(opts, x, m[x] + 1)
      <4>1. FrameOf(opts, x, 3) = Frame("WELCOME", "PLAIN", <<>>)
        BY <1>1, <1>2, <2>4, PlainFrames
      <4> QED
        BY <4>1, <1>2
    <3> QED
      BY <1>1, <1>2, <2>1, <3>1, WireAnswer
  <2>6. Place(opts, x, "initiate", hs'[x], sent[x], got[x], n[x] + 1, m[x] + 1)
    <3>1. Admitted(opts)
      BY <1>2, <2>1, <2>3 DEF Admitted
    <3>2. Learnt(opts, x, m[x] + 1)
      BY <1>2, <2>4, <3>1 DEF Learnt
    <3> QED
      BY <1>1, <1>2, <2>1, <2>4, <3>2 DEF Place, AtStart, AtCommands, AtDone
  <2>7. /\ "initiate" \in Places
        /\ n[x] + 1 \in Nat /\ m[x] + 1 \in Nat /\ m[x] + 1 >= m[x]
    BY <1>2 DEF Places
  <2> QED
    BY <1>1, <2>1, <2>5, <2>6, <2>7, QuietStep
<1> QED
  BY <1>3, <1>4

(* Only a server of PLAIN says WELCOME to a client of PLAIN. *)
LEMMA PlainWelcomeStep ==
  ASSUME NEW n \in [Sides -> Nat], NEW m \in [Sides -> Nat], Sync(n, m), PlainWelcome
  PROVE  IInv'
<1> DEFINE x == "client"
           f == Head(wire[x])
<1>1. /\ x \in Sides /\ "server" \in Sides /\ Peer(x) = "server"
      /\ hs \in [Sides -> Sessions] /\ hs[x] \in Sessions /\ opts \in Configs
      /\ Place(opts, x, pc[x], hs[x], sent[x], got[x], n[x], m[x])
      /\ n[x] \in Nat /\ m["server"] \in Nat /\ Learnt(opts, "server", m["server"])
  BY Basics, Peers DEF Sides
<1>2. /\ pc[x] = "welcome" /\ wire[x] # <<>> /\ Mechanism(opts[x]) = "PLAIN" /\ m[x] = 3
      /\ m[x] + 1 = 4 /\ n[x] = IF hs[x].greeted THEN 2 ELSE 0
  BY <1>1 DEF PlainWelcome, Heard, Place, AtCommands
<1>3. CASE Refuse(x)
  BY <1>1, <1>2, <1>3, RefuseStep
<1>4. CASE ~Refuse(x)
  <2>1. /\ f.cmd = "WELCOME" /\ Go(x, "done")
        /\ Answer(x, Frame("INITIATE", "metadata", opts[x].routing_id))
        /\ UNCHANGED <<hs, seen>> /\ NoBox /\ NoTraffic
    BY <1>4 DEF PlainWelcome
  <2>2. f = FrameOf(opts, "server", n[x] + 1) /\ n[x] + 1 <= m["server"]
    BY <1>1, <1>2, HeadIs
  <2>3. n[x] + 1 = 3 /\ Mechanism(opts["server"]) \in {"PLAIN", "CURVE"}
    <3>1. n[x] + 1 \in Nat /\ n[x] + 1 > 0
      BY <1>1
    <3> QED
      BY <1>1, <2>1, <2>2, <3>1, WelcomeIs
  <2>4. hs[x].greeted /\ n[x] = 2
    BY <1>2, <2>3
  <2>5. Mechanism(opts["server"]) = "PLAIN"
    <3>1. m["server"] >= 3
      BY <1>1, <2>2, <2>3
    <3>2. Admitted(opts)
      BY <1>1, <2>3, <3>1 DEF Learnt
    <3> QED
      BY <1>2, <3>2 DEF Admitted
  <2>6. HandshakeLen(opts, x) = 4 /\ HandshakeLen(opts, "server") = 4
    BY <1>1, <1>2, <2>5, LengthOf
  <2>7. WireStep(n, m, x, n[x] + 1, m[x] + 1)
    <3>1. Frame("INITIATE", "metadata", opts[x].routing_id) = FrameOf(opts, x, m[x] + 1)
      <4>1. FrameOf(opts, x, 4) = Frame("INITIATE", "metadata", opts[x].routing_id)
        BY <1>1, <1>2, <2>6, PlainFrames
      <4> QED
        BY <4>1, <1>2
    <3> QED
      BY <1>1, <1>2, <2>1, <3>1, WireAnswer
  <2>8. Place(opts, x, "done", hs'[x], sent[x], got[x], n[x] + 1, m[x] + 1)
    <3>1. Learnt(opts, x, m[x] + 1)
      BY <1>2, <2>5, <2>6 DEF Learnt, Compatible
    <3>2. SessionOf(opts, x) = "none"
      BY <1>2 DEF SessionOf
    <3>3. AtDone(opts, x, "done", hs'[x], sent[x], got[x], n[x] + 1, m[x] + 1)
      BY <1>1, <1>2, <2>1, <2>4, <2>6, <3>2 DEF Place, AtDone
    <3> QED
      BY <1>1, <1>2, <2>1, <2>6, <3>1, <3>3 DEF Place, AtStart, AtCommands
  <2>9. /\ "done" \in Places
        /\ n[x] + 1 \in Nat /\ m[x] + 1 \in Nat /\ m[x] + 1 >= m[x]
    BY <1>1, <1>2 DEF Places
  <2> QED
    BY <1>1, <2>1, <2>7, <2>8, <2>9, QuietStep
<1> QED
  BY <1>3, <1>4

LEMMA PlainServerInitiateStep ==
  ASSUME NEW n \in [Sides -> Nat], NEW m \in [Sides -> Nat], Sync(n, m), PlainServerInitiate
  PROVE  IInv'
<1> DEFINE x == "server"
           f == Head(wire[x])
<1>1. /\ x \in Sides /\ "client" \in Sides /\ Peer(x) = "client"
      /\ hs \in [Sides -> Sessions] /\ hs[x] \in Sessions /\ opts \in Configs
      /\ Place(opts, x, pc[x], hs[x], sent[x], got[x], n[x], m[x])
      /\ Learnt(opts, x, m[x]) /\ Boxes(m)
  BY Basics, Peers DEF Sides
<1>2. /\ pc[x] = "initiate" /\ wire[x] # <<>> /\ Mechanism(opts[x]) = "PLAIN"
      /\ n[x] = 3 /\ m[x] = 3 /\ n[x] + 1 = 4 /\ m[x] + 1 = 4 /\ hs[x].greeted
  BY <1>1 DEF PlainServerInitiate, Heard, Place, AtCommands
<1>3. CASE Refuse(x)
  BY <1>1, <1>2, <1>3, RefuseStep
<1>4. CASE ~Refuse(x)
  <2>1. /\ Is(f, "INITIATE", "metadata") /\ Go(x, "done")
        /\ hs' = [hs EXCEPT ![x].peer_ready = TRUE]
        /\ seen' = [seen EXCEPT ![x] = f.body]
        /\ Answer(x, Ready(x)) /\ NoBox /\ NoTraffic
    BY <1>4 DEF PlainServerInitiate
  <2>2. Admitted(opts) /\ Mechanism(opts["client"]) = "PLAIN"
    BY <1>1, <1>2 DEF Learnt, Admitted
  <2>3. HandshakeLen(opts, x) = 4 /\ HandshakeLen(opts, "client") = 4
    BY <1>1, <1>2, <2>2, LengthOf
  <2>4. f = FrameOf(opts, "client", 4)
    BY <1>1, <1>2, HeadIs
  <2>5. f.body = opts["client"].routing_id
    BY <1>1, <2>2, <2>3, <2>4, PlainFrames DEF Frame
  <2>6. WireStep(n, m, x, n[x] + 1, m[x] + 1)
    <3>1. Ready(x) = FrameOf(opts, x, m[x] + 1)
      <4>1. FrameOf(opts, x, 4) = Frame("READY", "metadata", opts[x].routing_id)
        BY <1>1, <1>2, <2>3, PlainFrames
      <4> QED
        BY <4>1, <1>2 DEF Ready
    <3> QED
      BY <1>1, <1>2, <2>1, <3>1, WireAnswer
  <2>7. /\ hs' \in [Sides -> Sessions] /\ hs'["client"] = hs["client"]
        /\ hs'[x].peer_ready /\ hs'[x].greeted
        /\ hs'[x].send_nonce = hs[x].send_nonce /\ hs'[x].session = hs[x].session
    BY <1>1, <1>2, <2>1 DEF Sessions
  <2>8. Place(opts, x, "done", hs'[x], sent[x], got[x], n[x] + 1, m[x] + 1)
    <3>1. Entitled(opts["client"], opts[x])
      BY <1>2, <2>2 DEF Entitled, Admitted, Authorize, AuthorizeLocally
    <3>2. Learnt(opts, x, m[x] + 1)
      BY <1>2, <2>2, <2>3, <3>1 DEF Learnt, Compatible
    <3>3. SessionOf(opts, x) = "none" /\ SessionOf(opts, "client") = "none"
      BY <1>2, <2>2 DEF SessionOf
    <3>4. AtDone(opts, x, "done", hs'[x], sent[x], got[x], n[x] + 1, m[x] + 1)
      BY <1>1, <1>2, <2>3, <2>7, <3>3 DEF Place, AtDone
    <3> QED
      BY <1>1, <1>2, <2>3, <2>7, <3>2, <3>4 DEF Place, AtStart, AtCommands
  <2>9. seen' \in [Sides -> Names] /\ Named'
    BY <1>1, <2>1, <2>5, NamedNow DEF NoTraffic
  <2>10. /\ "done" \in Places
         /\ n[x] + 1 \in Nat /\ m[x] + 1 \in Nat /\ m[x] + 1 >= m[x]
    BY <1>2 DEF Places
  <2>11. Boxes([m EXCEPT ![x] = m[x] + 1])'
    BY <1>1, <2>1, <2>10, BoxesKept
  <2> QED
    BY <1>1, <2>1, <2>6, <2>7, <2>8, <2>9, <2>10, <2>11, CommandStep
<1> QED
  BY <1>3, <1>4

-----------------------------------------------------------------------------
(* CURVE.  A box made for the frame that x writes next is a new one. *)

LEMMA BoxIsNew ==
  ASSUME NEW m \in [Sides -> Nat], NEW x \in Sides, NEW u, Boxes(m),
         MakerOf(u[2]) = x, MadeFor(u[2]) = m[x] + 1
  PROVE  u \notin used
<1>1. m[x] \in Nat
  OBVIOUS
<1> QED
  BY <1>1 DEF Boxes

LEMMA BoxMade ==
  ASSUME NEW m \in [Sides -> Nat], NEW x \in Sides, NEW u, Boxes(m), Made(1, {u}),
         MakerOf(u[2]) = x, MadeFor(u[2]) = m[x] + 1
  PROVE  Boxes([m EXCEPT ![x] = m[x] + 1])'
<1>1. u \notin used /\ IsFiniteSet(used) /\ made = Cardinality(used)
  BY BoxIsNew DEF Boxes
<1>2. used' = used \cup {u} /\ made' = made + 1
  BY DEF Made
<1>3. IsFiniteSet(used') /\ Cardinality(used') = Cardinality(used) + 1
  BY <1>1, <1>2, FS_AddElement
<1>4. ASSUME NEW v \in used'
      PROVE  MadeFor(v[2]) \in 0..[m EXCEPT ![x] = m[x] + 1][MakerOf(v[2])]
  <2>1. MakerOf(v[2]) \in Sides /\ m[x] \in Nat
    BY DEF MakerOf, Sides
  <2>2. CASE v = u
    BY <2>1, <2>2
  <2>3. CASE v \in used
    BY <2>1, <2>3 DEF Boxes
  <2> QED
    BY <1>2, <2>2, <2>3
<1> QED
  BY <1>1, <1>2, <1>3, <1>4 DEF Boxes

LEMMA TwoBoxesMade ==
  ASSUME NEW m \in [Sides -> Nat], NEW x \in Sides, NEW u, NEW w, Boxes(m), Made(2, {u, w}),
         u # w,
         MakerOf(u[2]) = x, MadeFor(u[2]) = m[x] + 1,
         MakerOf(w[2]) = x, MadeFor(w[2]) = m[x] + 1
  PROVE  Boxes([m EXCEPT ![x] = m[x] + 1])'
<1>1. u \notin used /\ w \notin used /\ IsFiniteSet(used) /\ made = Cardinality(used)
  BY BoxIsNew DEF Boxes
<1>2. used' = (used \cup {u}) \cup {w} /\ made' = made + 2
  BY DEF Made
<1>3. IsFiniteSet(used \cup {u}) /\ Cardinality(used \cup {u}) = Cardinality(used) + 1
  BY <1>1, FS_AddElement
<1>4. w \notin used \cup {u}
  BY <1>1
<1>5. IsFiniteSet(used') /\ Cardinality(used') = Cardinality(used \cup {u}) + 1
  BY <1>2, <1>3, <1>4, FS_AddElement
<1>6. Cardinality(used') = made'
  <2>1. Cardinality(used) \in Nat
    BY <1>1, FS_CardinalityType
  <2> QED
    BY <1>1, <1>2, <1>3, <1>5, <2>1
<1>7. ASSUME NEW v \in used'
      PROVE  MadeFor(v[2]) \in 0..[m EXCEPT ![x] = m[x] + 1][MakerOf(v[2])]
  <2>1. MakerOf(v[2]) \in Sides /\ m[x] \in Nat
    BY DEF MakerOf, Sides
  <2>2. CASE v = u \/ v = w
    BY <2>1, <2>2
  <2>3. CASE v \in used
    BY <2>1, <2>3 DEF Boxes
  <2> QED
    BY <1>2, <2>2, <2>3
<1> QED
  BY <1>5, <1>6, <1>7 DEF Boxes

LEMMA Seals ==
  ASSUME NEW plain, NEW nonce, NEW public, NEW secret
  PROVE  /\ Seal(Box(plain, nonce, public, secret)) = <<{public, secret}, nonce>>
         /\ Seal(Box(plain, nonce, public, secret))[2] = nonce
BY DEF Seal, Box

(* The session after x has used a nonce. *)
LEMMA SendNonceSet ==
  ASSUME NEW h \in Sessions, NEW k \in Nat, k > 0
  PROVE  /\ [h EXCEPT !.send_nonce = k] \in Sessions
         /\ [h EXCEPT !.send_nonce = k].send_nonce = k
         /\ [h EXCEPT !.send_nonce = k].recv_nonce = h.recv_nonce
         /\ [h EXCEPT !.send_nonce = k].peer_transient = h.peer_transient
         /\ [h EXCEPT !.send_nonce = k].greeted = h.greeted
         /\ [h EXCEPT !.send_nonce = k].peer_ready = h.peer_ready
         /\ [h EXCEPT !.send_nonce = k].session = h.session
BY DEF Sessions

LEMMA CurveHelloStep ==
  ASSUME NEW n \in [Sides -> Nat], NEW m \in [Sides -> Nat], Sync(n, m), CurveHello
  PROVE  IInv'
<1> DEFINE x == "client"
           box == HelloBox(opts[x])
           f == Frame("HELLO", "CURVE", [transient |-> x, nonce |-> 1, box |-> box])
<1>1. /\ x \in Sides /\ "server" \in Sides /\ Peer(x) = "server"
      /\ hs \in [Sides -> Sessions] /\ hs[x] \in Sessions /\ opts \in Configs
      /\ Place(opts, x, pc[x], hs[x], sent[x], got[x], n[x], m[x])
      /\ Boxes(m) /\ Named /\ seen \in [Sides -> Names]
  BY Basics, Peers DEF Sides
<1>2. /\ pc[x] = "mechanism" /\ Mechanism(opts[x]) = "CURVE" /\ UNCHANGED seen /\ NoTraffic
      /\ m[x] = 2 /\ m[x] + 1 = 3 /\ n[x] = IF hs[x].greeted THEN 2 ELSE 0
      /\ hs[x].send_nonce = 1 /\ hs[x].recv_nonce = 0
  <2>1. /\ pc[x] = "mechanism" /\ Mechanism(opts[x]) = "CURVE" /\ UNCHANGED seen
        /\ NoTraffic
    BY DEF CurveHello
  <2> QED
    BY <2>1, ClientWaits
<1>3. HandshakeLen(opts, x) = 4
  BY <1>1, <1>2, LengthOf
<1>4. CASE Go(x, "failed") /\ UNCHANGED <<wire, hs>> /\ NoBox
  <2>1. WireStep(n, m, x, n[x], m[x])
    BY <1>1, <1>4, WireSame
  <2>2. Place(opts, x, "failed", hs'[x], sent[x], got[x], n[x], m[x])
    BY <1>1, <1>2, <1>4 DEF Place, AtStart, AtCommands, AtDone
  <2>3. "failed" \in Places /\ n[x] \in Nat /\ m[x] \in Nat /\ m[x] >= m[x]
    BY <1>2 DEF Places
  <2> QED
    BY <1>1, <1>2, <1>4, <2>1, <2>2, <2>3, QuietStep
<1>5. CASE /\ Go(x, "welcome")
           /\ hs' = [hs EXCEPT ![x].send_nonce = NextSendNonce(x)]
           /\ Say(x, f)
           /\ Made(1, {Seal(box)})
  <2>1. /\ hs' \in [Sides -> Sessions] /\ hs'["server"] = hs["server"]
        /\ hs'[x].send_nonce = 2 /\ hs'[x].recv_nonce = 0
        /\ hs'[x].greeted = hs[x].greeted /\ hs'[x].session = hs[x].session
        /\ hs'[x].peer_ready = hs[x].peer_ready
    <3>1. NextSendNonce(x) = 2
      BY <1>2 DEF NextSendNonce
    <3>2. hs \in [Sides -> Sessions] /\ hs[x] \in Sessions /\ x \in Sides
      BY <1>1
    <3>3. hs' = [hs EXCEPT ![x].send_nonce = 2]
      BY <1>5, <3>1
    <3> DEFINE h == hs[x]
    <3>4. hs'[x] = [h EXCEPT !.send_nonce = 2] /\ hs'["server"] = hs["server"]
      BY <3>2, <3>3 DEF Sides
    <3>5. h \in Sessions /\ h = hs[x]
      BY <3>2
    <3> HIDE DEF h
    <3>6. /\ hs'[x] \in Sessions
          /\ hs'[x].send_nonce = 2 /\ hs'[x].recv_nonce = h.recv_nonce
          /\ hs'[x].greeted = h.greeted /\ hs'[x].session = h.session
          /\ hs'[x].peer_ready = h.peer_ready
      BY <3>4, <3>5, SendNonceSet
    <3>7. hs' \in [Sides -> Sessions]
      BY <3>2, <3>3, <3>6
    <3> QED
      BY <1>2, <3>4, <3>5, <3>6, <3>7
  <2>2. WireStep(n, m, x, n[x], m[x] + 1)
    <3>1. f = FrameOf(opts, x, m[x] + 1)
      BY <1>1, <1>2, CurveFrames
    <3> QED
      BY <1>1, <1>5, <3>1, WireSay
  <2>3. Boxes([m EXCEPT ![x] = m[x] + 1])'
    <3>1. Seal(box)[2] = <<"HELLO", 1>>
      BY Seals DEF HelloBox
    <3>2. MakerOf(Seal(box)[2]) = x /\ MadeFor(Seal(box)[2]) = m[x] + 1
      BY <1>2, <3>1 DEF MakerOf, MadeFor
    <3> QED
      BY <1>1, <1>5, <3>2, BoxMade
  <2>4. Place(opts, x, "welcome", hs'[x], sent[x], got[x], n[x], m[x] + 1)
    <3>1. Learnt(opts, x, m[x] + 1)
      BY <1>2, <1>3 DEF Learnt
    <3> QED
      BY <1>1, <1>2, <1>3, <2>1, <3>1 DEF Place, AtStart, AtCommands, AtDone
  <2>5. "welcome" \in Places /\ n[x] \in Nat /\ m[x] + 1 \in Nat
    BY <1>2 DEF Places
  <2>6. Named' /\ seen' \in [Sides -> Names]
    BY <1>1, <1>2, NamesKept DEF NoTraffic
  <2> QED
    BY <1>1, <1>2, <1>5, <2>1, <2>2, <2>3, <2>4, <2>5, <2>6, CommandStep
<1> QED
  BY <1>4, <1>5 DEF CurveHello, Transient

(* The HELLO of a client opens with the key that the client knows of the    *)
(* server, and this only when the server has it.                            *)
LEMMA CurveServerHelloStep ==
  ASSUME NEW n \in [Sides -> Nat], NEW m \in [Sides -> Nat], Sync(n, m), CurveServerHello
  PROVE  IInv'
<1> DEFINE x == "server"
           c == opts["client"]
           f == Head(wire[x])
           box == WelcomeBox(opts[x], "client")
<1>1. /\ x \in Sides /\ "client" \in Sides /\ Peer(x) = "client"
      /\ hs \in [Sides -> Sessions] /\ hs[x] \in Sessions /\ opts \in Configs
      /\ Place(opts, x, pc[x], hs[x], sent[x], got[x], n[x], m[x])
      /\ Boxes(m) /\ Named /\ seen \in [Sides -> Names]
  BY Basics, Peers DEF Sides
<1>2. /\ pc[x] = "mechanism" /\ wire[x] # <<>> /\ Mechanism(opts[x]) = "CURVE"
      /\ n[x] = 2 /\ m[x] = 2 /\ n[x] + 1 = 3 /\ m[x] + 1 = 3 /\ hs[x].greeted
      /\ hs[x].send_nonce = 1 /\ hs[x].recv_nonce = 0
  <2>1. pc[x] = "mechanism" /\ wire[x] # <<>> /\ Mechanism(opts[x]) = "CURVE"
    BY DEF CurveServerHello, Heard
  <2> QED
    BY <2>1, ServerWaits
<1>3. CASE Refuse(x)
  BY <1>1, <1>2, <1>3, RefuseStep
<1>4. CASE ~Refuse(x)
  <2>1. /\ HelloGood(f, opts[x])
        /\ Go(x, "initiate")
        /\ hs' = [hs EXCEPT ![x].peer_transient = f.body.transient,
                            ![x].recv_nonce = f.body.nonce, ![x].cookie = Cookie]
        /\ Answer(x, Frame("WELCOME", "CURVE", WelcomeBox(opts[x], f.body.transient)))
        /\ Made(1, {Seal(WelcomeBox(opts[x], f.body.transient))})
        /\ UNCHANGED seen /\ NoTraffic
    BY <1>4 DEF CurveServerHello
  <2>2. f = FrameOf(opts, "client", 3)
    BY <1>1, <1>2, HeadIs
  <2>3. Mechanism(c) = "CURVE"
    <3>1. f.cmd = "HELLO" /\ f.format = "CURVE"
      BY <2>1 DEF HelloGood, Is
    <3> QED
      BY <1>1, <2>2, <3>1, HelloIs
  <2>4. f.body = [transient |-> "client", nonce |-> 1, box |-> HelloBox(c)]
    <3>1. f = Frame("HELLO", "CURVE",
                    [transient |-> "client", nonce |-> 1, box |-> HelloBox(c)])
      BY <1>1, <2>2, <2>3, CurveFrames
    <3> QED
      BY <3>1 DEF Frame
  <2>5. f.body.transient = "client" /\ f.body.nonce = 1 /\ f.body.box = HelloBox(c)
    BY <2>4
  <2>6. c.curve_serverkey = opts[x].curve_secretkey
    <3>1. f.body.box.key = {f.body.transient, opts[x].curve_secretkey}
      BY <2>1 DEF HelloGood, Opens
    <3>2. f.body.box.key = {c.curve_serverkey, "client"}
      BY <2>5 DEF HelloBox, Box, Transient
    <3> QED
      BY <2>5, <3>1, <3>2
  <2>7. HandshakeLen(opts, x) = 4
    BY <1>1, <1>2, LengthOf
  <2>8. WireStep(n, m, x, n[x] + 1, m[x] + 1)
    <3>1. Frame("WELCOME", "CURVE", box) = FrameOf(opts, x, m[x] + 1)
      BY <1>1, <1>2, CurveFrames
    <3> QED
      BY <1>1, <1>2, <2>1, <2>5, <3>1, WireAnswer
  <2>9. Boxes([m EXCEPT ![x] = m[x] + 1])'
    <3>1. Seal(box)[2] = <<"WELCOME-", 0>>
      BY Seals DEF WelcomeBox
    <3>2. MakerOf(Seal(box)[2]) = x /\ MadeFor(Seal(box)[2]) = m[x] + 1
      BY <1>2, <3>1 DEF MakerOf, MadeFor
    <3> QED
      BY <1>1, <2>1, <2>5, <3>2, BoxMade
  <2>10. /\ hs' \in [Sides -> Sessions] /\ hs'["client"] = hs["client"]
         /\ hs'[x].send_nonce = 1 /\ hs'[x].recv_nonce = 1
         /\ hs'[x].peer_transient = "client" /\ hs'[x].greeted
         /\ hs'[x].session = hs[x].session /\ hs'[x].peer_ready = hs[x].peer_ready
    <3>1. hs' = [hs EXCEPT ![x].peer_transient = "client", ![x].recv_nonce = 1,
                           ![x].cookie = Cookie]
      BY <2>1, <2>5
    <3>2. hs \in [Sides -> Sessions] /\ hs[x] \in Sessions /\ x \in Sides
      BY <1>1
    <3>3. /\ hs'[x] = [hs[x] EXCEPT !.peer_transient = "client", !.recv_nonce = 1,
                                    !.cookie = Cookie]
          /\ hs'["client"] = hs["client"]
      BY <3>1, <3>2 DEF Sides
    <3>4. [hs[x] EXCEPT !.peer_transient = "client", !.recv_nonce = 1, !.cookie = Cookie]
            \in Sessions
      BY <3>2 DEF Sessions, Sides
    <3>5. hs' \in [Sides -> Sessions]
      BY <3>1, <3>2, <3>4
    <3>6. /\ hs'[x].send_nonce = hs[x].send_nonce /\ hs'[x].recv_nonce = 1
          /\ hs'[x].peer_transient = "client" /\ hs'[x].greeted = hs[x].greeted
          /\ hs'[x].session = hs[x].session /\ hs'[x].peer_ready = hs[x].peer_ready
      BY <3>2, <3>3 DEF Sessions
    <3> QED
      BY <1>2, <3>3, <3>5, <3>6
  <2>11. Place(opts, x, "initiate", hs'[x], sent[x], got[x], n[x] + 1, m[x] + 1)
    <3>1. Admitted(opts)
      BY <1>2, <2>3, <2>6 DEF Admitted
    <3>2. Learnt(opts, x, m[x] + 1)
      BY <1>2, <2>7, <3>1 DEF Learnt
    <3> QED
      BY <1>1, <1>2, <2>10, <2>7, <3>2 DEF Place, AtStart, AtCommands, AtDone
  <2>12. "initiate" \in Places /\ n[x] + 1 \in Nat /\ m[x] + 1 \in Nat
    BY <1>2 DEF Places
  <2>13. Named' /\ seen' \in [Sides -> Names]
    BY <1>1, <2>1, NamesKept DEF NoTraffic
  <2> QED
    BY <1>1, <2>1, <2>8, <2>9, <2>10, <2>11, <2>12, <2>13, CommandStep
<1> QED
  BY <1>3, <1>4

LEMMA CurveWelcomeStep ==
  ASSUME NEW n \in [Sides -> Nat], NEW m \in [Sides -> Nat], Sync(n, m), CurveWelcome
  PROVE  IInv'
<1> DEFINE x == "client"
           o == opts[x]
           f == Head(wire[x])
           box == InitiateBox(o, "server", 2)
<1>1. /\ x \in Sides /\ "server" \in Sides /\ Peer(x) = "server"
      /\ hs \in [Sides -> Sessions] /\ hs[x] \in Sessions /\ opts \in Configs
      /\ Place(opts, x, pc[x], hs[x], sent[x], got[x], n[x], m[x])
      /\ n[x] \in Nat
      /\ Boxes(m) /\ Named /\ seen \in [Sides -> Names]
  BY Basics, Peers DEF Sides
<1>2. /\ pc[x] = "welcome" /\ wire[x] # <<>> /\ Mechanism(o) = "CURVE" /\ m[x] = 3
      /\ m[x] + 1 = 4 /\ n[x] = IF hs[x].greeted THEN 2 ELSE 0
      /\ hs[x].send_nonce = 2 /\ hs[x].recv_nonce = 0
  <2>1. pc[x] = "welcome" /\ wire[x] # <<>> /\ Mechanism(o) = "CURVE"
    BY DEF CurveWelcome, Heard
  <2> QED
    BY <1>1, <2>1 DEF Place, AtCommands
<1>3. CASE Refuse(x)
  BY <1>1, <1>2, <1>3, RefuseStep
<1>4. CASE ~Refuse(x)
  <2> DEFINE server == f.body.plain[1]
             cookie == f.body.plain[2]
             nonce == hs[x].send_nonce
  <2>1. /\ WelcomeGood(f, o)
        /\ Go(x, "ready")
        /\ hs' = [hs EXCEPT ![x].peer_transient = server, ![x].cookie = cookie,
                            ![x].send_nonce = NextSendNonce(x)]
        /\ Answer(x, Frame("INITIATE", "CURVE", [cookie |-> cookie, nonce |-> nonce,
                                                 box |-> InitiateBox(o, server, nonce)]))
        /\ Made(2, {Seal(Vouch(o, server)), Seal(InitiateBox(o, server, nonce))})
        /\ UNCHANGED seen /\ NoTraffic
    BY <1>4 DEF CurveWelcome
  <2>2. f = FrameOf(opts, "server", n[x] + 1)
    BY <1>1, <1>2, HeadIs
  <2>3. n[x] + 1 = 3 /\ Mechanism(opts["server"]) = "CURVE"
    <3>1. f.cmd = "WELCOME" /\ f.format = "CURVE" /\ n[x] + 1 \in Nat /\ n[x] + 1 > 0
      BY <1>1, <2>1 DEF WelcomeGood, Is
    <3> QED
      BY <1>1, <2>2, <3>1, WelcomeIs
  <2>4. hs[x].greeted /\ n[x] = 2
    BY <1>2, <2>3
  <2>5. server = "server" /\ cookie = Cookie
    <3>1. f = Frame("WELCOME", "CURVE", WelcomeBox(opts["server"], "client"))
      BY <1>1, <2>2, <2>3, CurveFrames
    <3>2. f.body.plain = <<"server", Cookie>>
      BY <3>1 DEF Frame, WelcomeBox, Box, Transient
    <3> QED
      BY <3>2
  <2>6. HandshakeLen(opts, x) = 4 /\ HandshakeLen(opts, "server") = 4
    BY <1>1, <1>2, <2>3, LengthOf
  <2>7. WireStep(n, m, x, n[x] + 1, m[x] + 1)
    <3>1. Frame("INITIATE", "CURVE", [cookie |-> Cookie, nonce |-> 2, box |-> box])
            = FrameOf(opts, x, m[x] + 1)
      BY <1>1, <1>2, CurveFrames
    <3>2. Answer(x, Frame("INITIATE", "CURVE", [cookie |-> Cookie, nonce |-> 2, box |-> box]))
      BY <1>2, <2>1, <2>5
    <3> QED
      BY <1>1, <1>2, <3>1, <3>2, WireAnswer
  <2>8. Boxes([m EXCEPT ![x] = m[x] + 1])'
    <3> DEFINE u == Seal(Vouch(o, "server"))
               w == Seal(box)
    <3>1. u[2] = <<"VOUCH---", 0>>
      BY Seals DEF Vouch
    <3>2. w[2] = <<"INITIATE", 2>>
      BY Seals DEF InitiateBox
    <3>3. MakerOf(u[2]) = x /\ MadeFor(u[2]) = m[x] + 1
      BY <1>2, <3>1 DEF MakerOf, MadeFor
    <3>4. MakerOf(w[2]) = x /\ MadeFor(w[2]) = m[x] + 1
      BY <1>2, <3>2 DEF MakerOf, MadeFor
    <3>5. u # w
      BY <3>1, <3>2
    <3>6. Made(2, {u, w})
      BY <1>2, <2>1, <2>5
    <3> QED
      BY <1>1, <3>3, <3>4, <3>5, <3>6, TwoBoxesMade
  <2>9. /\ hs' \in [Sides -> Sessions] /\ hs'["server"] = hs["server"]
        /\ hs'[x].send_nonce = 3 /\ hs'[x].recv_nonce = 0
        /\ hs'[x].peer_transient = "server" /\ hs'[x].greeted
        /\ hs'[x].session = hs[x].session /\ hs'[x].peer_ready = hs[x].peer_ready
    <3>1. NextSendNonce(x) = 3
      BY <1>2 DEF NextSendNonce
    <3>2. hs' = [hs EXCEPT ![x].peer_transient = "server", ![x].cookie = Cookie,
                           ![x].send_nonce = 3]
      BY <2>1, <2>5, <3>1
    <3>3. hs \in [Sides -> Sessions] /\ hs[x] \in Sessions /\ x \in Sides
      BY <1>1
    <3> DEFINE h == [hs[x] EXCEPT !.peer_transient = "server", !.cookie = Cookie]
    <3>4. hs'[x] = [h EXCEPT !.send_nonce = 3] /\ hs'["server"] = hs["server"]
      BY <3>2, <3>3 DEF Sides
    <3>5. /\ h \in Sessions /\ h.peer_transient = "server" /\ h.recv_nonce = hs[x].recv_nonce
          /\ h.greeted = hs[x].greeted /\ h.session = hs[x].session
          /\ h.peer_ready = hs[x].peer_ready
      BY <3>3 DEF Sessions, Sides
    <3> HIDE DEF h
    <3>6. /\ hs'[x] \in Sessions
          /\ hs'[x].send_nonce = 3 /\ hs'[x].recv_nonce = h.recv_nonce
          /\ hs'[x].peer_transient = h.peer_transient /\ hs'[x].greeted = h.greeted
          /\ hs'[x].session = h.session /\ hs'[x].peer_ready = h.peer_ready
      BY <3>4, <3>5, SendNonceSet
    <3>7. hs' \in [Sides -> Sessions]
      BY <3>2, <3>3, <3>6
    <3> QED
      BY <1>2, <2>4, <3>4, <3>5, <3>6, <3>7
  <2>10. Place(opts, x, "ready", hs'[x], sent[x], got[x], n[x] + 1, m[x] + 1)
    <3>1. Learnt(opts, x, m[x] + 1)
      BY <1>2, <2>3, <2>6 DEF Learnt, Compatible
    <3> QED
      BY <1>1, <1>2, <2>4, <2>6, <2>9, <3>1 DEF Place, AtStart, AtCommands, AtDone
  <2>11. "ready" \in Places /\ n[x] + 1 \in Nat /\ m[x] + 1 \in Nat
    BY <1>1, <1>2 DEF Places
  <2>12. Named' /\ seen' \in [Sides -> Names]
    BY <1>1, <2>1, NamesKept DEF NoTraffic
  <2> QED
    BY <1>1, <2>1, <2>7, <2>8, <2>9, <2>10, <2>11, <2>12, CommandStep
<1> QED
  BY <1>3, <1>4

(* The INITIATE carries a vouch that only the owner of the client's long-   *)
(* term key can make, and the server authorizes that key.                   *)
LEMMA CurveServerInitiateStep ==
  ASSUME NEW n \in [Sides -> Nat], NEW m \in [Sides -> Nat], Sync(n, m), CurveServerInitiate
  PROVE  IInv'
<1> DEFINE x == "server"
           o == opts[x]
           c == opts["client"]
           f == Head(wire[x])
           s == hs[x]
           box == ReadyBox(o, "client")
<1>1. /\ x \in Sides /\ "client" \in Sides /\ Peer(x) = "client"
      /\ hs \in [Sides -> Sessions] /\ hs[x] \in Sessions /\ opts \in Configs
      /\ Place(opts, x, pc[x], hs[x], sent[x], got[x], n[x], m[x])
      /\ Learnt(opts, x, m[x])
      /\ Boxes(m) /\ Named /\ seen \in [Sides -> Names]
  BY Basics, Peers DEF Sides
<1>2. /\ pc[x] = "initiate" /\ wire[x] # <<>> /\ Mechanism(o) = "CURVE"
      /\ n[x] = 3 /\ m[x] = 3 /\ n[x] + 1 = 4 /\ m[x] + 1 = 4 /\ s.greeted
      /\ s.send_nonce = 1 /\ s.recv_nonce = 1 /\ s.peer_transient = "client"
  <2>1. pc[x] = "initiate" /\ wire[x] # <<>> /\ Mechanism(o) = "CURVE"
    BY DEF CurveServerInitiate, Heard
  <2> QED
    BY <1>1, <2>1 DEF Place, AtCommands
<1>3. CASE Refuse(x)
  BY <1>1, <1>2, <1>3, RefuseStep
<1>4. CASE ~Refuse(x)
  <2>1. /\ InitiateGood(f, o, s) /\ Authorize(o, "CURVE", <<f.body.box.plain.public>>)
        /\ Go(x, "done")
        /\ hs' = [hs EXCEPT ![x].recv_nonce = f.body.nonce,
                            ![x].send_nonce = NextSendNonce(x),
                            ![x].session = "CURVE", ![x].peer_ready = TRUE]
        /\ seen' = [seen EXCEPT ![x] = f.body.box.plain.metadata]
        /\ Answer(x, Frame("READY", "CURVE",
                           [nonce |-> 1, box |-> ReadyBox(o, s.peer_transient)]))
        /\ Made(1, {Seal(ReadyBox(o, s.peer_transient))}) /\ NoTraffic
    BY <1>4 DEF CurveServerInitiate
  <2>2. Admitted(opts) /\ Mechanism(c) = "CURVE" /\ c.curve_serverkey = o.curve_secretkey
    BY <1>1, <1>2 DEF Learnt, Admitted
  <2>3. HandshakeLen(opts, x) = 4 /\ HandshakeLen(opts, "client") = 4
    BY <1>1, <1>2, <2>2, LengthOf
  <2>4. f = FrameOf(opts, "client", 4)
    BY <1>1, <1>2, HeadIs
  <2>5. f.body.nonce = 2 /\ f.body.box = InitiateBox(c, "server", 2)
    <3>1. f = Frame("INITIATE", "CURVE",
                    [cookie |-> Cookie, nonce |-> 2, box |-> InitiateBox(c, "server", 2)])
      BY <1>1, <2>2, <2>4, CurveFrames
    <3> QED
      BY <3>1 DEF Frame
  <2>6. f.body.box.plain = [public |-> ClientPublic(c), vouch |-> Vouch(c, "server"),
                            metadata |-> c.routing_id]
    BY <2>5 DEF InitiateBox, Box
  <2>7. /\ f.body.box.plain.public = ClientPublic(c)
        /\ f.body.box.plain.vouch = Vouch(c, "server")
        /\ f.body.box.plain.metadata = c.routing_id
    BY <2>6
  <2>8. ClientPublic(c) = c.curve_secretkey
    <3>1. Opens(Vouch(c, "server"), <<"VOUCH---", 0>>, ClientPublic(c), "server")
      BY <2>1, <2>7 DEF InitiateGood, Transient
    <3>2. Vouch(c, "server").key = {"server", c.curve_secretkey}
      BY DEF Vouch, Box
    <3>3. {"server", c.curve_secretkey} = {ClientPublic(c), "server"}
      BY <3>1, <3>2 DEF Opens
    <3> QED
      BY <3>3
  <2>9. Entitled(c, o)
    <3>1. c.curve_publickey \in {"", c.curve_secretkey}
      BY <2>8 DEF ClientPublic
    <3>2. Authorize(o, "CURVE", <<c.curve_secretkey>>)
      BY <2>1, <2>7, <2>8
    <3>3. IF o.zap # "none" THEN o.zap = "200"
          ELSE o.curve_publickey # "" => o.curve_publickey = c.curve_secretkey
      BY <3>2 DEF Authorize, AuthorizeLocally
    <3> QED
      BY <1>2, <2>2, <3>1, <3>3 DEF Entitled
  <2>10. WireStep(n, m, x, n[x] + 1, m[x] + 1)
    <3>1. Frame("READY", "CURVE", [nonce |-> 1, box |-> box]) = FrameOf(opts, x, m[x] + 1)
      BY <1>1, <1>2, CurveFrames
    <3>2. Answer(x, Frame("READY", "CURVE", [nonce |-> 1, box |-> box]))
      BY <1>2, <2>1
    <3> QED
      BY <1>1, <1>2, <3>1, <3>2, WireAnswer
  <2>11. Boxes([m EXCEPT ![x] = m[x] + 1])'
    <3>1. Seal(box)[2] = <<"READY", 1>>
      BY Seals DEF ReadyBox
    <3>2. MakerOf(Seal(box)[2]) = x /\ MadeFor(Seal(box)[2]) = m[x] + 1
      BY <1>2, <3>1 DEF MakerOf, MadeFor
    <3>3. Made(1, {Seal(box)})
      BY <1>2, <2>1
    <3> QED
      BY <1>1, <3>2, <3>3, BoxMade
  <2>12. /\ hs' \in [Sides -> Sessions] /\ hs'["client"] = hs["client"]
         /\ hs'[x].send_nonce = 2 /\ hs'[x].recv_nonce = 2
         /\ hs'[x].peer_transient = "client" /\ hs'[x].greeted
         /\ hs'[x].session = "CURVE" /\ hs'[x].peer_ready
    <3>1. NextSendNonce(x) = 2
      BY <1>2 DEF NextSendNonce
    <3>2. hs' = [hs EXCEPT ![x].recv_nonce = 2, ![x].send_nonce = 2,
                           ![x].session = "CURVE", ![x].peer_ready = TRUE]
      BY <2>1, <2>5, <3>1
    <3>3. hs \in [Sides -> Sessions] /\ s \in Sessions /\ x \in Sides
      BY <1>1
    <3>4. /\ hs'[x] = [s EXCEPT !.recv_nonce = 2, !.send_nonce = 2,
                                !.session = "CURVE", !.peer_ready = TRUE]
          /\ hs'["client"] = hs["client"]
      BY <3>2, <3>3 DEF Sides
    <3>5. s \in Sessions /\ s.greeted /\ s.peer_transient = "client"
      BY <1>1, <1>2
    <3> DEFINE g == hs'[x]
    <3> HIDE DEF s, g
    <3>s. s \in Sessions
      BY <3>5
    <3>g. g = [s EXCEPT !.recv_nonce = 2, !.send_nonce = 2, !.session = "CURVE",
                        !.peer_ready = TRUE]
      BY <3>4 DEF g
    <3>6. /\ g \in Sessions /\ g.recv_nonce = 2 /\ g.send_nonce = 2
          /\ g.session = "CURVE" /\ g.peer_ready
          /\ g.peer_transient = s.peer_transient /\ g.greeted = s.greeted
      BY <3>s, <3>g DEF Sessions
    <3>7. hs' \in [Sides -> Sessions]
      BY <3>2, <3>3, <3>6 DEF g
    <3> QED
      BY <3>4, <3>5, <3>6, <3>7 DEF g
  <2>13. Place(opts, x, "done", hs'[x], sent[x], got[x], n[x] + 1, m[x] + 1)
    <3>1. Learnt(opts, x, m[x] + 1)
      BY <1>2, <2>2, <2>3, <2>9 DEF Learnt, Compatible
    <3>2. SessionOf(opts, x) = "CURVE" /\ SessionOf(opts, "client") = "CURVE"
      BY <1>2, <2>2 DEF SessionOf
    <3>3. /\ sent[x] = 0 /\ got[x] = <<>> /\ Len(got[x]) = 0
      BY <1>1, <1>2 DEF Place
    <3>4. FirstNonce(x) = 2 /\ FirstNonce("client") = 3
      BY DEF FirstNonce
    <3>5. AtDone(opts, x, "done", hs'[x], sent[x], got[x], n[x] + 1, m[x] + 1)
      BY <1>1, <1>2, <2>3, <2>12, <3>2, <3>3, <3>4 DEF AtDone
    <3> QED
      BY <1>1, <1>2, <2>3, <2>12, <3>1, <3>3, <3>5 DEF Place, AtStart, AtCommands
  <2>14. seen' \in [Sides -> Names] /\ Named'
    BY <1>1, <2>1, <2>7, NamedNow DEF NoTraffic
  <2>15. "done" \in Places /\ n[x] + 1 \in Nat /\ m[x] + 1 \in Nat
    BY <1>2 DEF Places
  <2> QED
    BY <1>1, <2>1, <2>10, <2>11, <2>12, <2>13, <2>14, <2>15, CommandStep
<1> QED
  BY <1>3, <1>4

LEMMA CurveReadyStep ==
  ASSUME NEW n \in [Sides -> Nat], NEW m \in [Sides -> Nat], Sync(n, m), CurveReady
  PROVE  IInv'
<1> DEFINE x == "client"
           f == Head(wire[x])
           s == hs[x]
<1>1. /\ x \in Sides /\ "server" \in Sides /\ Peer(x) = "server"
      /\ hs \in [Sides -> Sessions] /\ hs[x] \in Sessions /\ opts \in Configs
      /\ Place(opts, x, pc[x], hs[x], sent[x], got[x], n[x], m[x])
      /\ Boxes(m) /\ Named /\ seen \in [Sides -> Names]
  BY Basics, Peers DEF Sides
<1>2. /\ pc[x] = "ready" /\ wire[x] # <<>> /\ Mechanism(opts[x]) = "CURVE"
      /\ n[x] = 3 /\ m[x] = 4 /\ n[x] + 1 = 4 /\ s.greeted
      /\ s.send_nonce = 3 /\ s.recv_nonce = 0 /\ s.peer_transient = "server"
  <2>1. pc[x] = "ready" /\ wire[x] # <<>> /\ Mechanism(opts[x]) = "CURVE"
    BY DEF CurveReady, Heard
  <2> QED
    BY <1>1, <2>1 DEF Place, AtCommands
<1>3. CASE Refuse(x)
  BY <1>1, <1>2, <1>3, RefuseStep
<1>4. CASE ~Refuse(x)
  <2>1. /\ ReadyGood(f, s)
        /\ Go(x, "done")
        /\ hs' = [hs EXCEPT ![x].recv_nonce = f.body.nonce, ![x].session = "CURVE",
                            ![x].peer_ready = TRUE]
        /\ seen' = [seen EXCEPT ![x] = f.body.box.plain]
        /\ Hear(x) /\ NoBox /\ NoTraffic
    BY <1>4 DEF CurveReady
  <2>2. f = FrameOf(opts, "server", 4)
    BY <1>1, <1>2, HeadIs
  <2>3. Mechanism(opts["server"]) = "CURVE"
    <3>1. f.cmd = "READY" /\ f.format = "CURVE"
      BY <2>1 DEF ReadyGood, Is
    <3> QED
      BY <1>1, <2>2, <3>1, ReadyIs DEF Frame
  <2>4. f.body.nonce = 1 /\ f.body.box.plain = opts["server"].routing_id
    <3>1. f = Frame("READY", "CURVE", [nonce |-> 1, box |-> ReadyBox(opts["server"], "client")])
      BY <1>1, <2>2, <2>3, CurveFrames
    <3> QED
      BY <3>1 DEF Frame, ReadyBox, Box
  <2>5. HandshakeLen(opts, x) = 4 /\ HandshakeLen(opts, "server") = 4
    BY <1>1, <1>2, <2>3, LengthOf
  <2>6. WireStep(n, m, x, n[x] + 1, m[x])
    BY <1>1, <1>2, <2>1, WireHear
  <2>7. /\ hs' \in [Sides -> Sessions] /\ hs'["server"] = hs["server"]
        /\ hs'[x].send_nonce = 3 /\ hs'[x].recv_nonce = 1
        /\ hs'[x].peer_transient = "server" /\ hs'[x].greeted
        /\ hs'[x].session = "CURVE" /\ hs'[x].peer_ready
    <3>1. hs' = [hs EXCEPT ![x].recv_nonce = 1, ![x].session = "CURVE",
                           ![x].peer_ready = TRUE]
      BY <2>1, <2>4
    <3>2. hs \in [Sides -> Sessions] /\ s \in Sessions /\ x \in Sides
      BY <1>1
    <3>3. /\ hs'[x] = [s EXCEPT !.recv_nonce = 1, !.session = "CURVE", !.peer_ready = TRUE]
          /\ hs'["server"] = hs["server"]
      BY <3>1, <3>2 DEF Sides
    <3>4. /\ s \in Sessions /\ s.greeted /\ s.peer_transient = "server"
          /\ s.send_nonce = 3
      BY <1>1, <1>2
    <3> DEFINE g == hs'[x]
    <3> HIDE DEF s, g
    <3>s. s \in Sessions
      BY <3>4
    <3>g. g = [s EXCEPT !.recv_nonce = 1, !.session = "CURVE", !.peer_ready = TRUE]
      BY <3>3 DEF g
    <3>5. /\ g \in Sessions /\ g.send_nonce = s.send_nonce /\ g.recv_nonce = 1
          /\ g.session = "CURVE" /\ g.peer_ready
          /\ g.peer_transient = s.peer_transient /\ g.greeted = s.greeted
      BY <3>s, <3>g DEF Sessions
    <3>6. hs' \in [Sides -> Sessions]
      BY <3>1, <3>2, <3>5 DEF g
    <3> QED
      BY <3>3, <3>4, <3>5, <3>6 DEF g
  <2>8. Place(opts, x, "done", hs'[x], sent[x], got[x], n[x] + 1, m[x])
    <3>1. SessionOf(opts, x) = "CURVE" /\ SessionOf(opts, "server") = "CURVE"
      BY <1>2, <2>3 DEF SessionOf
    <3>2. sent[x] = 0 /\ got[x] = <<>> /\ Len(got[x]) = 0
      BY <1>1, <1>2 DEF Place
    <3>3. FirstNonce(x) = 3 /\ FirstNonce("server") = 2
      BY DEF FirstNonce
    <3>4. AtDone(opts, x, "done", hs'[x], sent[x], got[x], n[x] + 1, m[x])
      BY <1>1, <1>2, <2>5, <2>7, <3>1, <3>2, <3>3 DEF AtDone
    <3> QED
      BY <1>1, <1>2, <2>5, <2>7, <3>2, <3>4 DEF Place, AtStart, AtCommands
  <2>9. seen' \in [Sides -> Names] /\ Named'
    BY <1>1, <2>1, <2>4, NamedNow DEF NoTraffic
  <2>10. "done" \in Places /\ n[x] + 1 \in Nat /\ m[x] \in Nat /\ m[x] >= m[x]
    BY <1>2 DEF Places
  <2>11. Boxes([m EXCEPT ![x] = m[x]])'
    BY <1>1, <2>1, <2>10, BoxesKept
  <2> QED
    BY <1>1, <2>1, <2>6, <2>7, <2>8, <2>9, <2>10, <2>11, CommandStep
<1> QED
  BY <1>3, <1>4

-----------------------------------------------------------------------------
(* GSSAPI.  How many commands there are, and the command that ends them. *)

LEMMA ClientLength ==
  ASSUME NEW o \in Configs, Mechanism(o["client"]) = "GSSAPI"
  PROVE  LET r == o["client"].gssapi_rounds
             L == HandshakeLen(o, "client") IN
         /\ r \in Nat /\ L \in Nat
         /\ r = 0 => L = 4
         /\ r > 0 => 2 * L <= r + 7 /\ r + 6 <= 2 * L
<1> DEFINE r == o["client"].gssapi_rounds
<1>1. "client" \in Sides
  BY DEF Sides
<1>2. r \in Nat /\ r + 1 \in Nat
  BY <1>1, Rounds
<1>3. Half(r + 1) \in Nat /\ 2 * Half(r + 1) <= r + 1 /\ r + 1 <= 2 * Half(r + 1) + 1
  BY <1>2, Halves
<1>4. CASE r = 0
  BY <1>1, <1>2, <1>4, LengthOf DEF Placeholder
<1>5. CASE r # 0
  <2>1. HandshakeLen(o, "client") = 3 + Half(r + 1)
    BY <1>1, <1>5, LengthOf DEF Placeholder
  <2> QED
    BY <1>2, <1>3, <1>5, <2>1
<1> QED
  BY <1>4, <1>5

LEMMA ServerLength ==
  ASSUME NEW o \in Configs, Mechanism(o["server"]) = "GSSAPI"
  PROVE  LET r == o["server"].gssapi_rounds
             L == HandshakeLen(o, "server") IN
         /\ r \in Nat /\ L \in Nat
         /\ 2 * L <= r + 6 /\ r + 5 <= 2 * L
<1> DEFINE r == o["server"].gssapi_rounds
<1>1. "server" \in Sides
  BY DEF Sides
<1>2. r \in Nat
  BY <1>1, Rounds
<1>3. Half(r) \in Nat /\ 2 * Half(r) <= r /\ r <= 2 * Half(r) + 1
  BY <1>2, Halves
<1>4. HandshakeLen(o, "server") = 3 + Half(r)
  BY <1>1, LengthOf
<1> QED
  BY <1>2, <1>3, <1>4

LEMMA GssReadyIs ==
  ASSUME NEW x \in Sides, opts \in Configs, Mechanism(opts[x]) = "GSSAPI"
  PROVE  GssReadyFrame(x) = FrameOf(opts, x, HandshakeLen(opts, x))
<1> DEFINE L == HandshakeLen(opts, x)
<1>1. L \in Nat /\ L >= 3 /\ L <= L
  BY Lengths
<1>2. CASE GssSession(opts[x]) = "none"
  <2>1. FrameOf(opts, x, L) = Frame("READY", "metadata", opts[x].routing_id)
    BY <1>1, <1>2, GssFrame
  <2> QED
    BY <1>2, <2>1 DEF GssReadyFrame, GssSession, Ready
<1>3. CASE GssSession(opts[x]) # "none"
  <2>1. FrameOf(opts, x, L) = Frame("READY", "GSSAPI", opts[x].routing_id)
    BY <1>1, <1>3, GssFrame
  <2> QED
    BY <1>3, <2>1 DEF GssReadyFrame, GssSession
<1> QED
  BY <1>2, <1>3

(* The token in the frame k of a client, and of a server. *)
LEMMA ClientToken ==
  ASSUME NEW o \in Configs, NEW k \in Nat, Mechanism(o["client"]) = "GSSAPI",
         ~Placeholder(o["client"]), k >= 3, k < HandshakeLen(o, "client")
  PROVE  FrameOf(o, "client", k) = Frame("INITIATE", "token", 2 * k - 5)
<1>1. "client" \in Sides /\ HandshakeLen(o, "client") \in Nat
  BY Lengths DEF Sides
<1>2. k <= HandshakeLen(o, "client")
  BY <1>1
<1> QED
  BY <1>1, <1>2, GssFrame

LEMMA ServerToken ==
  ASSUME NEW o \in Configs, NEW k \in Nat, Mechanism(o["server"]) = "GSSAPI",
         ~Placeholder(o["server"]), k >= 3, k < HandshakeLen(o, "server")
  PROVE  FrameOf(o, "server", k) = Frame("INITIATE", "token", 2 * k - 4)
<1>1. "server" \in Sides /\ HandshakeLen(o, "server") \in Nat
  BY Lengths DEF Sides
<1>2. k <= HandshakeLen(o, "server")
  BY <1>1
<1> QED
  BY <1>1, <1>2, GssFrame

(* A place in the handshake that is not its end. *)
LEMMA StillBusy ==
  ASSUME NEW o \in Configs, NEW x \in Sides, NEW p, NEW h, NEW s, NEW g, NEW n, NEW m,
         Place(o, x, p, h, s, g, n, m), p # "done",
         NEW q, NEW a, NEW b \in Nat, q # "done", b <= HandshakeLen(o, x),
         Learnt(o, x, b), AtStart(o, x, q, h, a, b), AtCommands(o, x, q, h, a, b)
  PROVE  Place(o, x, q, h, s, g, a, b)
<1>1. HandshakeLen(o, x) \in Nat
  BY Lengths
<1>2. s = 0 /\ g = <<>> /\ h.session = "none" /\ ~h.peer_ready
  BY DEF Place
<1>3. h.send_nonce \in 1..(3 + s) /\ \A i \in 1..Len(g) : g[i] = i
  BY DEF Place
<1>4. b <= HandshakeLen(o, x) + s
  BY <1>1, <1>2
<1>5. AtDone(o, x, q, h, s, g, a, b)
  BY DEF AtDone
<1> QED
  BY <1>2, <1>3, <1>4, <1>5 DEF Place

LEMMA GssInitiateStep ==
  ASSUME NEW n \in [Sides -> Nat], NEW m \in [Sides -> Nat], Sync(n, m), GssInitiate
  PROVE  IInv'
<1> DEFINE x == "client"
           o == opts[x]
           r == o.gssapi_rounds
           L == HandshakeLen(opts, x)
           f == IF Placeholder(o) THEN Frame("INITIATE", "principal", o.gssapi_principal)
                ELSE Token(1)
           p == IF r <= 1 THEN "ready" ELSE "token"
<1>1. /\ x \in Sides
      /\ hs \in [Sides -> Sessions] /\ hs[x] \in Sessions /\ opts \in Configs
      /\ Place(opts, x, pc[x], hs[x], sent[x], got[x], n[x], m[x])
  BY Basics, Peers DEF Sides
<1>2. /\ pc[x] = "mechanism" /\ Mechanism(o) = "GSSAPI" /\ UNCHANGED <<hs, seen>>
      /\ NoTraffic /\ NoBox
      /\ m[x] = 2 /\ m[x] + 1 = 3 /\ n[x] = IF hs[x].greeted THEN 2 ELSE 0
  <2>1. pc[x] = "mechanism" /\ Mechanism(o) = "GSSAPI" /\ UNCHANGED <<hs, seen>>
        /\ NoTraffic /\ NoBox
    BY DEF GssInitiate
  <2> QED
    BY <2>1, ClientWaits
<1>3. r \in Nat /\ L \in Nat /\ (r = 0 => L = 4) /\ (r > 0 => 2 * L <= r + 7 /\ r + 6 <= 2 * L)
  BY <1>1, <1>2, ClientLength
<1>4. L >= 4
  BY <1>3
<1>5. CASE Go(x, "failed") /\ UNCHANGED wire
  <2>1. WireStep(n, m, x, n[x], m[x])
    BY <1>1, <1>5, WireSame
  <2>2. Place(opts, x, "failed", hs'[x], sent[x], got[x], n[x], m[x])
    BY <1>1, <1>2, <1>5 DEF Place, AtStart, AtCommands, AtDone
  <2>3. "failed" \in Places /\ n[x] \in Nat /\ m[x] \in Nat /\ m[x] >= m[x]
    BY <1>2 DEF Places
  <2> QED
    BY <1>1, <1>2, <1>5, <2>1, <2>2, <2>3, QuietStep
<1>6. CASE /\ ~(~Placeholder(o) /\ o.gssapi_service_principal = "")
           /\ Go(x, p) /\ Say(x, f)
  <2>1. f = FrameOf(opts, x, m[x] + 1)
    <3>1. 3 \in Nat /\ 3 >= 3 /\ 3 < L /\ 3 <= L
      BY <1>3, <1>4
    <3>2. CASE Placeholder(o)
      <4>1. FrameOf(opts, x, 3) = Frame("INITIATE", "principal", o.gssapi_principal)
        BY <1>1, <1>2, <3>1, <3>2, GssFrame
      <4> QED
        BY <1>2, <3>2, <4>1
    <3>3. CASE ~Placeholder(o)
      <4>1. FrameOf(opts, x, 3) = Frame("INITIATE", "token", 2 * 3 - 5)
        BY <1>1, <1>2, <3>1, <3>3, ClientToken
      <4> QED
        BY <1>2, <3>3, <4>1 DEF Token
    <3> QED
      BY <3>2, <3>3
  <2>2. WireStep(n, m, x, n[x], m[x] + 1)
    <3>1. Say(x, f)
      BY <1>6
    <3> HIDE DEF f
    <3> QED
      BY <1>1, <2>1, <3>1, WireSay
  <2>3. Place(opts, x, p, hs'[x], sent[x], got[x], n[x], m[x] + 1)
    <3>1. Learnt(opts, x, m[x] + 1)
      <4>1. ~(m[x] + 1 >= 4) /\ ~(m[x] + 1 >= HandshakeLen(opts, x))
        BY <1>2, <1>3, <1>4
      <4>2. Placeholder(opts[x]) \/ opts[x].gssapi_service_principal # ""
        BY <1>6
      <4> QED
        BY <4>1, <4>2 DEF Learnt
    <3>2. r <= 1 => L = 4
      BY <1>3
    <3>3. p \in {"ready", "token"} /\ (p = "ready" <=> r <= 1)
      OBVIOUS
    <3>4. AtCommands(opts, x, p, hs'[x], n[x], m[x] + 1)
      BY <1>1, <1>2, <1>3, <3>2, <3>3 DEF AtCommands
    <3>5. AtStart(opts, x, p, hs'[x], n[x], m[x] + 1)
      BY <3>3 DEF AtStart
    <3>6. m[x] + 1 \in Nat /\ m[x] + 1 <= HandshakeLen(opts, x) /\ p # "done"
      BY <1>2, <1>3, <1>4, <3>3
    <3>7. hs' = hs /\ pc[x] # "done"
      BY <1>2
    <3> HIDE DEF p
    <3> QED
      BY <1>1, <3>1, <3>4, <3>5, <3>6, <3>7, StillBusy
  <2>4. /\ p \in Places /\ n[x] \in Nat /\ m[x] + 1 \in Nat /\ m[x] + 1 >= m[x]
        /\ hs' \in [Sides -> Sessions] /\ hs'[Peer(x)] = hs[Peer(x)]
    BY <1>1, <1>2 DEF Places
  <2>5. Go(x, p)
    BY <1>6
  <2> HIDE DEF p
  <2> QED
    BY <1>1, <1>2, <2>2, <2>3, <2>4, <2>5, QuietStep
<1> QED
  BY <1>5, <1>6 DEF GssInitiate

(* A client that is asked for another token has the peer's number of them. *)
LEMMA GssTokenStep ==
  ASSUME NEW n \in [Sides -> Nat], NEW m \in [Sides -> Nat], Sync(n, m), GssToken
  PROVE  IInv'
<1> DEFINE x == "client"
           o == opts[x]
           r == o.gssapi_rounds
           L == HandshakeLen(opts, x)
           f == Head(wire[x])
           next == f.body + 1
           p == IF next = r THEN "ready" ELSE "token"
<1>1. /\ x \in Sides /\ "server" \in Sides /\ Peer(x) = "server"
      /\ hs \in [Sides -> Sessions] /\ hs[x] \in Sessions /\ opts \in Configs
      /\ Place(opts, x, pc[x], hs[x], sent[x], got[x], n[x], m[x])
      /\ Learnt(opts, x, m[x]) /\ n[x] \in Nat /\ m[x] \in Nat
  BY Basics, Peers DEF Sides
<1>2. pc[x] = "token" /\ wire[x] # <<>>
  BY DEF GssToken, Heard
<1>3. /\ Mechanism(o) = "GSSAPI" /\ m[x] >= 3 /\ 2 * m[x] - 5 < r /\ r > 1
      /\ n[x] = IF hs[x].greeted THEN m[x] - 1 ELSE 0
  BY <1>1, <1>2 DEF Place, AtCommands
<1>4. CASE Refuse(x)
  BY <1>1, <1>2, <1>4, RefuseStep
<1>5. CASE ~Refuse(x)
  <2>1. /\ Is(f, "INITIATE", "token") /\ next <= r
        /\ Go(x, p) /\ Answer(x, Token(next))
        /\ UNCHANGED <<hs, seen>> /\ NoBox /\ NoTraffic
    BY <1>5 DEF GssToken
  <2>2. f = FrameOf(opts, "server", n[x] + 1)
    BY <1>1, <1>2, HeadIs
  <2>3. /\ Mechanism(opts["server"]) = "GSSAPI" /\ n[x] + 1 >= 3
        /\ n[x] + 1 < HandshakeLen(opts, "server") /\ ~Placeholder(opts["server"])
    <3>1. f.cmd = "INITIATE" /\ f.format = "token" /\ n[x] + 1 \in Nat /\ n[x] + 1 > 0
      BY <1>1, <2>1 DEF Is
    <3> QED
      BY <1>1, <2>2, <3>1, InitiateIs
  <2>4. hs[x].greeted /\ n[x] + 1 = m[x]
    BY <1>1, <1>3, <2>3
  <2>5. SameTokens(opts) /\ ~Placeholder(o)
    <3>1. ~Placeholder(o)
      BY <1>3 DEF Placeholder
    <3> QED
      BY <1>1, <1>3, <2>3, <3>1, ConfigTypes DEF SameTokens
  <2>6. f.body = 2 * m[x] - 4 /\ next = 2 * m[x] - 3
    <3>1. f = Frame("INITIATE", "token", 2 * m[x] - 4)
      BY <1>1, <2>2, <2>3, <2>4, ServerToken
    <3>2. f.body = 2 * m[x] - 4
      BY <3>1 DEF Frame
    <3> HIDE DEF f
    <3> QED
      BY <1>1, <3>2
  <2>7. r \in Nat /\ L \in Nat /\ 2 * L <= r + 7 /\ r + 6 <= 2 * L
    BY <1>1, <1>3, ClientLength
  <2>8. next \in Int /\ m[x] + 1 \in Nat /\ m[x] + 1 < L /\ m[x] + 1 >= 4
    <3>1. 2 * m[x] - 3 <= r
      BY <2>1, <2>6
    <3> QED
      BY <1>1, <1>3, <2>6, <2>7, <3>1
  <2>9. WireStep(n, m, x, n[x] + 1, m[x] + 1)
    <3>1. FrameOf(opts, x, m[x] + 1) = Frame("INITIATE", "token", 2 * (m[x] + 1) - 5)
      BY <1>1, <1>3, <2>5, <2>8, ClientToken
    <3>2. 2 * (m[x] + 1) - 5 = next
      BY <1>1, <2>6
    <3>3. Token(next) = FrameOf(opts, x, m[x] + 1)
      BY <3>1, <3>2 DEF Token
    <3> QED
      BY <1>1, <1>2, <2>1, <3>3, WireAnswer
  <2>10. Place(opts, x, p, hs'[x], sent[x], got[x], n[x] + 1, m[x] + 1)
    <3>1. Learnt(opts, x, m[x] + 1)
      <4>1. ~(m[x] + 1 >= HandshakeLen(opts, x))
        BY <2>7, <2>8
      <4>2. Placeholder(opts[x]) \/ opts[x].gssapi_service_principal # ""
        BY <1>1, <1>3 DEF Learnt
      <4> QED
        BY <2>5, <4>1, <4>2 DEF Learnt
    <3>2. p \in {"ready", "token"} /\ (p = "ready" <=> next = r)
      OBVIOUS
    <3>3. p = "ready" => m[x] + 1 = L - 1
      BY <1>1, <2>6, <2>7, <2>8, <3>2
    <3>4. p = "token" => 2 * (m[x] + 1) - 5 < r
      <4>1. 2 * m[x] - 3 <= r /\ (p = "token" => 2 * m[x] - 3 # r)
        BY <2>1, <2>6, <3>2
      <4> QED
        BY <1>1, <2>7, <4>1
    <3>5. hs' = hs /\ n[x] + 1 = (m[x] + 1) - 1 /\ m[x] + 1 >= 3
      BY <1>1, <2>1, <2>4, <2>8
    <3> HIDE DEF p
    <3>6. AtCommands(opts, x, p, hs'[x], n[x] + 1, m[x] + 1)
      BY <1>3, <2>4, <2>5, <2>8, <3>2, <3>3, <3>4, <3>5 DEF AtCommands
    <3>7. AtStart(opts, x, p, hs'[x], n[x] + 1, m[x] + 1)
      BY <3>2 DEF AtStart
    <3>8. m[x] + 1 \in Nat /\ m[x] + 1 <= HandshakeLen(opts, x) /\ p # "done"
      BY <2>7, <2>8, <3>2
    <3> QED
      <4>1. hs'[x] = hs[x] /\ pc[x] # "done"
        BY <1>2, <3>5
      <4> QED
        BY <1>1, <3>1, <3>6, <3>7, <3>8, <4>1, StillBusy
  <2>11. /\ p \in Places /\ n[x] + 1 \in Nat /\ m[x] + 1 \in Nat /\ m[x] + 1 >= m[x]
         /\ hs' \in [Sides -> Sessions] /\ hs'[Peer(x)] = hs[Peer(x)]
    BY <1>1, <2>1 DEF Places
  <2>12. Go(x, p)
    BY <2>1
  <2> HIDE DEF p
  <2> QED
    BY <1>1, <2>1, <2>9, <2>10, <2>11, <2>12, QuietStep
<1> QED
  BY <1>4, <1>5

(* The server's last words are one frame or two. *)
LEMMA WireLast ==
  ASSUME NEW n \in [Sides -> Nat], NEW m \in [Sides -> Nat], NEW x \in Sides,
         Sync(n, m), wire[x] # <<>>, NEW fs, NEW b \in Nat,
         wire' = [wire EXCEPT ![x] = Tail(@), ![Peer(x)] = @ \o fs],
         \/ b = m[x] + 1 /\ fs = <<FrameOf(opts, x, m[x] + 1)>>
         \/ b = m[x] + 2 /\ fs = <<FrameOf(opts, x, m[x] + 1), FrameOf(opts, x, m[x] + 2)>>
  PROVE  WireStep(n, m, x, n[x] + 1, b)
<1> DEFINE w == wire[Peer(x)]
           g == FrameOf(opts, x, m[x] + 1)
           f == FrameOf(opts, x, m[x] + 2)
<1>1. Peer(x) \in Sides /\ Peer(Peer(x)) = x /\ Peer(x) # x
  BY Peers
<1>2. /\ opts \in Configs /\ wire \in [Sides -> Seq(Frames)]
      /\ n[x] \in Nat /\ m[Peer(x)] \in Nat /\ n[Peer(x)] \in Nat /\ m[x] \in Nat
      /\ Stream(opts, x, wire[x], n[x], m[Peer(x)])
      /\ Stream(opts, Peer(x), w, n[Peer(x)], m[x])
  BY BothStreams
<1>3. Stream(opts, x, Tail(wire[x]), n[x] + 1, m[Peer(x)])
  BY <1>2, StreamTake
<1>4. Stream(opts, Peer(x), Append(w, g), n[Peer(x)], m[x] + 1)
  BY <1>1, <1>2, StreamPut
<1>5. Stream(opts, Peer(x), Append(Append(w, g), f), n[Peer(x)], (m[x] + 1) + 1)
  <2>1. m[x] + 1 \in Nat /\ f = FrameOf(opts, x, (m[x] + 1) + 1)
    BY <1>2
  <2> HIDE DEF g, f
  <2> QED
    BY <1>1, <1>2, <1>4, <2>1, StreamPut
<1>6. (m[x] + 1) + 1 = m[x] + 2
  BY <1>2
<1>7. w \in Seq(Frames) /\ g \in Frames /\ f \in Frames
  BY <1>1, <1>2, FrameTypes
<1>8. w \o <<g>> = Append(w, g) /\ w \o <<g, f>> = Append(Append(w, g), f)
  <2> HIDE DEF w, g, f
  <2>1. w \o <<g>> = Append(w, g)
    BY <1>7
  <2>2. w \o <<g, f>> = Append(Append(w, g), f)
    BY <1>7
  <2> QED
    BY <2>1, <2>2
<1>9. /\ wire'[Peer(x)] = w \o fs /\ wire'[x] = Tail(wire[x])
      /\ DOMAIN wire' = Sides /\ wire' = [y \in Sides |-> wire'[y]]
  BY <1>1, <1>2
<1>10. Stream(opts, Peer(x), w \o fs, n[Peer(x)], b)
  BY <1>4, <1>5, <1>6, <1>8
<1> QED
  BY <1>3, <1>9, <1>10 DEF WireStep

(* What a server knows of the client whose INITIATE it takes. *)
LEMMA GssServerHears ==
  ASSUME NEW n \in [Sides -> Nat], NEW m \in [Sides -> Nat], Sync(n, m),
         pc["server"] = "mechanism", wire["server"] # <<>>,
         Mechanism(opts["server"]) = "GSSAPI",
         Is(Head(wire["server"]), "INITIATE",
            IF Placeholder(opts["server"]) THEN "principal" ELSE "token")
  PROVE  LET x == "server" c == opts["client"] s == opts["server"] f == Head(wire[x]) IN
         /\ n[x] = m[x] /\ m[x] >= 2 /\ hs[x].greeted
         /\ hs[x].send_nonce = 1 /\ hs[x].recv_nonce = 0
         /\ Mechanism(c) = "GSSAPI" /\ Admitted(opts)
         /\ n[x] + 1 >= 3 /\ n[x] + 1 < HandshakeLen(opts, "client")
         /\ Placeholder(c) \/ c.gssapi_service_principal # ""
         /\ Placeholder(s) => m[x] = 2 /\ Placeholder(c) /\ f.body = c.gssapi_principal
         /\ ~Placeholder(s) => SameTokens(opts) /\ f.body = 2 * m[x] - 3
<1> DEFINE x == "server"
           f == Head(wire[x])
<1>1. /\ x \in Sides /\ "client" \in Sides /\ Peer(x) = "client" /\ opts \in Configs
      /\ Place(opts, x, pc[x], hs[x], sent[x], got[x], n[x], m[x])
      /\ n[x] \in Nat /\ m[x] \in Nat /\ Learnt(opts, "client", m["client"])
  BY Basics, Peers DEF Sides
<1>2. /\ n[x] = m[x] /\ m[x] >= 2 /\ hs[x].greeted
      /\ hs[x].send_nonce = 1 /\ hs[x].recv_nonce = 0
      /\ m[x] > 2 => SameTokens(opts)
  BY <1>1 DEF Place, AtStart
<1>3. f = FrameOf(opts, "client", n[x] + 1) /\ n[x] + 1 <= m["client"] /\ m["client"] \in Nat
  BY <1>1, HeadIs
<1>4. /\ Mechanism(opts["client"]) = "GSSAPI" /\ n[x] + 1 >= 3
      /\ n[x] + 1 < HandshakeLen(opts, "client")
      /\ Placeholder(opts["client"]) <=> Placeholder(opts[x])
  <2>1. /\ f.cmd = "INITIATE" /\ n[x] + 1 \in Nat /\ n[x] + 1 > 0
        /\ f.format = IF Placeholder(opts[x]) THEN "principal" ELSE "token"
    BY <1>1 DEF Is
  <2> QED
    BY <1>1, <1>3, <2>1, InitiateIs
<1>5. Placeholder(opts["client"]) \/ opts["client"].gssapi_service_principal # ""
  <2>1. m["client"] >= 3
    BY <1>1, <1>3, <1>4
  <2> QED
    BY <1>1, <1>4, <2>1 DEF Learnt
<1>6. Admitted(opts)
  BY <1>4 DEF Admitted
<1>7. CASE Placeholder(opts[x])
  <2>1. m[x] = 2
    BY <1>1, <1>2, <1>7 DEF SameTokens
  <2>2. 3 < HandshakeLen(opts, "client") /\ 3 <= HandshakeLen(opts, "client")
    BY <1>1, <1>2, <1>4, <2>1, Lengths
  <2>3. f = Frame("INITIATE", "principal", opts["client"].gssapi_principal)
    BY <1>1, <1>2, <1>3, <1>4, <1>7, <2>1, <2>2, GssFrame
  <2>4. f.body = opts["client"].gssapi_principal
    BY <2>3 DEF Frame
  <2> QED
    BY <1>2, <1>4, <1>5, <1>6, <1>7, <2>1, <2>4
<1>8. CASE ~Placeholder(opts[x])
  <2>1. SameTokens(opts)
    BY <1>1, <1>4, <1>8, ConfigTypes DEF SameTokens
  <2>2. f = Frame("INITIATE", "token", 2 * (n[x] + 1) - 5)
    BY <1>1, <1>3, <1>4, <1>8, ClientToken
  <2>3. f.body = 2 * (n[x] + 1) - 5
    BY <2>2 DEF Frame
  <2>4. 2 * (n[x] + 1) - 5 = 2 * m[x] - 3
    BY <1>1, <1>2
  <2> QED
    BY <1>2, <1>4, <1>5, <1>6, <1>8, <2>1, <2>3, <2>4
<1> QED
  BY <1>7, <1>8

(* The server of a library with more tokens to come stays where it is. *)
LEMMA GssServerAsks ==
  ASSUME NEW n \in [Sides -> Nat], NEW m \in [Sides -> Nat], Sync(n, m),
         pc["server"] = "mechanism", wire["server"] # <<>>,
         Mechanism(opts["server"]) = "GSSAPI", ~Placeholder(opts["server"]),
         Is(Head(wire["server"]), "INITIATE", "token"),
         Head(wire["server"]).body + 1 < opts["server"].gssapi_rounds,
         Answer("server", Token(Head(wire["server"]).body + 1)),
         UNCHANGED <<pc, hs, seen>>, NoBox, NoTraffic
  PROVE  IInv'
<1> DEFINE x == "server"
           r == opts[x].gssapi_rounds
           L == HandshakeLen(opts, x)
           f == Head(wire[x])
<1>1. /\ x \in Sides /\ hs \in [Sides -> Sessions] /\ opts \in Configs
      /\ pc \in [Sides -> Places]
      /\ Place(opts, x, pc[x], hs[x], sent[x], got[x], n[x], m[x])
      /\ n[x] \in Nat /\ m[x] \in Nat
  BY Basics DEF Sides
<1>2. /\ n[x] = m[x] /\ m[x] >= 2 /\ hs[x].greeted
      /\ hs[x].send_nonce = 1 /\ hs[x].recv_nonce = 0
      /\ Admitted(opts) /\ SameTokens(opts) /\ f.body = 2 * m[x] - 3
  BY GssServerHears
<1>3. r \in Nat /\ L \in Nat /\ r + 5 <= 2 * L
  BY <1>1, ServerLength
<1>4. f.body + 1 = 2 * m[x] - 2 /\ 2 * m[x] - 2 < r
  <2>1. f.body + 1 < r
    OBVIOUS
  <2> HIDE DEF f
  <2> QED
    BY <1>1, <1>2, <2>1
<1>5. m[x] + 1 \in Nat /\ m[x] + 1 >= 3 /\ m[x] + 1 < L
  BY <1>1, <1>2, <1>3, <1>4
<1>6. WireStep(n, m, x, n[x] + 1, m[x] + 1)
  <2>1. FrameOf(opts, x, m[x] + 1) = Frame("INITIATE", "token", 2 * (m[x] + 1) - 4)
    BY <1>1, <1>5, ServerToken
  <2>2. 2 * (m[x] + 1) - 4 = f.body + 1
    BY <1>1, <1>4
  <2>3. Token(f.body + 1) = FrameOf(opts, x, m[x] + 1)
    BY <2>1, <2>2 DEF Token
  <2>4. Answer(x, Token(f.body + 1))
    OBVIOUS
  <2> HIDE DEF f
  <2> QED
    BY <1>1, <2>3, <2>4, WireAnswer
<1>7. Place(opts, x, "mechanism", hs'[x], sent[x], got[x], n[x] + 1, m[x] + 1)
  <2>1. Learnt(opts, x, m[x] + 1)
    <3>1. ~(m[x] + 1 >= HandshakeLen(opts, x))
      BY <1>3, <1>5
    <3> QED
      BY <1>2, <3>1 DEF Learnt
  <2>2. hs'[x] = hs[x]
    OBVIOUS
  <2>3. n[x] + 1 = m[x] + 1 /\ m[x] + 1 > 2 /\ 2 * (m[x] + 1) - 4 < opts[x].gssapi_rounds
    BY <1>1, <1>2, <1>4
  <2>4. AtStart(opts, x, "mechanism", hs'[x], n[x] + 1, m[x] + 1)
    BY <1>2, <2>2, <2>3 DEF AtStart
  <2>5. AtCommands(opts, x, "mechanism", hs'[x], n[x] + 1, m[x] + 1)
    BY DEF AtCommands
  <2>6. m[x] + 1 <= HandshakeLen(opts, x) /\ pc[x] # "done"
    BY <1>3, <1>5
  <2> QED
    BY <1>1, <1>5, <2>1, <2>2, <2>4, <2>5, <2>6, StillBusy
<1>8. /\ Go(x, "mechanism") /\ "mechanism" \in Places
      /\ n[x] + 1 \in Nat /\ m[x] + 1 >= m[x]
      /\ hs' \in [Sides -> Sessions] /\ hs'[Peer(x)] = hs[Peer(x)]
  BY <1>1 DEF Go, Places
<1> QED
  BY <1>1, <1>5, <1>6, <1>7, <1>8, QuietStep

(* The number of tokens r decides which frame is a side's last. *)
LEMMA LastToken ==
  ASSUME NEW k \in Nat, NEW r \in Nat, NEW L \in Nat, NEW K \in Nat,
         k >= 2, k + 1 < K, ~(2 * k - 2 < r),
         2 * L <= r + 6, r + 5 <= 2 * L, 2 * K <= r + 7, r + 6 <= 2 * K
  PROVE  /\ K = k + 2
         /\ \/ 2 * k - 2 > r /\ L = k + 1
            \/ ~(2 * k - 2 > r) /\ L = k + 2
<1>1. r = 2 * k - 3 \/ r = 2 * k - 2
  OBVIOUS
<1> QED
  BY <1>1

(* The server that has authorized the client says READY. *)
LEMMA GssServerReady ==
  ASSUME NEW n \in [Sides -> Nat], NEW m \in [Sides -> Nat], Sync(n, m),
         pc["server"] = "mechanism", wire["server"] # <<>>,
         Mechanism(opts["server"]) = "GSSAPI",
         Is(Head(wire["server"]), "INITIATE",
            IF Placeholder(opts["server"]) THEN "principal" ELSE "token"),
         Placeholder(opts["server"])
           \/ ~(Head(wire["server"]).body + 1 < opts["server"].gssapi_rounds),
         GssAuthorized(opts["server"],
                       IF Placeholder(opts["server"]) THEN Head(wire["server"]).body
                       ELSE opts["client"].gssapi_principal),
         NEW fs,
         fs = IF \/ Placeholder(opts["server"])
                 \/ Head(wire["server"]).body + 1 > opts["server"].gssapi_rounds
              THEN <<GssReadyFrame("server")>>
              ELSE <<Token(Head(wire["server"]).body + 1), GssReadyFrame("server")>>,
         Go("server", "ready"),
         wire' = [wire EXCEPT !["server"] = Tail(@), !["client"] = @ \o fs],
         UNCHANGED <<hs, seen>>, NoBox, NoTraffic
  PROVE  IInv'
<1> DEFINE x == "server"
           c == opts["client"]
           o == opts[x]
           r == o.gssapi_rounds
           L == HandshakeLen(opts, x)
           Lc == HandshakeLen(opts, "client")
           f == Head(wire[x])
<1>1. /\ x \in Sides /\ "client" \in Sides /\ Peer(x) = "client"
      /\ hs \in [Sides -> Sessions] /\ opts \in Configs
      /\ Place(opts, x, pc[x], hs[x], sent[x], got[x], n[x], m[x])
      /\ n[x] \in Nat /\ m[x] \in Nat
  BY Basics, Peers DEF Sides
<1>2. /\ n[x] = m[x] /\ m[x] >= 2 /\ hs[x].greeted
      /\ Mechanism(c) = "GSSAPI" /\ Admitted(opts)
      /\ n[x] + 1 >= 3 /\ n[x] + 1 < Lc
      /\ Placeholder(c) \/ c.gssapi_service_principal # ""
      /\ Placeholder(o) => m[x] = 2 /\ Placeholder(c) /\ f.body = c.gssapi_principal
      /\ ~Placeholder(o) => SameTokens(opts) /\ f.body = 2 * m[x] - 3
  BY GssServerHears
<1>k. n[x] = m[x] /\ m[x] \in Nat /\ m[x] >= 2
  BY <1>1, <1>2
<1>3. r \in Nat /\ L \in Nat /\ 2 * L <= r + 6 /\ r + 5 <= 2 * L
  BY <1>1, ServerLength
<1>4. /\ Lc \in Nat
      /\ c.gssapi_rounds = 0 => Lc = 4
      /\ c.gssapi_rounds > 0 => 2 * Lc <= c.gssapi_rounds + 7 /\ c.gssapi_rounds + 6 <= 2 * Lc
  BY <1>1, <1>2, ClientLength
<1>5. GssReadyFrame(x) = FrameOf(opts, x, L)
  BY <1>1, GssReadyIs
<1>6. /\ n[x] + 1 = Lc - 1
      /\ \/ L = m[x] + 1 /\ fs = <<FrameOf(opts, x, m[x] + 1)>>
         \/ L = m[x] + 2 /\ fs = <<FrameOf(opts, x, m[x] + 1), FrameOf(opts, x, m[x] + 2)>>
  <2>1. CASE Placeholder(o)
    <3>1. r = 0 /\ c.gssapi_rounds = 0 /\ m[x] = 2
      BY <1>2, <2>1 DEF Placeholder
    <3>2. L = 3 /\ Lc = 4
      BY <1>3, <1>4, <3>1
    <3>4. L = m[x] + 1 /\ n[x] + 1 = Lc - 1
      BY <1>k, <3>1, <3>2
    <3>3. fs = <<FrameOf(opts, x, L)>>
      BY <1>5, <2>1
    <3> QED
      BY <3>3, <3>4
  <2>2. CASE ~Placeholder(o)
    <3>1. SameTokens(opts) /\ f.body = 2 * m[x] - 3
      BY <1>2, <2>2
    <3>2. c.gssapi_rounds = r /\ r > 0
      BY <1>3, <2>2, <3>1 DEF SameTokens, Placeholder
    <3>3. 2 * Lc <= r + 7 /\ r + 6 <= 2 * Lc
      BY <1>4, <3>2
    <3>4. f.body + 1 = 2 * m[x] - 2
      <4> HIDE DEF f
      <4> QED
        BY <1>1, <3>1
    <3>5. ~(2 * m[x] - 2 < r)
      BY <2>2, <3>4
    <3>6. /\ Lc = m[x] + 2
          /\ \/ 2 * m[x] - 2 > r /\ L = m[x] + 1
             \/ ~(2 * m[x] - 2 > r) /\ L = m[x] + 2
      <4>1. m[x] \in Nat /\ m[x] >= 2 /\ m[x] + 1 < Lc
        BY <1>1, <1>2
      <4> HIDE DEF r, L, Lc
      <4> QED
        BY <1>3, <1>4, <3>3, <3>5, <4>1, LastToken
    <3>7. n[x] + 1 = Lc - 1
      BY <1>k, <3>6
    <3>8. CASE 2 * m[x] - 2 > r
      <4>1. fs = <<FrameOf(opts, x, L)>>
        BY <1>5, <3>4, <3>8
      <4> QED
        BY <3>6, <3>7, <3>8, <4>1
    <3>9. CASE ~(2 * m[x] - 2 > r)
      <4>1. L = m[x] + 2 /\ m[x] + 1 \in Nat /\ m[x] + 1 >= 3 /\ m[x] + 1 < L
        BY <1>k, <3>6, <3>9
      <4>2. fs = <<Token(2 * m[x] - 2), FrameOf(opts, x, L)>>
        BY <1>5, <2>2, <3>4, <3>9
      <4>3. FrameOf(opts, x, m[x] + 1) = Frame("INITIATE", "token", 2 * (m[x] + 1) - 4)
        BY <1>1, <2>2, <4>1, ServerToken
      <4>4. 2 * (m[x] + 1) - 4 = 2 * m[x] - 2
        BY <1>1
      <4>5. Token(2 * m[x] - 2) = FrameOf(opts, x, m[x] + 1)
        BY <4>3, <4>4 DEF Token
      <4> QED
        BY <3>7, <4>1, <4>2, <4>5
    <3> QED
      BY <3>8, <3>9
  <2> QED
    BY <2>1, <2>2
<1>7. WireStep(n, m, x, n[x] + 1, L)
  <2>1. wire' = [wire EXCEPT ![x] = Tail(@), ![Peer(x)] = @ \o fs]
    BY <1>1
  <2> HIDE DEF L
  <2> QED
    BY <1>1, <1>3, <1>6, <2>1, WireLast
<1>8. Entitled(c, o)
  <2>1. GssAuthorized(o, c.gssapi_principal)
    BY <1>2
  <2>2. IF o.zap # "none" THEN o.zap = "200"
        ELSE Placeholder(o) /\ o.gssapi_principal # ""
               => o.gssapi_principal = c.gssapi_principal
    BY <2>1 DEF GssAuthorized, Authorize, AuthorizeLocally
  <2> QED
    BY <1>2, <2>2 DEF Entitled
<1>9. Place(opts, x, "ready", hs'[x], sent[x], got[x], n[x] + 1, L)
  <2>1. Learnt(opts, x, L)
    BY <1>2, <1>8 DEF Learnt, Compatible
  <2>2. hs'[x] = hs[x] /\ pc[x] # "done" /\ "ready" # "done" /\ L <= L
    BY <1>3
  <2>3. AtStart(opts, x, "ready", hs'[x], n[x] + 1, L)
    BY DEF AtStart
  <2>4. AtCommands(opts, x, "ready", hs'[x], n[x] + 1, L)
    BY <1>2, <1>6, <2>2 DEF AtCommands
  <2> QED
    BY <1>1, <1>3, <2>1, <2>2, <2>3, <2>4, StillBusy
<1>10. /\ "ready" \in Places /\ n[x] + 1 \in Nat /\ L >= m[x]
       /\ hs' \in [Sides -> Sessions] /\ hs'[Peer(x)] = hs[Peer(x)]
  BY <1>1, <1>6 DEF Places
<1> QED
  BY <1>1, <1>3, <1>7, <1>9, <1>10, QuietStep

LEMMA GssServerInitiateStep ==
  ASSUME NEW n \in [Sides -> Nat], NEW m \in [Sides -> Nat], Sync(n, m), GssServerInitiate
  PROVE  IInv'
<1> DEFINE x == "server"
           o == opts[x]
           f == Head(wire[x])
           fs == IF Placeholder(o) \/ f.body + 1 > o.gssapi_rounds
                 THEN <<GssReadyFrame(x)>>
                 ELSE <<Token(f.body + 1), GssReadyFrame(x)>>
<1>1. pc[x] = "mechanism" /\ wire[x] # <<>> /\ Mechanism(o) = "GSSAPI" /\ x \in Sides
  BY DEF GssServerInitiate, Heard, Sides
<1>2. CASE Refuse(x)
  BY <1>1, <1>2, RefuseStep
<1>3. CASE ~Refuse(x)
  <2>1. Is(f, "INITIATE", IF Placeholder(o) THEN "principal" ELSE "token")
    BY <1>3 DEF GssServerInitiate
  <2>2. CASE ~Placeholder(o) /\ f.body + 1 < o.gssapi_rounds
    <3>1. Answer(x, Token(f.body + 1)) /\ UNCHANGED <<pc, hs, seen>> /\ NoBox /\ NoTraffic
      BY <1>3, <2>1, <2>2 DEF GssServerInitiate
    <3>2. Is(f, "INITIATE", "token")
      BY <2>1, <2>2
    <3> QED
      BY <1>1, <2>2, <3>1, <3>2, GssServerAsks
  <2>3. CASE ~(~Placeholder(o) /\ f.body + 1 < o.gssapi_rounds)
    <3>1. /\ GssAuthorized(o, IF Placeholder(o) THEN f.body
                              ELSE opts["client"].gssapi_principal)
          /\ Go(x, "ready")
          /\ wire' = [wire EXCEPT ![x] = Tail(@), !["client"] = @ \o fs]
          /\ UNCHANGED <<hs, seen>> /\ NoBox /\ NoTraffic
      BY <1>3, <2>1, <2>3 DEF GssServerInitiate
    <3>2. Placeholder(o) \/ ~(f.body + 1 < o.gssapi_rounds)
      BY <2>3
    <3> QED
      BY <1>1, <2>1, <3>1, <3>2, GssServerReady
  <2> QED
    BY <2>2, <2>3
<1> QED
  BY <1>2, <1>3

(* Who says READY to a side of GSSAPI in the format of its session. *)
LEMMA GssReadyHeard ==
  ASSUME NEW n \in [Sides -> Nat], NEW m \in [Sides -> Nat], Sync(n, m), NEW x \in Sides,
         pc[x] = "ready", wire[x] # <<>>, Mechanism(opts[x]) = "GSSAPI",
         Is(Head(wire[x]), "READY",
            IF GssSession(opts[x]) = "none" THEN "metadata" ELSE "GSSAPI")
  PROVE  LET y == Peer(x) IN
         /\ n[x] + 1 = HandshakeLen(opts, y) /\ hs[x].greeted
         /\ Head(wire[x]).body = opts[y].routing_id
         /\ SessionOf(opts, x) = GssSession(opts[x])
         /\ SessionOf(opts, x) = SessionOf(opts, y)
         /\ Compatible(opts)
         /\ x = "client" => m[x] + 1 = HandshakeLen(opts, x) /\ m[x] >= 3
         /\ x = "server" => m[x] = HandshakeLen(opts, x)
<1> DEFINE y == Peer(x)
           f == Head(wire[x])
<1>1. /\ opts \in Configs /\ y \in Sides /\ n[x] \in Nat /\ m[x] \in Nat /\ m[y] \in Nat
      /\ Place(opts, x, pc[x], hs[x], sent[x], got[x], n[x], m[x])
      /\ Learnt(opts, x, m[x]) /\ Learnt(opts, y, m[y])
      /\ HandshakeLen(opts, y) \in Nat /\ HandshakeLen(opts, y) >= 3
      /\ HandshakeLen(opts, x) \in Nat /\ HandshakeLen(opts, x) >= 3
  BY Basics, Peers
<1>2. f = FrameOf(opts, y, n[x] + 1) /\ n[x] + 1 <= m[y]
  BY HeadIs
<1>3. f.cmd = "READY" /\ f.format = IF GssSession(opts[x]) = "none" THEN "metadata" ELSE "GSSAPI"
  BY DEF Is
<1>4. /\ n[x] + 1 = HandshakeLen(opts, y)
      /\ \/ Mechanism(opts[y]) = "NULL" /\ f = Frame("READY", "metadata", opts[y].routing_id)
         \/ /\ Mechanism(opts[y]) = "PLAIN" /\ y = "server"
            /\ f = Frame("READY", "metadata", opts[y].routing_id)
         \/ Mechanism(opts[y]) = "CURVE" /\ y = "server" /\ f.format = "CURVE"
         \/ /\ Mechanism(opts[y]) = "GSSAPI" /\ GssSession(opts[y]) = "none"
            /\ f = Frame("READY", "metadata", opts[y].routing_id)
         \/ /\ Mechanism(opts[y]) = "GSSAPI" /\ GssSession(opts[y]) # "none"
            /\ f = Frame("READY", "GSSAPI", opts[y].routing_id)
  <2>1. n[x] + 1 \in Nat /\ n[x] + 1 > 0
    BY <1>1
  <2> QED
    BY <1>1, <1>2, <1>3, <2>1, ReadyIs
<1>5. SessionOf(opts, x) = GssSession(opts[x])
  BY DEF SessionOf
<1>6. CASE x = "client"
  <2>1. y = "server"
    BY <1>6, Peers
  <2>2. /\ m[x] = HandshakeLen(opts, x) - 1
        /\ n[x] = IF hs[x].greeted THEN m[x] - 1 ELSE 0
    BY <1>1, <1>6 DEF Place, AtCommands
  <2>3. hs[x].greeted
    BY <1>1, <1>4, <2>2
  <2>4. m[x] + 1 = HandshakeLen(opts, x) /\ m[x] >= 3
    <3>1. HandshakeLen(opts, x) >= 4
      <4> DEFINE r == opts["client"].gssapi_rounds
      <4>1. /\ r \in Nat /\ (r = 0 => HandshakeLen(opts, "client") = 4)
            /\ (r > 0 => r + 6 <= 2 * HandshakeLen(opts, "client"))
        BY <1>1, <1>6, ClientLength
      <4> HIDE DEF r
      <4> QED
        BY <1>1, <1>6, <4>1
    <3> QED
      BY <1>1, <2>2, <3>1
  <2>5. Mechanism(opts[y]) # "NULL" => Compatible(opts)
    <3>1. m[y] >= HandshakeLen(opts, y)
      BY <1>1, <1>2, <1>4
    <3> QED
      BY <1>1, <3>1 DEF Learnt
  <2>6. \/ Mechanism(opts[y]) = "NULL" /\ f = Frame("READY", "metadata", opts[y].routing_id)
        \/ /\ Mechanism(opts[y]) = "GSSAPI" /\ GssSession(opts[y]) = "none"
           /\ f = Frame("READY", "metadata", opts[y].routing_id)
        \/ /\ Mechanism(opts[y]) = "GSSAPI" /\ GssSession(opts[y]) # "none"
           /\ f = Frame("READY", "GSSAPI", opts[y].routing_id)
    BY <1>4, <1>6, <2>1, <2>5 DEF Compatible
  <2>7. /\ f.body = opts[y].routing_id /\ SessionOf(opts, x) = SessionOf(opts, y)
        /\ Mechanism(opts[y]) = "NULL" => GssSession(opts[x]) = "none"
    BY <1>3, <1>5, <2>6 DEF Frame, SessionOf, GssSession
  <2>8. Compatible(opts)
    BY <1>6, <2>1, <2>5, <2>7 DEF Compatible
  <2> QED
    BY <1>4, <1>5, <1>6, <2>3, <2>4, <2>7, <2>8
<1>7. CASE x = "server"
  <2>1. y = "client"
    BY <1>7, Peers
  <2>2. m[x] = HandshakeLen(opts, x) /\ hs[x].greeted
    BY <1>1, <1>7 DEF Place, AtCommands
  <2>3. Admitted(opts)
    BY <1>1, <1>7, <2>2 DEF Learnt
  <2>4. Mechanism(opts[y]) = "GSSAPI"
    BY <1>7, <2>1, <2>3 DEF Admitted
  <2>5. f.body = opts[y].routing_id /\ SessionOf(opts, x) = SessionOf(opts, y)
    BY <1>3, <1>4, <1>5, <2>4 DEF Frame, SessionOf, GssSession
  <2>6. Compatible(opts)
    BY <2>3 DEF Compatible, Admitted
  <2> QED
    BY <1>4, <1>5, <1>7, <2>2, <2>5, <2>6
<1> QED
  BY <1>6, <1>7 DEF Sides

LEMMA GssReadyStep ==
  ASSUME NEW n \in [Sides -> Nat], NEW m \in [Sides -> Nat], Sync(n, m), NEW x \in Sides,
         GssReady(x)
  PROVE  IInv'
<1> DEFINE y == Peer(x)
           o == opts[x]
           L == HandshakeLen(opts, x)
           f == Head(wire[x])
           s == hs[x]
<1>1. /\ opts \in Configs /\ y \in Sides /\ y # x /\ n[x] \in Nat /\ m[x] \in Nat
      /\ hs \in [Sides -> Sessions] /\ hs[x] \in Sessions
      /\ Place(opts, x, pc[x], hs[x], sent[x], got[x], n[x], m[x])
      /\ Learnt(opts, x, m[x]) /\ Boxes(m) /\ L \in Nat /\ L >= 3
      /\ HandshakeLen(opts, y) \in Nat
  BY Basics, Peers
<1>2. pc[x] = "ready" /\ wire[x] # <<>> /\ Mechanism(o) = "GSSAPI"
  BY DEF GssReady, Heard
<1>3. CASE Refuse(x)
  BY <1>1, <1>2, <1>3, RefuseStep
<1>4. CASE ~Refuse(x)
  <2>1. /\ Is(f, "READY", IF GssSession(o) = "none" THEN "metadata" ELSE "GSSAPI")
        /\ Go(x, "done")
        /\ hs' = [hs EXCEPT ![x].session = GssSession(o), ![x].peer_ready = TRUE]
        /\ seen' = [seen EXCEPT ![x] = f.body]
        /\ IF x = "client" THEN Answer(x, GssReadyFrame(x)) ELSE Hear(x)
        /\ NoBox /\ NoTraffic
    BY <1>4 DEF GssReady
  <2>2. /\ n[x] + 1 = HandshakeLen(opts, y) /\ s.greeted
        /\ f.body = opts[y].routing_id
        /\ SessionOf(opts, x) = GssSession(o)
        /\ SessionOf(opts, x) = SessionOf(opts, y)
        /\ Compatible(opts)
        /\ x = "client" => m[x] + 1 = L /\ m[x] >= 3
        /\ x = "server" => m[x] = L
    BY <1>2, <2>1, GssReadyHeard
  <2>3. WireStep(n, m, x, n[x] + 1, L)
    <3>1. CASE x = "client"
      <4>1. m[x] + 1 = L
        BY <2>2, <3>1
      <4>2. GssReadyFrame(x) = FrameOf(opts, x, L)
        BY <1>1, <1>2, GssReadyIs
      <4>3. GssReadyFrame(x) = FrameOf(opts, x, m[x] + 1) /\ Answer(x, GssReadyFrame(x))
        BY <2>1, <3>1, <4>1, <4>2
      <4>4. WireStep(n, m, x, n[x] + 1, m[x] + 1)
        BY <1>1, <1>2, <4>3, WireAnswer
      <4> QED
        BY <4>1, <4>4
    <3>2. CASE x = "server"
      <4>1. Hear(x) /\ m[x] = L
        BY <2>1, <2>2, <3>2
      <4>2. WireStep(n, m, x, n[x] + 1, m[x])
        BY <1>1, <1>2, <4>1, WireHear
      <4> QED
        BY <4>1, <4>2
    <3> QED
      BY <3>1, <3>2 DEF Sides
  <2>4. /\ hs' \in [Sides -> Sessions] /\ hs'[y] = hs[y]
        /\ hs'[x].send_nonce = s.send_nonce /\ hs'[x].greeted
        /\ hs'[x].session = GssSession(o) /\ hs'[x].peer_ready
    <3>1. hs \in [Sides -> Sessions] /\ s \in Sessions /\ x \in Sides /\ y \in Sides /\ y # x
      BY <1>1
    <3>2. /\ hs'[x] = [s EXCEPT !.session = GssSession(o), !.peer_ready = TRUE]
          /\ hs'[y] = hs[y]
      BY <2>1, <3>1
    <3>3. s \in Sessions /\ s.greeted
      BY <1>1, <2>2
    <3>4. GssSession(o) \in {"none", "CURVE", "GSSAPI"}
      BY DEF GssSession
    <3> DEFINE g == hs'[x]
               k == GssSession(o)
    <3> HIDE DEF s, g, k
    <3>s. s \in Sessions /\ k \in {"none", "CURVE", "GSSAPI"}
      BY <3>3, <3>4 DEF k
    <3>g. g = [s EXCEPT !.session = k, !.peer_ready = TRUE]
      BY <3>2 DEF g, k
    <3>5. /\ g \in Sessions /\ g.session = k /\ g.peer_ready
          /\ g.send_nonce = s.send_nonce /\ g.greeted = s.greeted
      BY <3>s, <3>g DEF Sessions
    <3>6. hs' \in [Sides -> Sessions]
      BY <2>1, <3>1, <3>5 DEF g
    <3> QED
      BY <3>2, <3>3, <3>5, <3>6 DEF g, k
  <2>5. Learnt(opts, x, L)
    <3>1. CASE x = "client"
      <4>1. Placeholder(opts[x]) \/ opts[x].gssapi_service_principal # ""
        BY <1>1, <1>2, <2>2, <3>1 DEF Learnt
      <4>2. ~(L < L) /\ Peer(x) = "server"
        BY <1>1, <3>1, Peers
      <4> QED
        BY <2>2, <3>1, <4>1, <4>2 DEF Learnt
    <3>2. CASE x = "server"
      BY <1>1, <2>2, <3>2
    <3> QED
      BY <3>1, <3>2 DEF Sides
  <2>6. Place(opts, x, "done", hs'[x], sent[x], got[x], n[x] + 1, L)
    <3>1. sent[x] = 0 /\ got[x] = <<>> /\ Len(got[x]) = 0 /\ s.send_nonce \in 1..(3 + sent[x])
      BY <1>1, <1>2 DEF Place
    <3>2. AtDone(opts, x, "done", hs'[x], sent[x], got[x], n[x] + 1, L)
      <4>1. L = L + sent[x] /\ n[x] + 1 = HandshakeLen(opts, Peer(x)) + Len(got[x])
        BY <1>1, <2>2, <3>1
      <4>2. hs'[x].session = SessionOf(opts, x) /\ SessionOf(opts, x) = SessionOf(opts, Peer(x))
        BY <2>2, <2>4
      <4> QED
        BY <1>2, <2>4, <4>1, <4>2 DEF AtDone
    <3>3. L <= L + sent[x] /\ hs'[x].send_nonce \in 1..(3 + sent[x])
      BY <1>1, <2>4, <3>1
    <3>4. AtStart(opts, x, "done", hs'[x], n[x] + 1, L)
      BY DEF AtStart
    <3>5. AtCommands(opts, x, "done", hs'[x], n[x] + 1, L)
      BY DEF AtCommands
    <3> QED
      BY <2>5, <3>1, <3>2, <3>3, <3>4, <3>5 DEF Place
  <2>7. seen' \in [Sides -> Names] /\ Named'
    BY <2>1, <2>2, NamedNow DEF NoTraffic
  <2>8. "done" \in Places /\ n[x] + 1 \in Nat /\ L >= m[x]
    <3>1. L >= m[x]
      BY <1>1, <2>2 DEF Sides
    <3> QED
      BY <1>1, <3>1 DEF Places
  <2>9. PICK b \in Nat : b = L
    BY <1>1
  <2>10. Boxes([m EXCEPT ![x] = b])'
    BY <1>1, <2>1, <2>8, <2>9, BoxesKept
  <2>11. /\ WireStep(n, m, x, n[x] + 1, b)
         /\ Place(opts, x, "done", hs'[x], sent[x], got[x], n[x] + 1, b)
    BY <2>3, <2>6, <2>9
  <2> QED
    BY <1>1, <2>1, <2>4, <2>7, <2>8, <2>10, <2>11, CommandStep
<1> QED
  BY <1>3, <1>4

(* The client gives up. *)
LEMMA ReadTimeoutStep ==
  ASSUME NEW n \in [Sides -> Nat], NEW m \in [Sides -> Nat], Sync(n, m), ReadTimeout
  PROVE  IInv'
<1> DEFINE x == "client"
<1>1. /\ x \in Sides /\ opts \in Configs /\ n[x] \in Nat /\ m[x] \in Nat
      /\ hs \in [Sides -> Sessions]
      /\ Place(opts, x, pc[x], hs[x], sent[x], got[x], n[x], m[x])
      /\ Learnt(opts, x, m[x]) /\ HandshakeLen(opts, x) \in Nat
  BY Basics DEF Sides
<1>2. pc[x] # "done" /\ Go(x, "timeout") /\ UNCHANGED <<wire, hs, seen>> /\ NoBox /\ NoTraffic
  BY DEF ReadTimeout
<1>3. WireStep(n, m, x, n[x], m[x])
  BY <1>1, <1>2, WireSame
<1>4. Place(opts, x, "timeout", hs'[x], sent[x], got[x], n[x], m[x])
  <2>1. m[x] <= HandshakeLen(opts, x)
    BY <1>1, <1>2 DEF Place
  <2>2. AtStart(opts, x, "timeout", hs[x], n[x], m[x])
    BY DEF AtStart
  <2>3. AtCommands(opts, x, "timeout", hs[x], n[x], m[x])
    BY DEF AtCommands
  <2>4. hs'[x] = hs[x] /\ "timeout" # "done"
    BY <1>2
  <2> QED
    BY <1>1, <1>2, <2>1, <2>2, <2>3, <2>4, StillBusy
<1>5. "timeout" \in Places /\ m[x] >= m[x] /\ hs' \in [Sides -> Sessions]
      /\ hs'[Peer(x)] = hs[Peer(x)]
  BY <1>1, <1>2 DEF Places
<1> QED
  BY <1>1, <1>2, <1>3, <1>4, <1>5, QuietStep

-----------------------------------------------------------------------------
(* After the handshake. *)

LEMMA LearntMore ==
  ASSUME NEW o \in Configs, NEW x \in Sides, NEW k \in Nat, NEW j \in Nat,
         k >= HandshakeLen(o, x), j >= k, Learnt(o, x, k)
  PROVE  Learnt(o, x, j)
<1>1. HandshakeLen(o, x) \in Nat /\ HandshakeLen(o, x) >= 3
  BY Lengths
<1>2. k >= 3 /\ ~(j < HandshakeLen(o, x))
  BY <1>1
<1> QED
  BY <1>2 DEF Learnt

LEMMA CurveSession ==
  ASSUME NEW o \in Configs, NEW x \in Sides
  PROVE  SessionOf(o, x) = "CURVE" <=> Mechanism(o[x]) = "CURVE"
BY Mechanisms DEF SessionOf, GssSession

(* What the invariant says of a side at the end of the handshake. *)
LEMMA WhenDone ==
  ASSUME NEW n \in [Sides -> Nat], NEW m \in [Sides -> Nat], Sync(n, m), NEW x \in Sides,
         pc[x] = "done"
  PROVE  LET M == Mechanism(opts[x])
             y == Peer(x)
             h == hs[x] IN
         /\ y \in Sides /\ y # x /\ Peer(y) = x
         /\ opts \in Configs /\ h \in Sessions /\ hs \in [Sides -> Sessions]
         /\ n[x] \in Nat /\ m[x] \in Nat /\ sent[x] \in Nat
         /\ got[x] \in Seq(Nat) /\ Len(got[x]) \in Nat
         /\ HandshakeLen(opts, x) \in Nat /\ HandshakeLen(opts, x) >= 3
         /\ HandshakeLen(opts, y) \in Nat /\ HandshakeLen(opts, y) >= 3
         /\ Learnt(opts, x, m[x]) /\ m[x] >= HandshakeLen(opts, x)
         /\ h.send_nonce \in 1..(3 + sent[x])
         /\ \A i \in 1..Len(got[x]) : got[x][i] = i
         /\ m[x] = HandshakeLen(opts, x) + sent[x]
         /\ h.session = SessionOf(opts, x)
         /\ ~h.peer_ready =>
              /\ M = "NULL" \/ (M = "PLAIN" /\ x = "client" /\ h.greeted)
              /\ got[x] = <<>> /\ n[x] < HandshakeLen(opts, y)
              /\ h.greeted => n[x] >= 2
              /\ ~h.greeted => n[x] = 0
         /\ h.peer_ready =>
              /\ h.greeted /\ n[x] = HandshakeLen(opts, y) + Len(got[x])
              /\ SessionOf(opts, x) = SessionOf(opts, y)
         /\ M = "CURVE" =>
              /\ h.peer_ready /\ h.peer_transient = y
              /\ h.send_nonce = FirstNonce(x) + sent[x]
              /\ h.recv_nonce = FirstNonce(y) + Len(got[x]) - 1
<1>1. Peer(x) \in Sides /\ Peer(x) # x /\ Peer(Peer(x)) = x
  BY Peers
<1>2. /\ opts \in Configs /\ hs \in [Sides -> Sessions] /\ hs[x] \in Sessions
      /\ n[x] \in Nat /\ m[x] \in Nat /\ sent[x] \in Nat
      /\ got[x] \in Seq(Nat) /\ Len(got[x]) \in Nat
      /\ HandshakeLen(opts, x) \in Nat /\ HandshakeLen(opts, x) >= 3
      /\ HandshakeLen(opts, Peer(x)) \in Nat /\ HandshakeLen(opts, Peer(x)) >= 3
      /\ Place(opts, x, pc[x], hs[x], sent[x], got[x], n[x], m[x])
      /\ Learnt(opts, x, m[x])
  BY Basics
<1>3. /\ hs[x].send_nonce \in 1..(3 + sent[x]) /\ \A i \in 1..Len(got[x]) : got[x][i] = i
      /\ AtDone(opts, x, pc[x], hs[x], sent[x], got[x], n[x], m[x])
  BY <1>2 DEF Place
<1>4. m[x] = HandshakeLen(opts, x) + sent[x]
  BY <1>3 DEF AtDone
<1>5. m[x] >= HandshakeLen(opts, x)
  BY <1>2, <1>4
<1> QED
  BY <1>1, <1>2, <1>3, <1>4, <1>5 DEF AtDone

(* The end of the handshake is a place like any other. *)
LEMMA StillDone ==
  ASSUME NEW o \in Configs, NEW x \in Sides, NEW h, NEW s, NEW g, NEW a, NEW b,
         h.send_nonce \in 1..(3 + s), \A i \in 1..Len(g) : g[i] = i,
         b <= HandshakeLen(o, x) + s, Learnt(o, x, b),
         AtDone(o, x, "done", h, s, g, a, b)
  PROVE  Place(o, x, "done", h, s, g, a, b)
BY DEF Place, AtStart, AtCommands

(* A message in a CURVE session has the next nonce. *)
LEMMA SendMessageStep ==
  ASSUME NEW n \in [Sides -> Nat], NEW m \in [Sides -> Nat], Sync(n, m), NEW x \in Sides,
         SendMessage(x)
  PROVE  IInv'
<1> DEFINE y == Peer(x)
           L == HandshakeLen(opts, x)
           j == sent[x] + 1
           s == hs[x]
<1>1. /\ pc[x] = "done" /\ sent[x] < MaxMessages
      /\ sent' = [sent EXCEPT ![x] = j]
      /\ UNCHANGED <<opts, pc, seen, got>>
  BY DEF SendMessage
<1>2. /\ y \in Sides /\ y # x /\ Peer(y) = x
      /\ opts \in Configs /\ s \in Sessions /\ hs \in [Sides -> Sessions]
      /\ n[x] \in Nat /\ m[x] \in Nat /\ sent[x] \in Nat
      /\ L \in Nat /\ L >= 3
      /\ Learnt(opts, x, m[x]) /\ m[x] >= L /\ m[x] = L + sent[x]
      /\ s.send_nonce \in 1..(3 + sent[x]) /\ \A i \in 1..Len(got[x]) : got[x][i] = i
      /\ s.session = SessionOf(opts, x)
  <2>1. pc[x] = "done"
    BY <1>1
  <2>2. /\ y \in Sides /\ y # x /\ Peer(y) = x
        /\ opts \in Configs /\ s \in Sessions /\ hs \in [Sides -> Sessions]
        /\ n[x] \in Nat /\ m[x] \in Nat /\ sent[x] \in Nat
        /\ L \in Nat /\ L >= 3
        /\ Learnt(opts, x, m[x]) /\ m[x] >= L /\ m[x] = L + sent[x]
        /\ s.send_nonce \in 1..(3 + sent[x])
        /\ s.session = SessionOf(opts, x)
    BY <2>1, WhenDone
  <2>3. \A i \in 1..Len(got[x]) : got[x][i] = i
    BY <2>1, WhenDone
  <2> QED
    BY <2>2, <2>3
<1>3. /\ pc \in [Sides -> Places] /\ seen \in [Sides -> Names] /\ got \in [Sides -> Seq(Nat)]
      /\ sent \in [Sides -> 0..MaxMessages] /\ Boxes(m) /\ Named /\ MaxMessages \in Nat
  BY Basics, HandshakeAssumption
<1>4. /\ sent' \in [Sides -> 0..MaxMessages] /\ sent'[y] = sent[y] /\ sent'[x] = j
      /\ j \in Nat /\ j > 0
  BY <1>1, <1>2, <1>3
<1>5. m[x] + 1 \in Nat /\ m[x] + 1 > L /\ (m[x] + 1) - L = j /\ m[x] + 1 = L + j
  BY <1>2
<1>6. FrameOf(opts, x, m[x] + 1) = MessageOf(opts, x, j)
  BY <1>2, <1>5, MessageFrame
<1>7. Learnt(opts, x, m[x] + 1)
  BY <1>2, <1>5, LearntMore
<1>8. Named'
  BY <1>1, <1>3, NamesKept
<1>9. AtDone(opts, x, "done", s, sent[x], got[x], n[x], m[x])
  <2>1. Place(opts, x, pc[x], hs[x], sent[x], got[x], n[x], m[x])
    BY Basics
  <2> QED
    BY <1>1, <2>1 DEF Place
<1>10. ASSUME hs' \in [Sides -> Sessions], hs'[y] = hs[y]
       PROVE  Only(x)
  BY <1>1, <1>3, <1>4, <1>10 DEF Only
<1>11. ASSUME AtDone(opts, x, "done", hs'[x], j, got[x], n[x], m[x] + 1),
              hs'[x].send_nonce \in 1..(3 + j)
       PROVE  Place(opts, x, pc'[x], hs'[x], sent'[x], got'[x], n[x], m[x] + 1)
  <2>1. m[x] + 1 <= L + j
    BY <1>2, <1>5
  <2>2. Place(opts, x, "done", hs'[x], j, got[x], n[x], m[x] + 1)
    BY <1>2, <1>7, <1>11, <2>1, StillDone
  <2> QED
    BY <1>1, <1>4, <2>2
<1>12. CASE s.session = "CURVE"
  <2> DEFINE nonce == s.send_nonce
             box == MessageBox(x, j)
             f == Frame("MESSAGE", "CURVE", [nonce |-> nonce, box |-> box])
  <2>1. /\ Say(x, f) /\ hs' = [hs EXCEPT ![x].send_nonce = NextSendNonce(x)]
        /\ Made(1, {Seal(box)})
    BY <1>12 DEF SendMessage
  <2>2. Mechanism(opts[x]) = "CURVE" /\ SessionOf(opts, x) = "CURVE"
    BY <1>2, <1>12, CurveSession
  <2>3. /\ L = 4 /\ s.peer_ready /\ s.peer_transient = y
        /\ nonce = FirstNonce(x) + sent[x]
    <3>1. L = 4
      BY <1>2, <2>2, LengthOf
    <3>2. pc[x] = "done"
      BY <1>1
    <3>3. s.peer_ready /\ s.peer_transient = y /\ nonce = FirstNonce(x) + sent[x]
      BY <2>2, <3>2, WhenDone
    <3> QED
      BY <3>1, <3>3
  <2>4. FirstNonce(x) \in Nat /\ nonce \in Nat /\ nonce > 0 /\ nonce = FirstNonce(x) + j - 1
    <3>1. FirstNonce(x) \in Nat /\ FirstNonce(x) > 0
      BY DEF FirstNonce
    <3> QED
      BY <1>2, <2>3, <3>1
  <2>5. box = Box(j, <<MessagePrefix(x), nonce>>, y, x)
    BY <2>3 DEF MessageBox, Transient
  <2>6. f = FrameOf(opts, x, m[x] + 1)
    <3>1. MessageOf(opts, x, j) = Frame("MESSAGE", "CURVE",
             [nonce |-> FirstNonce(x) + j - 1,
              box |-> Box(j, <<MessagePrefix(x), FirstNonce(x) + j - 1>>, y, x)])
      BY <2>2 DEF MessageOf
    <3> QED
      BY <1>6, <2>4, <2>5, <3>1
  <2>7. WireStep(n, m, x, n[x], m[x] + 1)
    <3> HIDE DEF f
    <3> QED
      BY <2>1, <2>6, WireSay
  <2>8. Boxes([m EXCEPT ![x] = m[x] + 1])'
    <3>1. Seal(box)[2] = <<MessagePrefix(x), nonce>>
      BY <2>5, Seals
    <3>2. m[x] + 1 = 5 + sent[x]
      BY <1>2, <2>3
    <3>3. MakerOf(Seal(box)[2]) = x /\ MadeFor(Seal(box)[2]) = m[x] + 1
      <4>1. CASE x = "client"
        <5>1. Seal(box)[2] = <<"MESSAGEC", nonce>> /\ nonce = 3 + sent[x]
          BY <2>3, <3>1, <4>1 DEF MessagePrefix, FirstNonce
        <5>2. MakerOf(Seal(box)[2]) = x /\ MadeFor(Seal(box)[2]) = 2 + nonce
          BY <4>1, <5>1 DEF MakerOf, MadeFor
        <5> QED
          BY <1>2, <3>2, <5>1, <5>2
      <4>2. CASE x = "server"
        <5>1. Seal(box)[2] = <<"MESSAGES", nonce>> /\ nonce = 2 + sent[x]
          BY <2>3, <3>1, <4>2 DEF MessagePrefix, FirstNonce
        <5>2. MakerOf(Seal(box)[2]) = x /\ MadeFor(Seal(box)[2]) = 3 + nonce
          BY <4>2, <5>1 DEF MakerOf, MadeFor
        <5> QED
          BY <1>2, <3>2, <5>1, <5>2
      <4> QED
        BY <4>1, <4>2 DEF Sides
    <3>4. PICK u : u = Seal(box)
      OBVIOUS
    <3>5. MakerOf(u[2]) = x /\ MadeFor(u[2]) = m[x] + 1 /\ Made(1, {u})
      BY <2>1, <3>3, <3>4
    <3> QED
      BY <1>3, <3>5, BoxMade
  <2>9. /\ hs' \in [Sides -> Sessions] /\ hs'[y] = hs[y]
        /\ hs'[x].send_nonce = nonce + 1 /\ hs'[x].recv_nonce = s.recv_nonce
        /\ hs'[x].peer_transient = s.peer_transient /\ hs'[x].greeted = s.greeted
        /\ hs'[x].peer_ready = s.peer_ready /\ hs'[x].session = s.session
    <3>1. hs'[x] = [s EXCEPT !.send_nonce = nonce + 1] /\ hs'[y] = hs[y]
      BY <1>2, <2>1 DEF NextSendNonce
    <3>2. s \in Sessions /\ nonce + 1 \in Nat /\ nonce + 1 > 0
      <4>1. s \in Sessions
        BY <1>2
      <4>2. nonce + 1 \in Nat /\ nonce + 1 > 0
        BY <2>4
      <4> QED
        BY <4>1, <4>2
    <3> DEFINE k == nonce + 1
    <3> HIDE DEF k
    <3>3. hs'[x] = [s EXCEPT !.send_nonce = k] /\ k \in Nat /\ k > 0
      BY <3>1, <3>2 DEF k
    <3>4. /\ hs'[x] \in Sessions /\ hs'[x].send_nonce = k
          /\ hs'[x].recv_nonce = s.recv_nonce
          /\ hs'[x].peer_transient = s.peer_transient /\ hs'[x].greeted = s.greeted
          /\ hs'[x].peer_ready = s.peer_ready /\ hs'[x].session = s.session
      BY <3>2, <3>3, SendNonceSet
    <3>5. hs' \in [Sides -> Sessions]
      BY <1>2, <2>1, <3>4
    <3> QED
      BY <3>1, <3>4, <3>5 DEF k
  <2>10. AtDone(opts, x, "done", hs'[x], j, got[x], n[x], m[x] + 1)
    <3>1. nonce + 1 = FirstNonce(x) + j
      BY <1>2, <2>3, <2>4
    <3> HIDE DEF j
    <3> QED
      BY <1>5, <1>9, <2>2, <2>3, <2>9, <3>1 DEF AtDone
  <2>11. hs'[x].send_nonce \in 1..(3 + j)
    BY <1>2, <2>9
  <2> QED
    BY <1>2, <1>5, <1>8, <1>10, <1>11, <2>7, <2>8, <2>9, <2>10, <2>11, Advance
<1>13. CASE s.session # "CURVE"
  <2> DEFINE f == IF s.session = "GSSAPI" THEN Frame("MESSAGE", "GSSAPI", j)
                  ELSE Frame("message", "none", j)
  <2>1. Say(x, f) /\ UNCHANGED hs /\ NoBox
    BY <1>13 DEF SendMessage
  <2>2. SessionOf(opts, x) # "CURVE" /\ Mechanism(opts[x]) # "CURVE"
    BY <1>2, <1>13, CurveSession
  <2>3. f = FrameOf(opts, x, m[x] + 1)
    BY <1>2, <1>6, <2>2 DEF MessageOf
  <2>4. WireStep(n, m, x, n[x], m[x] + 1)
    <3> HIDE DEF f
    <3> QED
      BY <2>1, <2>3, WireSay
  <2>5. Boxes([m EXCEPT ![x] = m[x] + 1])'
    <3>1. m[x] + 1 >= m[x]
      BY <1>2
    <3> QED
      BY <1>3, <1>5, <2>1, <3>1, BoxesKept
  <2>6. AtDone(opts, x, "done", hs'[x], j, got[x], n[x], m[x] + 1)
    <3> HIDE DEF j
    <3> QED
      BY <1>5, <1>9, <2>1, <2>2 DEF AtDone
  <2>7. hs'[x].send_nonce \in 1..(3 + j) /\ hs' \in [Sides -> Sessions] /\ hs'[y] = hs[y]
    BY <1>2, <2>1
  <2> QED
    BY <1>2, <1>5, <1>8, <1>10, <1>11, <2>4, <2>5, <2>6, <2>7, Advance
<1> QED
  BY <1>12, <1>13

LEMMA TwoFrames ==
  ASSUME NEW w \in Seq(Frames), Len(w) >= 2
  PROVE  w # <<>> /\ Tail(w) # <<>>
<1>1. Len(w) \in Nat /\ w # <<>>
  OBVIOUS
<1>2. Len(Tail(w)) = Len(w) - 1
  BY <1>1
<1>3. CASE Tail(w) = <<>>
  <2>1. Len(<<>>) = 0
    OBVIOUS
  <2>2. Len(Tail(w)) = 0
    BY <1>3, <2>1
  <2>3. Len(w) - 1 = 0
    BY <1>2, <2>2
  <2>4. ASSUME NEW k \in Nat, k >= 2 PROVE k - 1 # 0
    BY <2>4
  <2> QED
    BY <1>1, <2>3, <2>4
<1> QED
  BY <1>1, <1>3

(* The greeting that a client has left unread. *)
LEMMA ReadGreetingStep ==
  ASSUME NEW n \in [Sides -> Nat], NEW m \in [Sides -> Nat], Sync(n, m), NEW x \in Sides,
         ReadGreeting(x)
  PROVE  IInv'
<1> DEFINE y == Peer(x)
           s == hs[x]
           w == wire[x]
<1>1. /\ pc[x] = "done" /\ ~s.greeted /\ Len(w) >= 2
      /\ hs' = [hs EXCEPT ![x].greeted = TRUE]
      /\ wire' = [wire EXCEPT ![x] = Tail(Tail(@))]
      /\ UNCHANGED <<pc, seen>> /\ NoBox /\ NoTraffic
  BY DEF ReadGreeting
<1>2. /\ y \in Sides /\ y # x /\ Peer(y) = x
      /\ opts \in Configs /\ s \in Sessions /\ hs \in [Sides -> Sessions]
      /\ n[x] \in Nat /\ m[x] \in Nat /\ sent[x] \in Nat
      /\ HandshakeLen(opts, x) \in Nat
      /\ HandshakeLen(opts, y) \in Nat /\ HandshakeLen(opts, y) >= 3
      /\ Learnt(opts, x, m[x]) /\ m[x] = HandshakeLen(opts, x) + sent[x]
      /\ s.send_nonce \in 1..(3 + sent[x]) /\ \A i \in 1..Len(got[x]) : got[x][i] = i
      /\ s.session = SessionOf(opts, x)
  <2>1. pc[x] = "done"
    BY <1>1
  <2>2. /\ y \in Sides /\ y # x /\ Peer(y) = x
        /\ opts \in Configs /\ s \in Sessions /\ hs \in [Sides -> Sessions]
        /\ n[x] \in Nat /\ m[x] \in Nat /\ sent[x] \in Nat
        /\ HandshakeLen(opts, x) \in Nat
        /\ HandshakeLen(opts, y) \in Nat /\ HandshakeLen(opts, y) >= 3
        /\ Learnt(opts, x, m[x]) /\ m[x] = HandshakeLen(opts, x) + sent[x]
        /\ s.send_nonce \in 1..(3 + sent[x])
        /\ s.session = SessionOf(opts, x)
    BY <2>1, WhenDone
  <2>3. \A i \in 1..Len(got[x]) : got[x][i] = i
    BY <2>1, WhenDone
  <2> QED
    BY <2>2, <2>3
<1>3. ~s.peer_ready /\ Mechanism(opts[x]) = "NULL" /\ got[x] = <<>> /\ n[x] = 0
  <2>1. pc[x] = "done" /\ ~s.greeted
    BY <1>1
  <2> QED
    BY <2>1, WhenDone
<1>4. WireStep(n, m, x, 2, m[x])
  <2>1. /\ wire \in [Sides -> Seq(Frames)] /\ m[y] \in Nat
        /\ Stream(opts, x, w, 0, m[y])
        /\ Stream(opts, y, wire[y], n[y], m[x])
    BY <1>3, BothStreams
  <2>2. w # <<>> /\ Tail(w) # <<>>
    <3>1. w \in Seq(Frames) /\ Len(w) >= 2
      BY <1>1, <2>1
    <3> HIDE DEF w
    <3> QED
      BY <3>1, TwoFrames
  <2>3. Stream(opts, x, Tail(w), 0 + 1, m[y])
    BY <1>2, <2>1, <2>2, StreamTake
  <2>4. 0 + 1 \in Nat
    OBVIOUS
  <2>5. Stream(opts, x, Tail(Tail(w)), (0 + 1) + 1, m[y])
    BY <1>2, <2>1, <2>2, <2>3, <2>4, StreamTake
  <2>6. /\ wire'[y] = wire[y] /\ wire'[x] = Tail(Tail(w))
        /\ DOMAIN wire' = Sides /\ wire' = [z \in Sides |-> wire'[z]]
    BY <1>1, <1>2, <2>1
  <2>7. (0 + 1) + 1 = 2
    OBVIOUS
  <2> QED
    BY <2>1, <2>5, <2>6, <2>7 DEF WireStep
<1>5. /\ hs' \in [Sides -> Sessions] /\ hs'[y] = hs[y] /\ hs'[x].greeted
      /\ hs'[x].peer_ready = s.peer_ready /\ hs'[x].session = s.session
      /\ hs'[x].send_nonce = s.send_nonce
  BY <1>1, <1>2 DEF Sessions
<1>6. Place(opts, x, "done", hs'[x], sent[x], got[x], 2, m[x])
  <2>1. AtDone(opts, x, "done", hs'[x], sent[x], got[x], 2, m[x])
    BY <1>2, <1>3, <1>5 DEF AtDone
  <2>2. hs'[x].send_nonce \in 1..(3 + sent[x]) /\ m[x] <= HandshakeLen(opts, x) + sent[x]
    BY <1>2, <1>5
  <2> QED
    BY <1>2, <2>1, <2>2, StillDone
<1>7. pc \in [Sides -> Places] /\ "done" \in Places /\ m[x] >= m[x] /\ 2 \in Nat
  <2>1. pc \in [Sides -> Places] /\ m[x] \in Nat
    BY Basics
  <2>2. "done" \in Places
    BY DEF Places
  <2> QED
    BY <2>1, <2>2
<1>8. Go(x, "done")
  BY <1>1, <1>7 DEF Go
<1> QED
  BY <1>1, <1>2, <1>4, <1>5, <1>6, <1>7, <1>8, QuietStep

(* The last command of a peer is a READY that x understands. *)
LEMMA ReadyUnderstood ==
  ASSUME NEW n \in [Sides -> Nat], NEW m \in [Sides -> Nat], Sync(n, m), NEW x \in Sides,
         wire[x] # <<>>, n[x] + 1 = HandshakeLen(opts, Peer(x)),
         \/ Mechanism(opts[x]) = "NULL"
         \/ Mechanism(opts[x]) = "PLAIN" /\ x = "client"
  PROVE  Is(Head(wire[x]), "READY", "metadata")
<1> DEFINE y == Peer(x)
           L == HandshakeLen(opts, y)
           f == Head(wire[x])
<1>1. /\ y \in Sides /\ opts \in Configs /\ n[x] \in Nat /\ m[y] \in Nat
      /\ Learnt(opts, y, m[y]) /\ L \in Nat /\ L >= 3 /\ L <= L
      /\ (x = "client" => y = "server") /\ (x = "server" => y = "client")
  BY Basics, Peers
<1>2. f = FrameOf(opts, y, L) /\ L <= m[y]
  BY HeadIs
<1>3. Mechanism(opts[y]) # "NULL" => Compatible(opts)
  <2>1. m[y] >= L
    BY <1>1, <1>2
  <2> QED
    BY <1>1, <2>1 DEF Learnt
<1>4. \/ Mechanism(opts[y]) = "NULL"
      \/ Mechanism(opts[y]) = "PLAIN" /\ y = "server"
      \/ Mechanism(opts[y]) = "GSSAPI" /\ GssSession(opts[y]) = "none"
  BY <1>1, <1>3 DEF Compatible, Sides
<1>5. f = Frame("READY", "metadata", opts[y].routing_id)
  <2>1. CASE Mechanism(opts[y]) = "NULL"
    BY <1>1, <1>2, <2>1, NullFrame
  <2>2. CASE Mechanism(opts[y]) = "PLAIN" /\ y = "server"
    <3>1. L = 4
      BY <1>1, <2>2, LengthOf
    <3>2. FrameOf(opts, y, 4) = Frame("READY", "metadata", opts[y].routing_id)
      BY <1>1, <2>2, PlainFrames
    <3> QED
      BY <1>2, <3>1, <3>2
  <2>3. CASE Mechanism(opts[y]) = "GSSAPI" /\ GssSession(opts[y]) = "none"
    BY <1>1, <1>2, <2>3, GssFrame
  <2> QED
    BY <1>4, <2>1, <2>2, <2>3
<1> QED
  BY <1>5 DEF Is, Frame

LEMMA ReadReadyStep ==
  ASSUME NEW n \in [Sides -> Nat], NEW m \in [Sides -> Nat], Sync(n, m), NEW x \in Sides,
         ReadReady(x)
  PROVE  IInv'
<1> DEFINE y == Peer(x)
           s == hs[x]
           f == Head(wire[x])
<1>1. /\ pc[x] = "done" /\ wire[x] # <<>> /\ s.greeted /\ ~s.peer_ready
      /\ Hear(x) /\ UNCHANGED pc /\ NoBox /\ NoTraffic
  BY DEF ReadReady, Heard
<1>2. /\ y \in Sides /\ y # x /\ Peer(y) = x
      /\ opts \in Configs /\ s \in Sessions /\ hs \in [Sides -> Sessions]
      /\ n[x] \in Nat /\ m[x] \in Nat /\ sent[x] \in Nat
      /\ HandshakeLen(opts, x) \in Nat
      /\ HandshakeLen(opts, y) \in Nat /\ HandshakeLen(opts, y) >= 3
      /\ Learnt(opts, x, m[x]) /\ m[x] = HandshakeLen(opts, x) + sent[x]
      /\ s.send_nonce \in 1..(3 + sent[x]) /\ \A i \in 1..Len(got[x]) : got[x][i] = i
      /\ s.session = SessionOf(opts, x)
  <2>1. pc[x] = "done"
    BY <1>1
  <2>2. /\ y \in Sides /\ y # x /\ Peer(y) = x
        /\ opts \in Configs /\ s \in Sessions /\ hs \in [Sides -> Sessions]
        /\ n[x] \in Nat /\ m[x] \in Nat /\ sent[x] \in Nat
        /\ HandshakeLen(opts, x) \in Nat
        /\ HandshakeLen(opts, y) \in Nat /\ HandshakeLen(opts, y) >= 3
        /\ Learnt(opts, x, m[x]) /\ m[x] = HandshakeLen(opts, x) + sent[x]
        /\ s.send_nonce \in 1..(3 + sent[x])
        /\ s.session = SessionOf(opts, x)
    BY <2>1, WhenDone
  <2>3. \A i \in 1..Len(got[x]) : got[x][i] = i
    BY <2>1, WhenDone
  <2> QED
    BY <2>2, <2>3
<1>3. /\ got[x] = <<>> /\ n[x] < HandshakeLen(opts, y) /\ n[x] >= 2
      /\ \/ Mechanism(opts[x]) = "NULL"
         \/ Mechanism(opts[x]) = "PLAIN" /\ x = "client"
  <2>1. pc[x] = "done" /\ ~s.peer_ready /\ s.greeted
    BY <1>1
  <2> QED
    BY <2>1, WhenDone
<1>4. WireStep(n, m, x, n[x] + 1, m[x])
  BY <1>1, WireHear
<1>5. pc \in [Sides -> Places] /\ "done" \in Places /\ n[x] + 1 \in Nat /\ m[x] >= m[x]
      /\ Boxes(m) /\ Named /\ seen \in [Sides -> Names]
  <2>1. pc \in [Sides -> Places] /\ Boxes(m) /\ Named /\ seen \in [Sides -> Names]
    BY Basics
  <2>2. n[x] + 1 \in Nat /\ m[x] >= m[x] /\ "done" \in Places
    BY <1>2 DEF Places
  <2> QED
    BY <2>1, <2>2
<1>6. Go(x, "done")
  BY <1>1, <1>5 DEF Go
<1>7. SessionOf(opts, x) = "none"
  BY <1>3 DEF SessionOf
<1>8. CASE Is(f, "READY", "metadata")
  <2>1. /\ hs' = [hs EXCEPT ![x].peer_ready = TRUE]
        /\ seen' = [seen EXCEPT ![x] = f.body]
    BY <1>8 DEF ReadReady
  <2>2. f = FrameOf(opts, y, n[x] + 1)
    BY <1>1, HeadIs
  <2>3. /\ n[x] + 1 = HandshakeLen(opts, y) /\ f.body = opts[y].routing_id
        /\ SessionOf(opts, y) = "none"
    <3>1. f.cmd = "READY" /\ f.format = "metadata" /\ n[x] + 1 > 0
      BY <1>2, <1>8 DEF Is
    <3>2. /\ n[x] + 1 = HandshakeLen(opts, y)
          /\ \/ Mechanism(opts[y]) = "NULL" /\ f = Frame("READY", "metadata", opts[y].routing_id)
             \/ /\ Mechanism(opts[y]) = "PLAIN" /\ y = "server"
                /\ f = Frame("READY", "metadata", opts[y].routing_id)
             \/ Mechanism(opts[y]) = "CURVE" /\ y = "server" /\ f.format = "CURVE"
             \/ /\ Mechanism(opts[y]) = "GSSAPI" /\ GssSession(opts[y]) = "none"
                /\ f = Frame("READY", "metadata", opts[y].routing_id)
             \/ /\ Mechanism(opts[y]) = "GSSAPI" /\ GssSession(opts[y]) # "none"
                /\ f = Frame("READY", "GSSAPI", opts[y].routing_id)
      BY <1>2, <1>5, <2>2, <3>1, ReadyIs
    <3> QED
      BY <3>1, <3>2 DEF Frame, SessionOf
  <2>4. /\ hs' \in [Sides -> Sessions] /\ hs'[y] = hs[y] /\ hs'[x].greeted
        /\ hs'[x].peer_ready /\ hs'[x].session = s.session
        /\ hs'[x].send_nonce = s.send_nonce
    <3>1. s.greeted
      BY <1>1
    <3> QED
      BY <1>2, <2>1, <3>1 DEF Sessions
  <2>5. Place(opts, x, "done", hs'[x], sent[x], got[x], n[x] + 1, m[x])
    <3>1. Len(got[x]) = 0
      BY <1>3
    <3>2. n[x] + 1 = HandshakeLen(opts, y) + Len(got[x])
      BY <1>2, <2>3, <3>1
    <3>3. AtDone(opts, x, "done", hs'[x], sent[x], got[x], n[x] + 1, m[x])
      BY <1>2, <1>3, <1>7, <2>3, <2>4, <3>2 DEF AtDone
    <3>4. hs'[x].send_nonce \in 1..(3 + sent[x]) /\ m[x] <= HandshakeLen(opts, x) + sent[x]
      BY <1>2, <2>4
    <3> QED
      BY <1>2, <3>3, <3>4, StillDone
  <2>6. seen' \in [Sides -> Names] /\ Named'
    BY <1>1, <2>1, <2>3, NamedNow DEF NoTraffic
  <2>7. Boxes([m EXCEPT ![x] = m[x]])'
    BY <1>1, <1>2, <1>5, BoxesKept
  <2> QED
    BY <1>1, <1>2, <1>4, <1>5, <1>6, <2>4, <2>5, <2>6, <2>7, CommandStep
<1>9. CASE ~Is(f, "READY", "metadata")
  <2>1. UNCHANGED <<hs, seen>>
    BY <1>9 DEF ReadReady
  <2>2. n[x] + 1 # HandshakeLen(opts, y)
    BY <1>1, <1>3, <1>9, ReadyUnderstood
  <2>3. n[x] + 1 < HandshakeLen(opts, y) /\ n[x] + 1 >= 2
    BY <1>2, <1>3, <2>2
  <2>4. AtDone(opts, x, "done", hs'[x], sent[x], got[x], n[x] + 1, m[x])
    BY <1>1, <1>2, <1>3, <2>1, <2>3 DEF AtDone
  <2>5. Place(opts, x, "done", hs'[x], sent[x], got[x], n[x] + 1, m[x])
    <3>1. hs'[x].send_nonce \in 1..(3 + sent[x]) /\ m[x] <= HandshakeLen(opts, x) + sent[x]
      BY <1>2, <2>1
    <3> QED
      BY <1>2, <2>4, <3>1, StillDone
  <2>6. hs' \in [Sides -> Sessions] /\ hs'[y] = hs[y]
    BY <1>2, <2>1
  <2> QED
    BY <1>1, <1>2, <1>4, <1>5, <1>6, <2>1, <2>5, <2>6, QuietStep
<1> QED
  BY <1>8, <1>9

(* A message that arrives is the next one, and a CURVE session opens it. *)
LEMMA RecvMessageStep ==
  ASSUME NEW n \in [Sides -> Nat], NEW m \in [Sides -> Nat], Sync(n, m), NEW x \in Sides,
         RecvMessage(x)
  PROVE  IInv'
<1> DEFINE y == Peer(x)
           s == hs[x]
           f == Head(wire[x])
           g == got[x]
           j == Len(g) + 1
<1>1. /\ pc[x] = "done" /\ wire[x] # <<>> /\ s.greeted /\ s.peer_ready
      /\ Hear(x) /\ UNCHANGED <<opts, pc, seen, sent>> /\ NoBox
  BY DEF RecvMessage, Heard
<1>2. /\ y \in Sides /\ y # x /\ Peer(y) = x
      /\ opts \in Configs /\ s \in Sessions /\ hs \in [Sides -> Sessions]
      /\ n[x] \in Nat /\ m[x] \in Nat /\ sent[x] \in Nat
      /\ g \in Seq(Nat) /\ Len(g) \in Nat
      /\ HandshakeLen(opts, x) \in Nat
      /\ HandshakeLen(opts, y) \in Nat /\ HandshakeLen(opts, y) >= 3
      /\ Learnt(opts, x, m[x]) /\ m[x] = HandshakeLen(opts, x) + sent[x]
      /\ s.send_nonce \in 1..(3 + sent[x]) /\ \A i \in 1..Len(g) : g[i] = i
      /\ s.session = SessionOf(opts, x)
  <2>1. pc[x] = "done"
    BY <1>1
  <2>2. /\ y \in Sides /\ y # x /\ Peer(y) = x
        /\ opts \in Configs /\ s \in Sessions /\ hs \in [Sides -> Sessions]
        /\ n[x] \in Nat /\ m[x] \in Nat /\ sent[x] \in Nat
        /\ HandshakeLen(opts, x) \in Nat
        /\ HandshakeLen(opts, y) \in Nat /\ HandshakeLen(opts, y) >= 3
        /\ Learnt(opts, x, m[x]) /\ m[x] = HandshakeLen(opts, x) + sent[x]
        /\ s.send_nonce \in 1..(3 + sent[x])
        /\ s.session = SessionOf(opts, x)
    BY <2>1, WhenDone
  <2>3. g \in Seq(Nat) /\ Len(g) \in Nat /\ \A i \in 1..Len(g) : g[i] = i
    BY <2>1, WhenDone
  <2> QED
    BY <2>2, <2>3
<1>3. /\ n[x] = HandshakeLen(opts, y) + Len(g)
      /\ SessionOf(opts, x) = SessionOf(opts, y)
  <2>1. pc[x] = "done" /\ s.peer_ready
    BY <1>1
  <2> QED
    BY <2>1, WhenDone
<1>4. f = MessageOf(opts, y, j)
  <2>1. f = FrameOf(opts, y, n[x] + 1)
    BY <1>1, HeadIs
  <2>2. n[x] + 1 \in Nat /\ n[x] + 1 > HandshakeLen(opts, y)
        /\ (n[x] + 1) - HandshakeLen(opts, y) = j
    <3>1. Len(g) \in Nat /\ n[x] \in Nat /\ HandshakeLen(opts, y) \in Nat
      BY <1>2
    <3> HIDE DEF g
    <3> QED
      BY <1>3, <3>1
  <2> QED
    BY <1>2, <2>1, <2>2, MessageFrame
<1>5. /\ pc \in [Sides -> Places] /\ seen \in [Sides -> Names] /\ got \in [Sides -> Seq(Nat)]
      /\ sent \in [Sides -> 0..MaxMessages] /\ Boxes(m) /\ Named
  BY Basics
<1>6. WireStep(n, m, x, n[x] + 1, m[x])
  BY <1>1, WireHear
<1>7. AtDone(opts, x, "done", s, sent[x], g, n[x], m[x])
  <2>1. Place(opts, x, pc[x], hs[x], sent[x], got[x], n[x], m[x])
    BY Basics
  <2> QED
    BY <1>1, <2>1 DEF Place
<1>8. ASSUME got' = [got EXCEPT ![x] = Append(g, j)],
             hs' \in [Sides -> Sessions], hs'[y] = hs[y],
             hs'[x].send_nonce = s.send_nonce,
             AtDone(opts, x, "done", hs'[x], sent[x], Append(g, j), n[x] + 1, m[x])
      PROVE  IInv'
  <2>1. /\ Append(g, j) \in Seq(Nat) /\ Len(Append(g, j)) = j
        /\ \A i \in 1..Len(Append(g, j)) : Append(g, j)[i] = i
    <3> HIDE DEF g
    <3> QED
      BY <1>2
  <2>2. got' \in [Sides -> Seq(Nat)] /\ got'[x] = Append(g, j) /\ got'[y] = got[y]
    BY <1>2, <1>5, <1>8, <2>1
  <2>3. Only(x)
    BY <1>1, <1>5, <1>8, <2>2 DEF Only
  <2>4. hs'[x].send_nonce \in 1..(3 + sent[x]) /\ m[x] <= HandshakeLen(opts, x) + sent[x]
    BY <1>2, <1>8
  <2>5. Place(opts, x, "done", hs'[x], sent[x], Append(g, j), n[x] + 1, m[x])
    BY <1>2, <1>8, <2>1, <2>4, StillDone
  <2>6. Place(opts, x, pc'[x], hs'[x], sent'[x], got'[x], n[x] + 1, m[x])
    BY <1>1, <2>2, <2>5
  <2>7. n[x] + 1 \in Nat /\ m[x] \in Nat /\ m[x] >= m[x]
    BY <1>2
  <2>8. Boxes([m EXCEPT ![x] = m[x]])'
    BY <1>1, <1>5, <2>7, BoxesKept
  <2>9. Named'
    BY <1>1, <1>5, NamesKept
  <2> QED
    BY <1>6, <2>3, <2>6, <2>7, <2>8, <2>9, Advance
<1>9. ASSUME NEW h, h.session = s.session, h.peer_ready, h.greeted,
             Mechanism(opts[x]) = "CURVE" =>
               /\ h.peer_transient = y
               /\ h.send_nonce = FirstNonce(x) + sent[x]
               /\ h.recv_nonce = FirstNonce(y) + j - 1
      PROVE  AtDone(opts, x, "done", h, sent[x], Append(g, j), n[x] + 1, m[x])
  <2>1. Len(Append(g, j)) = j /\ n[x] + 1 = HandshakeLen(opts, y) + j
    <3>1. g \in Seq(Nat) /\ j \in Nat /\ Len(g) \in Nat
      BY <1>2
    <3>2. Len(Append(g, j)) = Len(g) + 1
      <4> HIDE DEF g, j
      <4> QED
        BY <3>1
    <3> QED
      BY <1>2, <1>3, <3>2
  <2>2. h.session = SessionOf(opts, x)
    BY <1>2, <1>9
  <2> HIDE DEF j
  <2> QED
    BY <1>2, <1>3, <1>9, <2>1, <2>2 DEF AtDone
<1>10. CASE s.session = "CURVE"
  <2> DEFINE k == FirstNonce(y) + j - 1
             box == Box(j, <<MessagePrefix(y), k>>, x, y)
  <2>1. SessionOf(opts, y) = "CURVE" /\ Mechanism(opts[x]) = "CURVE"
    BY <1>2, <1>3, <1>10, CurveSession
  <2>2. /\ s.peer_transient = y /\ s.send_nonce = FirstNonce(x) + sent[x]
        /\ s.recv_nonce = FirstNonce(y) + Len(g) - 1
    BY <1>7, <2>1 DEF AtDone
  <2>3. f = Frame("MESSAGE", "CURVE", [nonce |-> k, box |-> box])
    BY <1>2, <1>4, <2>1 DEF MessageOf
  <2>4. /\ f.body.nonce = k /\ f.body.box = box /\ box.plain = j
        /\ box.key = {x, y} /\ box.nonce = <<MessagePrefix(y), k>>
        /\ Is(f, "MESSAGE", "CURVE")
    <3>1. box.plain = j /\ box.key = {x, y} /\ box.nonce = <<MessagePrefix(y), k>>
      BY DEF Box
    <3> HIDE DEF box, k
    <3>2. f.body = [nonce |-> k, box |-> box] /\ Is(f, "MESSAGE", "CURVE")
      BY <2>3 DEF Frame, Is
    <3> QED
      BY <3>1, <3>2
  <2>5. k \in Nat /\ k > s.recv_nonce
    <3>1. FirstNonce(y) \in Nat /\ FirstNonce(y) > 0
      BY DEF FirstNonce
    <3>2. Len(g) \in Nat
      BY <1>2
    <3> HIDE DEF g
    <3> QED
      BY <2>2, <3>1, <3>2
  <2>6. NonceIsNew(f, s)
    BY <2>4, <2>5 DEF NonceIsNew
  <2>7. Opens(f.body.box, <<MessagePrefix(Peer(x)), f.body.nonce>>, s.peer_transient,
              Transient(x))
    BY <2>2, <2>4 DEF Opens, Transient
  <2>8. /\ hs' = [hs EXCEPT ![x].recv_nonce = k]
        /\ got' = [got EXCEPT ![x] = Append(g, j)]
    <3>1. /\ hs' = [hs EXCEPT ![x].recv_nonce = f.body.nonce]
          /\ got' = [got EXCEPT ![x] = Append(@, f.body.box.plain)]
      BY <1>10, <2>4, <2>6, <2>7 DEF RecvMessage
    <3> QED
      BY <2>4, <3>1
  <2>9. /\ hs' \in [Sides -> Sessions] /\ hs'[y] = hs[y]
        /\ hs'[x].recv_nonce = k /\ hs'[x].send_nonce = s.send_nonce
        /\ hs'[x].peer_transient = s.peer_transient /\ hs'[x].greeted = s.greeted
        /\ hs'[x].peer_ready = s.peer_ready /\ hs'[x].session = s.session
    <3>1. hs'[x] = [s EXCEPT !.recv_nonce = k] /\ hs'[y] = hs[y]
      BY <1>2, <2>8
    <3> DEFINE d == hs'[x]
    <3> HIDE DEF s, d, k
    <3>2. s \in Sessions /\ k \in Nat
      BY <1>2, <2>5
    <3>3. d = [s EXCEPT !.recv_nonce = k]
      BY <3>1 DEF d
    <3>4. /\ d \in Sessions /\ d.recv_nonce = k /\ d.send_nonce = s.send_nonce
          /\ d.peer_transient = s.peer_transient /\ d.greeted = s.greeted
          /\ d.peer_ready = s.peer_ready /\ d.session = s.session
      BY <3>2, <3>3 DEF Sessions
    <3>5. hs' \in [Sides -> Sessions]
      BY <1>2, <2>8, <3>4 DEF d
    <3> QED
      BY <3>1, <3>4, <3>5 DEF d
  <2>10. AtDone(opts, x, "done", hs'[x], sent[x], Append(g, j), n[x] + 1, m[x])
    BY <1>1, <1>9, <2>2, <2>9
  <2> QED
    BY <1>8, <2>8, <2>9, <2>10
<1>11. CASE s.session # "CURVE"
  <2>1. SessionOf(opts, y) # "CURVE" /\ Mechanism(opts[x]) # "CURVE"
    BY <1>2, <1>3, <1>11, CurveSession
  <2>2. got' = [got EXCEPT ![x] = Append(g, j)] /\ hs' = hs
    <3>1. CASE s.session = "GSSAPI"
      <4>1. f = Frame("MESSAGE", "GSSAPI", j)
        BY <1>2, <1>3, <1>4, <3>1 DEF MessageOf
      <4>2. Is(f, "MESSAGE", "GSSAPI") /\ f.body = j
        BY <4>1 DEF Frame, Is
      <4>3. got' = [got EXCEPT ![x] = Append(@, f.body)] /\ hs' = hs
        BY <3>1, <4>2 DEF RecvMessage
      <4> QED
        BY <4>2, <4>3
    <3>2. CASE s.session # "GSSAPI"
      <4>1. f = Frame("message", "none", j)
        BY <1>2, <1>3, <1>4, <2>1, <3>2 DEF MessageOf
      <4>2. f.cmd = "message" /\ f.body = j
        BY <4>1 DEF Frame
      <4>3. got' = [got EXCEPT ![x] = Append(@, f.body)] /\ hs' = hs
        BY <1>11, <3>2, <4>2 DEF RecvMessage
      <4> QED
        BY <4>2, <4>3
    <3> QED
      BY <3>1, <3>2
  <2>3. AtDone(opts, x, "done", hs'[x], sent[x], Append(g, j), n[x] + 1, m[x])
    BY <1>1, <1>9, <2>1, <2>2
  <2> QED
    BY <1>2, <1>8, <2>2, <2>3
<1> QED
  BY <1>10, <1>11

-----------------------------------------------------------------------------
(* The invariant holds at the beginning and is kept by every step. *)

LEMMA InitIInv ==
  ASSUME Init
  PROVE  IInv
<1> DEFINE z == [x \in Sides |-> 0]
<1>1. z \in [Sides -> Nat] /\ \A x \in Sides : z[x] = 0 /\ z[Peer(x)] = 0
  BY Peers
<1>2. opts \in Configs
  BY DEF Init
<1>3. NoSession \in Sessions
  BY DEF NoSession, Sessions
<1>4. Types
  <2>1. MaxMessages \in Nat /\ "start" \in Places /\ Unknown \in Names
    BY HandshakeAssumption DEF Places, Names
  <2>2. <<>> \in Seq(Frames) /\ <<>> \in Seq(Nat)
    OBVIOUS
  <2> QED
    BY <1>2, <1>3, <2>1, <2>2 DEF Init, Types
<1>5. Streams(z, z)
  <2>1. ASSUME NEW x \in Sides
        PROVE  /\ z[Peer(x)] = z[x] + Len(wire[x])
               /\ \A i \in 1..Len(wire[x]) : wire[x][i] = FrameOf(opts, Peer(x), z[x] + i)
    <3>1. wire[x] = <<>> /\ Len(wire[x]) = 0
      BY DEF Init
    <3>2. 1..Len(wire[x]) = {}
      BY <3>1
    <3> QED
      BY <1>1, <3>1, <3>2
  <2> QED
    BY <2>1 DEF Streams
<1>6. ASSUME NEW x \in Sides PROVE At(x, z[x], z[x])
  <2>1. /\ pc[x] = "start" /\ hs[x] = NoSession /\ sent[x] = 0 /\ got[x] = <<>> /\ z[x] = 0
    BY DEF Init
  <2>2. HandshakeLen(opts, x) \in Nat /\ Learnt(opts, x, 0)
    BY <1>2, Lengths, LearntOfGreeting
  <2>3. /\ ~NoSession.greeted /\ ~NoSession.peer_ready /\ NoSession.session = "none"
        /\ NoSession.send_nonce = 1 /\ NoSession.recv_nonce = 0
    BY DEF NoSession
  <2>4. AtStart(opts, x, "start", NoSession, 0, 0)
    BY <2>3 DEF AtStart
  <2>5. AtCommands(opts, x, "start", NoSession, 0, 0)
    BY DEF AtCommands
  <2>6. AtDone(opts, x, "start", NoSession, 0, <<>>, 0, 0)
    BY DEF AtDone
  <2>7. Place(opts, x, "start", NoSession, 0, <<>>, 0, 0)
    BY <2>2, <2>3, <2>4, <2>5, <2>6 DEF Place
  <2> QED
    BY <2>1, <2>7 DEF At
<1>7. Boxes(z)
  BY FS_EmptySet DEF Init, Boxes
<1>8. Named
  BY DEF Init, Named
<1>9. Sync(z, z)
  BY <1>4, <1>5, <1>6, <1>7, <1>8 DEF Sync
<1> QED
  BY <1>1, <1>9 DEF IInv

LEMMA NextIInv ==
  ASSUME IInv, [Next]_vars
  PROVE  IInv'
<1>1. PICK n \in [Sides -> Nat], m \in [Sides -> Nat] : Sync(n, m)
  BY DEF IInv
<1>2. CASE UNCHANGED vars
  <2>1. Types'
    BY <1>1, <1>2 DEF Sync, Types, vars
  <2>2. Streams(n, m)' /\ Boxes(m)' /\ Named'
    BY <1>1, <1>2 DEF Sync, Streams, Boxes, Named, vars
  <2>3. (\A x \in Sides : At(x, n[x], m[x]))'
    BY <1>1, <1>2 DEF Sync, At, vars
  <2>4. Sync(n, m)'
    BY <2>1, <2>2, <2>3 DEF Sync
  <2> QED
    BY <2>4 DEF IInv
<1>3. ASSUME NEW x \in Sides, Greeting(x) \/ NullReady(x)
      PROVE  IInv'
  BY <1>1, <1>3, GreetStep, ReadPrefixStep, PrefixTimeoutStep, ReadTailStep, NullReadyStep
     DEF Greeting
<1>4. ASSUME NEW x \in Sides, Traffic(x)
      PROVE  IInv'
  BY <1>1, <1>4, SendMessageStep, ReadGreetingStep, ReadReadyStep, RecvMessageStep DEF Traffic
<1>5. CASE PlainHandshake
  BY <1>1, <1>5, PlainHelloStep, PlainServerHelloStep, PlainWelcomeStep,
     PlainServerInitiateStep DEF PlainHandshake
<1>6. CASE CurveHandshake
  BY <1>1, <1>6, CurveHelloStep, CurveServerHelloStep, CurveWelcomeStep,
     CurveServerInitiateStep, CurveReadyStep DEF CurveHandshake
<1>7. CASE GssHandshake
  BY <1>1, <1>7, GssInitiateStep, GssTokenStep, GssServerInitiateStep, GssReadyStep
     DEF GssHandshake
<1>8. CASE ReadTimeout
  BY <1>1, <1>8, ReadTimeoutStep
<1> QED
  BY <1>2, <1>3, <1>4, <1>5, <1>6, <1>7, <1>8 DEF Next

(* A message that was received was sent. *)
LEMMA ReceivedWasSent ==
  ASSUME NEW n \in [Sides -> Nat], NEW m \in [Sides -> Nat], Sync(n, m), NEW x \in Sides
  PROVE  /\ Len(got[x]) <= sent[Peer(x)]
         /\ \A i \in 1..Len(got[x]) : got[x][i] = i
<1> DEFINE y == Peer(x)
<1>1. y \in Sides
  BY Peers
<1>2. /\ got[x] \in Seq(Nat) /\ Len(got[x]) \in Nat /\ sent[y] \in Nat
      /\ Place(opts, x, pc[x], hs[x], sent[x], got[x], n[x], m[x])
      /\ HandshakeLen(opts, y) \in Nat
      /\ Place(opts, y, pc[y], hs[y], sent[y], got[y], n[y], m[y])
  BY <1>1, Basics
<1>3. n[x] <= m[y] /\ n[x] \in Nat /\ m[y] \in Nat
  BY ReadIsWritten
<1>4. m[y] <= HandshakeLen(opts, y) + sent[y] /\ \A i \in 1..Len(got[x]) : got[x][i] = i
  BY <1>2 DEF Place
<1>5. CASE got[x] = <<>>
  BY <1>2, <1>4, <1>5
<1>6. CASE got[x] # <<>>
  <2>1. pc[x] = "done"
    BY <1>2, <1>6 DEF Place
  <2>2. n[x] = HandshakeLen(opts, y) + Len(got[x])
    BY <1>6, <2>1, WhenDone
  <2> QED
    BY <1>2, <1>3, <1>4, <2>2
<1> QED
  BY <1>5, <1>6

LEMMA IInvEntitled ==
  ASSUME IInv
  PROVE  OnlyEntitled
<1>1. PICK n \in [Sides -> Nat], m \in [Sides -> Nat] : Sync(n, m)
  BY DEF IInv
<1>2. SUFFICES ASSUME pc["server"] = "done"
               PROVE  Entitled(opts["client"], opts["server"])
  BY DEF OnlyEntitled
<1>3. "server" \in Sides
  BY DEF Sides
<1>4. Learnt(opts, "server", m["server"]) /\ m["server"] >= HandshakeLen(opts, "server")
  BY <1>1, <1>2, <1>3, WhenDone
<1> QED
  BY <1>4 DEF Learnt

LEMMA IInvAgree ==
  ASSUME IInv
  PROVE  BothAgree
<1>1. PICK n \in [Sides -> Nat], m \in [Sides -> Nat] : Sync(n, m)
  BY DEF IInv
<1>2. "client" \in Sides /\ "server" \in Sides
  BY DEF Sides
<1>3. opts \in Configs /\ Named
  BY <1>1, <1>2, Basics
<1>4. TypeOK
  <2>1. ASSUME NEW x \in Sides
        PROVE  /\ pc[x] \in Places /\ hs[x].send_nonce \in 1..(3 + MaxMessages)
               /\ hs[x].session \in {"none", "CURVE", "GSSAPI"} /\ sent[x] \in 0..MaxMessages
    <3>1. /\ pc \in [Sides -> Places] /\ hs[x] \in Sessions
          /\ sent \in [Sides -> 0..MaxMessages] /\ MaxMessages \in Nat
          /\ Place(opts, x, pc[x], hs[x], sent[x], got[x], n[x], m[x])
      BY <1>1, Basics, HandshakeAssumption
    <3>2. pc[x] \in Places /\ sent[x] \in 0..MaxMessages /\ MaxMessages \in Nat
      BY <3>1
    <3>3. hs[x].send_nonce \in 1..(3 + sent[x])
      BY <3>1 DEF Place
    <3>4. hs[x].session \in {"none", "CURVE", "GSSAPI"}
      BY <3>1 DEF Sessions
    <3> QED
      BY <3>2, <3>3, <3>4
  <2> QED
    BY <1>3, <2>1 DEF TypeOK, Places
<1>5. ASSUME pc["client"] = "done", pc["server"] = "done"
      PROVE  Compatible(opts) /\ SessionOf(opts, "client") = SessionOf(opts, "server")
  <2>1. Learnt(opts, "client", m["client"]) /\ m["client"] >= HandshakeLen(opts, "client")
    BY <1>1, <1>2, <1>5, WhenDone
  <2>2. Learnt(opts, "server", m["server"]) /\ m["server"] >= HandshakeLen(opts, "server")
    BY <1>1, <1>2, <1>5, WhenDone
  <2>3. Compatible(opts)
    BY <2>1, <2>2 DEF Learnt, Compatible
  <2>4. CASE Mechanism(opts["client"]) = "GSSAPI"
    BY <2>1, <2>3, <2>4 DEF Learnt
  <2>5. CASE Mechanism(opts["client"]) # "GSSAPI"
    <3>1. Mechanism(opts["client"]) = Mechanism(opts["server"])
      BY <2>3, <2>5 DEF Compatible
    <3> QED
      BY <2>3, <2>5, <3>1 DEF SessionOf
  <2> QED
    BY <2>4, <2>5
<1>6. SameMechanism
  BY <1>5 DEF SameMechanism, Compatible
<1>7. SessionsAgree
  <2>1. \A x \in Sides : seen[x] # Unknown => seen[x] = opts[Peer(x)].routing_id
    BY <1>3 DEF Named
  <2>2. ASSUME pc["client"] = "done", pc["server"] = "done"
        PROVE  hs["client"].session = hs["server"].session
    <3>1. hs["client"].session = SessionOf(opts, "client")
      BY <1>1, <1>2, <2>2, WhenDone
    <3>2. hs["server"].session = SessionOf(opts, "server")
      BY <1>1, <1>2, <2>2, WhenDone
    <3> QED
      BY <1>5, <2>2, <3>1, <3>2
  <2>3. ASSUME pc["client"] = "done", pc["server"] = "done", hs["client"].session = "CURVE",
               NEW x \in Sides
        PROVE  /\ hs[x].peer_transient = Transient(Peer(x))
               /\ hs[x].recv_nonce < hs[Peer(x)].send_nonce
    <3> DEFINE y == Peer(x)
    <3>1. y \in Sides /\ pc[x] = "done" /\ pc[y] = "done" /\ hs[x].session = "CURVE"
          /\ hs[y].session = "CURVE"
      BY <2>2, <2>3, Peers DEF Sides
    <3>2. Mechanism(opts[x]) = "CURVE" /\ Mechanism(opts[y]) = "CURVE"
      <4>1. SessionOf(opts, x) = "CURVE" /\ SessionOf(opts, y) = "CURVE"
        BY <1>1, <3>1, WhenDone
      <4> QED
        BY <1>3, <3>1, <4>1, CurveSession
    <3>3. /\ hs[x].peer_transient = y
          /\ hs[x].recv_nonce = FirstNonce(y) + Len(got[x]) - 1 /\ Len(got[x]) \in Nat
      BY <1>1, <3>1, <3>2, WhenDone
    <3>4. hs[y].send_nonce = FirstNonce(y) + sent[y] /\ sent[y] \in Nat
      BY <1>1, <3>1, <3>2, WhenDone
    <3>5. Len(got[x]) <= sent[y]
      BY <1>1, ReceivedWasSent
    <3>6. FirstNonce(y) \in Nat
      BY DEF FirstNonce
    <3> QED
      BY <3>3, <3>4, <3>5, <3>6 DEF Transient
  <2> QED
    BY <2>1, <2>2, <2>3 DEF SessionsAgree
<1> QED
  BY <1>4, <1>6, <1>7 DEF BothAgree

LEMMA IInvTraffic ==
  ASSUME IInv
  PROVE  TrafficSound
<1>1. PICK n \in [Sides -> Nat], m \in [Sides -> Nat] : Sync(n, m)
  BY DEF IInv
<1>2. NonceUsedOnce
  BY <1>1 DEF Sync, Boxes, NonceUsedOnce
<1>3. MessagesInOrder
  BY <1>1, ReceivedWasSent DEF MessagesInOrder
<1> QED
  BY <1>2, <1>3 DEF TrafficSound

-----------------------------------------------------------------------------
(***************************************************************************)
(* What a side writes is fixed by the options of both sides, each reads    *)
(* what the other has written in that order, and its place, session and    *)
(* counters follow from how much it has read and written: for every pair   *)
(* of options, whichever reads time out (write_zmtp_handshake_tcp,         *)
(* send_tcp_frame, recv_tcp_frame).                                        *)
(***************************************************************************)
THEOREM AlwaysIInv == Spec => []IInv
<1>1. Init => IInv
  BY InitIInv
<1>2. IInv /\ [Next]_vars => IInv'
  BY NextIInv
<1> QED
  BY <1>1, <1>2, PTL DEF Spec

(***************************************************************************)
(* A server finishes a handshake only with a client that satisfies its     *)
(* options or its ZAP handler, whichever commands of whichever mechanism   *)
(* the client sends (write_zmtp_handshake_tcp).                            *)
(***************************************************************************)
THEOREM ServerOnlyEntitled == Spec => []OnlyEntitled
BY AlwaysIInv, IInvEntitled, PTL

(***************************************************************************)
(* Two sides that have finished the handshake agree on the mechanism and   *)
(* the session, hold each other's transient keys and a nonce the other has *)
(* not passed yet, and know each other's routing id.                       *)
(***************************************************************************)
THEOREM SidesAgree == Spec => []BothAgree
BY AlwaysIInv, IInvAgree, PTL

(***************************************************************************)
(* No two boxes are made with the same keys and the same nonce, and every  *)
(* message arrives once and in its order (next_send_nonce, curve_nonce,    *)
(* curve_message_from_body).                                               *)
(***************************************************************************)
THEOREM TrafficAlwaysSound == Spec => []TrafficSound
BY AlwaysIInv, IInvTraffic, PTL
=============================================================================
