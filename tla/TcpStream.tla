----------------------------- MODULE TcpStream -----------------------------
(***************************************************************************)
(* One socket that binds and one that connects over TCP or IPC: the stream *)
(* of each (TcpState and IpcState in libzmq-core/src/socket.rs), made and  *)
(* set up with the ZMTP greeting from inside send and recv, its reset, and *)
(* the reconnect.  The mechanism is NULL and neither socket is a STREAM.   *)
(*                                                                         *)
(* Each socket is used by a thread of its own.  A call is a chain of steps *)
(* between which the bytes of the other side arrive.  On the wire are the  *)
(* two pieces of the greeting, the READY command and messages, each        *)
(* written with one write_all.  Reads wait for at most a second, but a     *)
(* server reads the greeting without a timeout.  The model assumes that a  *)
(* thread within a call makes its next step in less than a second: a read  *)
(* times out only when the other side is not in a call or waits as well.   *)
(* The kernel's buffers never fill.                                        *)
(*                                                                         *)
(* A bind or connect of a socket that is bound or connected replaces its   *)
(* listener or stream.  bind resets the handshake's flags and keeps the    *)
(* stream, though: the server's next call greets a stream in use again.    *)
(* The model shows that greeting and remembers it in rebound, but not what *)
(* the other side takes it for: a thread that meets something else than it *)
(* expects goes no further.                                                *)
(***************************************************************************)
EXTENDS Naturals, Sequences, FiniteSets, Functions

CONSTANTS
  Client,   \* the socket that connects
  Server,   \* the socket that binds
  Endpoint,    \* addresses to bind and connect to
  NoEndpoint,  \* none of them
  Conn,     \* names of connections, used again when both ends are done
  NoConn,   \* the absent stream
  Setups,   \* the setups to choose from
  MaxMsgs   \* bound on the messages sent over one connection in any setup

End == {Client, Server}

Setup ==
  [ipc : BOOLEAN,          \* is the transport IPC, or TCP?
   at : SUBSET Endpoint,   \* the addresses that are bound and connected to
   hello : SUBSET End,     \* the sockets with a hello message
   notice : SUBSET End,    \* those with a disconnect or a hiccup message
   leaves : SUBSET End,    \* those that unbind or disconnect
   again : SUBSET End,     \* those that bind when bound, or connect when connected
   msgs : 0 .. MaxMsgs]    \* bound on the messages each sends over a connection

ASSUME TcpAssumption ==
  /\ Client # Server
  /\ NoConn \notin Conn
  /\ NoEndpoint \notin Endpoint
  /\ MaxMsgs \in Nat \ {0}
  /\ Setups \subseteq Setup

VARIABLES
  setup,      \* the options and habits, chosen once
  bound,      \* bound_endpoint of the server, where its listener is
  backlog,    \* the connections that wait to be accepted
  target,     \* connected_endpoint of the client
  backoff,    \* is next_reconnect_at of the client in the future?
  conn,       \* the stream of each socket
  rebound,    \* history: has a bind met a stream in use?
  flags,      \* handshake_started, peer_greeting_done, peer_ready, hello_sent
  pc,         \* where the thread of each socket is
  call,       \* the call it is in
  wire,       \* what each end has written to a connection and not been read
  closed,     \* the ends of each connection that have been closed
  wrote,      \* the ends that have written greeting and READY to it
  greetings,  \* how often each end has begun to; 2 stands for more
  sent,       \* the number of messages each end has written to it
  got         \* how many of them the other end has received

socketVars == <<setup, bound, backlog, target, backoff, conn, rebound>>
threadVars == <<pc, call>>
history == <<wrote, greetings, sent, got>>
vars == <<socketVars, flags, threadVars, wire, closed, history>>

Flags == [started : BOOLEAN, greeted : BOOLEAN, ready : BOOLEAN, hello : BOOLEAN]
Unit == [kind : {"prefix", "tail", "ready", "hello", "data"}, n : 0 .. MaxMsgs + 1]

TypeOK ==
  /\ setup \in Setups
  /\ bound \in Endpoint \cup {NoEndpoint} /\ target \in Endpoint \cup {NoEndpoint}
  /\ backoff \in BOOLEAN /\ rebound \in BOOLEAN
  /\ backlog \in Seq(Conn)
  /\ conn \in [End -> Conn \cup {NoConn}]
  /\ flags \in [End -> Flags]
  /\ pc \in [End -> {"idle", "open", "prefix", "tail", "greet", "ready", "talk", "read"}]
  /\ call \in [End -> {"none", "send", "recv"}]
  /\ wire \in [Conn -> [End -> Seq(Unit)]]
  /\ closed \in [Conn -> SUBSET End]
  /\ wrote \in [Conn -> SUBSET End]
  /\ greetings \in [Conn -> [End -> 0 .. 2]]
  /\ sent \in [Conn -> [End -> 0 .. MaxMsgs + 1]]
  /\ got \in [Conn -> [End -> 0 .. MaxMsgs + 1]]

-----------------------------------------------------------------------------
Other(x) == IF x = Client THEN Server ELSE Client
NoFlags == [started |-> FALSE, greeted |-> FALSE, ready |-> FALSE, hello |-> FALSE]
Piece(kind) == [kind |-> kind, n |-> 0]

Init ==
  /\ setup \in Setups
  /\ bound = NoEndpoint /\ target = NoEndpoint
  /\ backoff = FALSE /\ rebound = FALSE
  /\ backlog = <<>>
  /\ conn = [x \in End |-> NoConn]
  /\ flags = [x \in End |-> NoFlags]
  /\ pc = [x \in End |-> "idle"]
  /\ call = [x \in End |-> "none"]
  /\ wire = [c \in Conn |-> [x \in End |-> <<>>]]
  /\ closed = [c \in Conn |-> {}]
  /\ wrote = [c \in Conn |-> {}]
  /\ greetings = [c \in Conn |-> [x \in End |-> 0]]
  /\ sent = [c \in Conn |-> [x \in End |-> 0]]
  /\ got = [c \in Conn |-> [x \in End |-> 0]]

Incoming(x) == wire[conn[x]][Other(x)]
PeerGone(x) == Other(x) \in closed[conn[x]]

Reading(x) == pc[x] \in {"prefix", "tail", "greet", "ready", "read"}
Waiting(x) == Reading(x) /\ Incoming(x) = <<>> /\ ~PeerGone(x)

(* A second passes while x waits and nothing can come. *)
TimesOut(x) == Waiting(x) /\ (pc[Other(x)] = "idle" \/ Waiting(Other(x)))

Unused == Conn \ ({conn[x] : x \in End} \cup Range(backlog))

(* x closes its ends of the connections in C: it reads nothing more of them. *)
Close(x, C) ==
  /\ closed' = [c \in Conn |-> IF c \in C THEN closed[c] \cup {x} ELSE closed[c]]
  /\ wire' = [c \in Conn |-> IF c \in C THEN [wire[c] EXCEPT ![Other(x)] = <<>>] ELSE wire[c]]

(* The kernel makes a connection and puts it into the listener's backlog.  It
   takes the place of the stream that the client has, if it has one. *)
Dial ==
  LET c == CHOOSE d \in Unused : TRUE
      left == conn[Client]
  IN
  /\ Unused # {}
  /\ backlog' = Append(backlog, c)
  /\ conn' = [conn EXCEPT ![Client] = c]
  /\ wire' = [d \in Conn |->
       IF d = c THEN [x \in End |-> <<>>]
       ELSE IF d = left THEN [wire[d] EXCEPT ![Server] = <<>>] ELSE wire[d]]
  /\ closed' = [d \in Conn |->
       IF d = c THEN {} ELSE IF d = left THEN closed[d] \cup {Client} ELSE closed[d]]
  /\ wrote' = [wrote EXCEPT ![c] = {}]
  /\ greetings' = [greetings EXCEPT ![c] = [x \in End |-> 0]]
  /\ sent' = [sent EXCEPT ![c] = [x \in End |-> 0]]
  /\ got' = [got EXCEPT ![c] = [x \in End |-> 0]]

(* Mutant: the flags of the old stream stay. *)
FlagsKept(x) == flags

(* disconnect_ipc leaves hello_sent as it is. *)
FlagsButHello(x) == [flags EXCEPT ![x] = [NoFlags EXCEPT !.hello = flags[x].hello]]

(* What bind, connect, disconnect, unbind, a reconnect and
   reset_tcp_stream_state do to the flags. *)
FlagsReset(x) == [flags EXCEPT ![x] = NoFlags]

-----------------------------------------------------------------------------
(* bind, unbind, connect and disconnect. *)

(* bind_tcp and bind_ipc.  The address that the socket itself is bound to is
   in use over TCP; over IPC the path is removed first.  A listener that is
   replaced is closed with what it has not accepted, the stream stays. *)
BindTcp(e) ==
  /\ pc[Server] = "idle"
  /\ bound # NoEndpoint => Server \in setup.again
  /\ setup.ipc \/ e # bound
  /\ bound' = e
  /\ Close(Server, Range(backlog))
  /\ backlog' = <<>>
  /\ flags' = FlagsReset(Server)
  /\ rebound' = (rebound \/ conn[Server] # NoConn)
  /\ UNCHANGED <<setup, target, backoff, conn, threadVars, history>>

UnbindTcp ==
  /\ Server \in setup.leaves
  /\ pc[Server] = "idle"
  /\ bound # NoEndpoint
  /\ bound' = NoEndpoint
  /\ Close(Server, {conn[Server]} \cup Range(backlog))
  /\ backlog' = <<>>
  /\ conn' = [conn EXCEPT ![Server] = NoConn]
  /\ flags' = FlagsReset(Server)
  /\ UNCHANGED <<setup, target, backoff, rebound, threadVars, history>>

MayConnect == pc[Client] = "idle" /\ (target # NoEndpoint => Client \in setup.again)

(* Nobody listens: connect succeeds, and the stream is left for later. *)
ConnectTcpLater(e) ==
  /\ MayConnect
  /\ ~setup.ipc
  /\ bound # e
  /\ target' = e
  /\ backoff' = TRUE
  /\ Close(Client, {conn[Client]})
  /\ conn' = [conn EXCEPT ![Client] = NoConn]
  /\ flags' = FlagsReset(Client)
  /\ UNCHANGED <<setup, bound, backlog, rebound, threadVars, history>>

ConnectTcp(e) ==
  /\ MayConnect
  /\ ~setup.ipc
  /\ bound = e
  /\ Dial
  /\ target' = e
  /\ backoff' = FALSE
  /\ flags' = FlagsReset(Client)
  /\ UNCHANGED <<setup, bound, rebound, threadVars>>

(* connect over IPC fails when nobody listens. *)
ConnectIpc(e) ==
  /\ MayConnect
  /\ setup.ipc
  /\ bound = e
  /\ Dial
  /\ target' = e
  /\ flags' = FlagsReset(Client)
  /\ UNCHANGED <<setup, bound, backoff, rebound, threadVars>>

DisconnectTcp ==
  /\ Client \in setup.leaves
  /\ pc[Client] = "idle"
  /\ target # NoEndpoint
  /\ target' = NoEndpoint
  /\ backoff' = FALSE
  /\ Close(Client, {conn[Client]})
  /\ conn' = [conn EXCEPT ![Client] = NoConn]
  /\ flags' = IF setup.ipc THEN FlagsButHello(Client) ELSE FlagsReset(Client)
  /\ UNCHANGED <<setup, bound, backlog, rebound, threadVars, history>>

BackoffExpires ==
  /\ backoff
  /\ backoff' = FALSE
  /\ UNCHANGED <<setup, bound, backlog, target, conn, rebound, flags, threadVars,
                 wire, closed, history>>

-----------------------------------------------------------------------------
(* Mutant: recv gives up when the greeting has not been read. *)
PlaceWithoutGreeting(k, f) ==
  CASE ~f.started                             -> "open"
    [] f.started /\ k = "send"                -> "talk"
    [] f.started /\ k = "recv" /\ ~f.greeted  -> "idle"
    [] OTHER -> IF f.ready THEN "talk" ELSE "ready"

(* Where a call of kind k goes on with the flags f: send needs its own half
   of the handshake only, recv the other side's too. *)
Place(k, f) ==
  CASE ~f.started                             -> "open"
    [] f.started /\ k = "send"                -> "talk"
    [] f.started /\ k = "recv" /\ ~f.greeted  -> "greet"
    [] OTHER -> IF f.ready THEN "talk" ELSE "ready"

Begin(x, k, f) ==
  /\ pc' = [pc EXCEPT ![x] = Place(k, f)]
  /\ call' = [call EXCEPT ![x] = k]

Return(x) ==
  /\ pc' = [pc EXCEPT ![x] = "idle"]
  /\ call' = [call EXCEPT ![x] = "none"]

(* A call finds the stream there. *)
Call(x, k) ==
  /\ pc[x] = "idle"
  /\ conn[x] # NoConn
  /\ k = "send" => sent[conn[x]][x] < setup.msgs
  /\ Begin(x, k, flags[x])
  /\ UNCHANGED <<socketVars, flags, wire, closed, history>>

(* ensure_tcp_stream of the client: the reconnect, once the backoff is over. *)
Reconnect(k) ==
  /\ pc[Client] = "idle"
  /\ ~setup.ipc
  /\ conn[Client] = NoConn
  /\ target # NoEndpoint /\ ~backoff /\ bound = target
  /\ Dial
  /\ flags' = FlagsReset(Client)
  /\ Begin(Client, k, NoFlags)
  /\ UNCHANGED <<setup, bound, target, backoff, rebound>>

ReconnectRefused ==
  /\ pc[Client] = "idle"
  /\ ~setup.ipc
  /\ conn[Client] = NoConn
  /\ target # NoEndpoint /\ ~backoff /\ bound # target
  /\ backoff' = TRUE
  /\ UNCHANGED <<setup, bound, backlog, target, conn, rebound, flags, threadVars,
                 wire, closed, history>>

(* ensure_tcp_stream of the server: the flags are left as they are. *)
AcceptTcp(k) ==
  /\ pc[Server] = "idle"
  /\ ~setup.ipc
  /\ conn[Server] = NoConn
  /\ backlog # <<>>
  /\ conn' = [conn EXCEPT ![Server] = Head(backlog)]
  /\ backlog' = Tail(backlog)
  /\ Begin(Server, k, flags[Server])
  /\ UNCHANGED <<setup, bound, target, backoff, rebound, flags, wire, closed, history>>

(* ensure_ipc_stream, which resets them. *)
AcceptIpc(k) ==
  /\ pc[Server] = "idle"
  /\ setup.ipc
  /\ conn[Server] = NoConn
  /\ backlog # <<>>
  /\ conn' = [conn EXCEPT ![Server] = Head(backlog)]
  /\ backlog' = Tail(backlog)
  /\ flags' = FlagsReset(Server)
  /\ Begin(Server, k, NoFlags)
  /\ UNCHANGED <<setup, bound, target, backoff, rebound, wire, closed, history>>

-----------------------------------------------------------------------------
(* The handshake: write_zmtp_handshake_tcp. *)

(* The connection of x when x reads n units and writes the units in w, which
   are lost when the other side is gone. *)
Exchange(x, n, w) ==
  wire' = [wire EXCEPT ![conn[x]][Other(x)] = SubSeq(@, n + 1, Len(@)),
                       ![conn[x]][x] = IF PeerGone(x) THEN @ ELSE @ \o w]

Sees(x, kind) == Incoming(x) # <<>> /\ Head(Incoming(x)).kind = kind

WriteGreeting(x) ==
  /\ pc[x] = "open"
  /\ Exchange(x, 0, <<Piece("prefix")>>)
  /\ greetings' = [greetings EXCEPT ![conn[x]][x] = IF @ = 2 THEN 2 ELSE @ + 1]
  /\ pc' = [pc EXCEPT ![x] = "prefix"]
  /\ UNCHANGED <<socketVars, flags, call, closed, wrote, sent, got>>

ReadPrefix(x) ==
  /\ pc[x] = "prefix"
  /\ Sees(x, "prefix")
  /\ Exchange(x, 1, <<Piece("tail")>>)
  /\ pc' = [pc EXCEPT ![x] = "tail"]
  /\ UNCHANGED <<socketVars, flags, call, closed, history>>

(* Mutant: the greeting of the peer counts as read. *)
GreetedAnyway(f, seen) == [f EXCEPT !.started = TRUE, !.greeted = TRUE, !.ready = FALSE]

(* The flags f after the handshake, which has seen the other side's greeting
   or not; the mechanism NULL leaves peer_ready to recv. *)
HandshakeResult(f, seen) ==
  [f EXCEPT !.started = TRUE, !.greeted = seen, !.ready = FALSE]

(* READY has been written. *)
Started(x, seen) ==
  /\ flags' = [flags EXCEPT ![x] = HandshakeResult(@, seen)]
  /\ wrote' = [wrote EXCEPT ![conn[x]] = @ \cup {x}]
  /\ pc' = [pc EXCEPT ![x] = Place(call[x], HandshakeResult(flags[x], seen))]
  /\ UNCHANGED <<socketVars, call, closed, greetings, sent, got>>

(* The server has not answered yet: the client writes its part and leaves
   the greeting of the server to a later recv. *)
PrefixTimeout(x) ==
  /\ pc[x] = "prefix"
  /\ x = Client
  /\ TimesOut(x)
  /\ Exchange(x, 0, <<Piece("tail"), Piece("ready")>>)
  /\ Started(x, FALSE)

ReadTail(x) ==
  /\ pc[x] = "tail"
  /\ Sees(x, "tail")
  /\ Exchange(x, 1, <<Piece("ready")>>)
  /\ Started(x, TRUE)

(* The other side is gone: a write or a read fails, and so does the call.
   The stream and the flags stay.  What was read is lost. *)
HandshakeFails(x) ==
  /\ pc[x] \in {"open", "prefix", "tail", "greet", "ready"}
  /\ PeerGone(x)
  /\ Exchange(x, Len(Incoming(x)), <<>>)
  /\ Return(x)
  /\ UNCHANGED <<socketVars, flags, closed, history>>

(* recv: what the handshake has not read of the other side. *)
ReadGreeting(x) ==
  /\ pc[x] = "greet"
  /\ Sees(x, "prefix")
  /\ Len(Incoming(x)) > 1 /\ Incoming(x)[2].kind = "tail"
  /\ Exchange(x, 2, <<>>)
  /\ flags' = [flags EXCEPT ![x].greeted = TRUE]
  /\ pc' = [pc EXCEPT ![x] = "ready"]
  /\ UNCHANGED <<socketVars, call, closed, history>>

ReadReady(x) ==
  /\ pc[x] = "ready"
  /\ Sees(x, "ready")
  /\ Exchange(x, 1, <<>>)
  /\ flags' = [flags EXCEPT ![x].ready = TRUE]
  /\ pc' = [pc EXCEPT ![x] = "talk"]
  /\ UNCHANGED <<socketVars, call, closed, history>>

(* EAGAIN. *)
HandshakeTimeout(x) ==
  /\ pc[x] \in {"greet", "ready"}
  /\ TimesOut(x)
  /\ Return(x)
  /\ UNCHANGED <<socketVars, flags, wire, closed, history>>

-----------------------------------------------------------------------------
(* Messages. *)

(* send_tcp_hello_message writes the hello message unless that is done. *)
HelloDue(x) == x \in setup.hello /\ ~flags[x].hello

Hello(x) == IF HelloDue(x) THEN <<[kind |-> "hello", n |-> sent[conn[x]][x] + 1]>> ELSE <<>>

Write(x, w) ==
  /\ Exchange(x, 0, w)
  /\ sent' = [sent EXCEPT ![conn[x]][x] = @ + Len(w)]
  /\ flags' = [flags EXCEPT ![x].hello = @ \/ HelloDue(x)]
  /\ UNCHANGED <<socketVars, closed, wrote, greetings, got>>

SendFrame(x) ==
  /\ pc[x] = "talk" /\ call[x] = "send"
  /\ Write(x, Append(Hello(x), [kind |-> "data", n |-> sent[conn[x]][x] + Len(Hello(x)) + 1]))
  /\ Return(x)

(* A write to a connection that the other side has closed. *)
SendFails(x) ==
  /\ pc[x] = "talk"
  /\ PeerGone(x)
  /\ Return(x)
  /\ UNCHANGED <<socketVars, flags, wire, closed, history>>

RecvHello(x) ==
  /\ pc[x] = "talk" /\ call[x] = "recv"
  /\ Write(x, Hello(x))
  /\ pc' = [pc EXCEPT ![x] = "read"]
  /\ UNCHANGED call

(* One frame is read at a time. *)
FramesRead == 1

RecvFrame(x) ==
  /\ pc[x] = "read"
  /\ Sees(x, "hello") \/ Sees(x, "data")
  /\ Exchange(x, FramesRead, <<>>)
  /\ got' = [got EXCEPT ![conn[x]][Other(x)] = IF @ > MaxMsgs THEN @ ELSE @ + 1]
  /\ Return(x)
  /\ UNCHANGED <<socketVars, flags, closed, wrote, greetings, sent>>

(***************************************************************************)
(* The read fails, with a timeout or because the other side is gone.  With *)
(* a disconnect or hiccup message recv resets the stream, whatever the     *)
(* reason, and returns that message; otherwise it returns the error and    *)
(* the stream stays.                                                       *)
(***************************************************************************)
RecvFails(x) ==
  /\ pc[x] = "read"
  /\ TimesOut(x) \/ (PeerGone(x) /\ Incoming(x) = <<>>)
  /\ IF x \in setup.notice
     THEN /\ conn' = [conn EXCEPT ![x] = NoConn]
          /\ Close(x, {conn[x]})
          /\ flags' = FlagsReset(x)
     ELSE UNCHANGED <<conn, closed, wire, flags>>
  /\ Return(x)
  /\ UNCHANGED <<setup, bound, backlog, target, backoff, rebound, history>>

-----------------------------------------------------------------------------
Lifecycle ==
  \/ \E e \in setup.at : BindTcp(e) \/ ConnectTcpLater(e) \/ ConnectTcp(e) \/ ConnectIpc(e)
  \/ UnbindTcp
  \/ DisconnectTcp

(* A call begins. *)
Enter(k) ==
  \/ \E x \in End : Call(x, k)
  \/ Reconnect(k)
  \/ AcceptTcp(k)
  \/ AcceptIpc(k)

Step(x) ==
  \/ WriteGreeting(x)
  \/ ReadPrefix(x)
  \/ PrefixTimeout(x)
  \/ ReadTail(x)
  \/ HandshakeFails(x)
  \/ ReadGreeting(x)
  \/ ReadReady(x)
  \/ HandshakeTimeout(x)
  \/ SendFrame(x)
  \/ SendFails(x)
  \/ RecvHello(x)
  \/ RecvFrame(x)
  \/ RecvFails(x)

(* What the thread of x is about to read. *)
Expected(x) ==
  CASE pc[x] \in {"prefix", "greet"} -> {"prefix"}
    [] pc[x] = "tail"                -> {"tail"}
    [] pc[x] = "ready"               -> {"ready"}
    [] OTHER                         -> {"hello", "data"}

(* A thread has met a second greeting: what it makes of it is not modelled. *)
Lost ==
  /\ \E x \in End :
       Reading(x) /\ Incoming(x) # <<>> /\ Head(Incoming(x)).kind \notin Expected(x)
  /\ UNCHANGED vars

Next ==
  \/ Lifecycle
  \/ BackoffExpires
  \/ \E k \in {"send", "recv"} : Enter(k)
  \/ ReconnectRefused
  \/ \E x \in End : Step(x)
  \/ Lost

Spec == Init /\ [][Next]_vars

(* Threads go on with a call they are in, the applications go on receiving,
   and time passes. *)
Fairness ==
  /\ \A x \in End : WF_vars(Step(x)) /\ WF_vars(Call(x, "recv"))
  /\ WF_vars(Reconnect("recv"))
  /\ WF_vars(AcceptTcp("recv"))
  /\ WF_vars(AcceptIpc("recv"))
  /\ WF_vars(BackoffExpires)

FairSpec == Spec /\ Fairness

-----------------------------------------------------------------------------
(* Both sockets hold the two ends of a connection that nobody has closed. *)
LinkUp ==
  /\ conn[Client] # NoConn
  /\ conn[Client] = conn[Server]
  /\ closed[conn[Client]] = {}

(***************************************************************************)
(* Nobody misreads a live connection: what is on the wire next is what the *)
(* thread expects there, whichever of send and recv the sockets called     *)
(* first, and whichever reads timed out.  This holds until the server binds *)
(* while it has a stream.                                                  *)
(***************************************************************************)
Aligned ==
  ~rebound =>
    \A x \in End :
      Reading(x) /\ ~PeerGone(x) /\ Incoming(x) # <<>> =>
        Head(Incoming(x)).kind \in Expected(x)

(***************************************************************************)
(* No flag outlives its stream: a socket that believes its handshake is    *)
(* written has written it to the stream it holds now, and one that has     *)
(* read the other side's READY holds a stream the other side wrote it to,  *)
(* after any number of resets, reconnects, unbinds, binds and connects.    *)
(***************************************************************************)
FlagsMatchStream ==
  \A x \in End :
    /\ flags[x].started => conn[x] # NoConn /\ x \in wrote[conn[x]]
    /\ flags[x].ready => conn[x] # NoConn /\ Other(x) \in wrote[conn[x]]

(***************************************************************************)
(* The greeting is written once to a live connection: a second one would   *)
(* be read as garbage.                                                     *)
(***************************************************************************)
GreetedOnce ==
  \A c \in Conn, x \in End : closed[c] = {} => greetings[c][x] < 2

(***************************************************************************)
(* Handshakes and streams belong together: each stream that is in use is   *)
(* greeted once, and whatever a socket remembers of a handshake it         *)
(* remembers of the stream it holds.  The exception is a stream that the   *)
(* server holds while it binds: bind_tcp and bind_ipc forget the handshake *)
(* and keep the stream, which is greeted again.                            *)
(***************************************************************************)
HandshakeOfItsStream == ~rebound => TypeOK /\ FlagsMatchStream /\ GreetedOnce

(***************************************************************************)
(* A hello message is the first message of its sender on every connection, *)
(* and comes once.                                                         *)
(***************************************************************************)
HelloComesFirst ==
  \A c \in Conn, x \in End : \A i \in 1 .. Len(wire[c][x]) :
    LET u == wire[c][x][i] IN
    u.n > 0 => (u.kind = "hello" <=> x \in setup.hello /\ u.n = 1)

(* The messages that x has written and that are among the next i units. *)
MessagesUpTo(c, x, i) == {j \in 1 .. i : wire[c][x][j].n > 0}

(***************************************************************************)
(* Messages of a connection are received in the order they were sent,      *)
(* without gaps and without repetition, the hello message first, until the *)
(* server binds while it has a stream: hello_sent is forgotten then.       *)
(***************************************************************************)
InOrder ==
  ~rebound =>
    /\ HelloComesFirst
    /\ \A c \in Conn, x \in End : \A i \in 1 .. Len(wire[c][x]) :
         wire[c][x][i].n > 0 =>
           wire[c][x][i].n = got[c][x] + Cardinality(MessagesUpTo(c, x, i))

(***************************************************************************)
(* When the sockets stay, every message sent is received, whichever side   *)
(* was there first, as long as the applications go on receiving.           *)
(***************************************************************************)
Delivered ==
  setup.leaves = {} /\ setup.notice = {} /\ setup.again = {} =>
    \A c \in Conn, x \in End, n \in 1 .. MaxMsgs :
      (sent[c][x] >= n) ~> (got[c][x] >= n)

(***************************************************************************)
(* A connection that breaks is made again: once the server listens for     *)
(* good and the client wants to be connected for good, they have a         *)
(* connection again and again.                                             *)
(***************************************************************************)
ComesBack == <>[](bound # NoEndpoint /\ bound = target) => []<>LinkUp
=============================================================================
