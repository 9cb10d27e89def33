----------------------------- MODULE WebSocket ------------------------------
(***************************************************************************)
(* The ws:// and wss:// transports of libzmq-core/src/socket.rs (bind_ws,  *)
(* unbind_ws, connect_ws, disconnect_ws, ensure_ws_ready, send_ws_frame,   *)
(* recv_ws_frame, their wss counterparts, and the handshake functions      *)
(* they call).                                                             *)
(*                                                                         *)
(* A socket has one stream: the one it opened, or the first its listener   *)
(* accepts.  The upgrade request goes out with connect over ws, and with   *)
(* the first send or recv over wss; the listening side accepts and answers *)
(* within its first send or recv; the connecting side reads the answer in  *)
(* its first recv, and sends frames without having seen it.  Both sides    *)
(* run in threads of their own and meet in the kernel's buffers, which     *)
(* hold each write whole: a request, a response or a frame.  A call that   *)
(* finds nothing to read, or fails, changes no more than the actions of    *)
(* the part it has done.                                                   *)
(***************************************************************************)
EXTENDS Naturals, Sequences, SequencesExt

CONSTANTS
  WsSockets,  \* the sockets
  MaxConns,   \* bound on the connections made
  MaxBuffer,  \* bound on what waits in one direction of a connection
  MaxCalls    \* bound on the frames sent over one connection, each way

VARIABLES
  secure,   \* TRUE for wss, FALSE for ws
  ws,       \* WsState, WssState of each socket
  wire,     \* the connections made: buffers, which ends are open, history
  backlog   \* the kernel's queue of each listener: connections to accept

wvars == <<secure, ws, wire, backlog>>

Ends == {"client", "server"}
Other(e) == IF e = "client" THEN "server" ELSE "client"

(* A response proves that its writer has read the key of the request. *)
Unit == [what : {"req", "resp"}, key : 1 .. MaxConns]
          \cup [what : {"frame"}, n : 1 .. MaxCalls, masked : BOOLEAN]

(***************************************************************************)
(* conn is the stream, 0 for None, and end which end of it this socket     *)
(* has; bound and connected are the two endpoint fields, key client_key.   *)
(* done is handshake_done, or websocket_done; asked client_request_sent.   *)
(***************************************************************************)
State == [listener : BOOLEAN, conn : 0 .. MaxConns, end : Ends,
          bound : BOOLEAN, connected : BOOLEAN, done : BOOLEAN,
          asked : BOOLEAN, key : 0 .. MaxConns]

(* to[e] is what end e may read; sent[e] and got[e] count its frames. *)
Conn == [to : [Ends -> Seq(Unit)], open : SUBSET Ends,
         sent : [Ends -> 0 .. MaxCalls], got : [Ends -> 0 .. MaxCalls]]

TypeOK ==
  /\ secure \in BOOLEAN
  /\ ws \in [WsSockets -> State]
  /\ wire \in Seq(Conn)
  /\ backlog \in [WsSockets -> Seq(1 .. MaxConns)]

Unused == [listener |-> FALSE, conn |-> 0, end |-> "client", bound |-> FALSE,
           connected |-> FALSE, done |-> FALSE, asked |-> FALSE, key |-> 0]

Init ==
  /\ secure \in BOOLEAN
  /\ ws = [s \in WsSockets |-> Unused]
  /\ wire = <<>>
  /\ backlog = [s \in WsSockets |-> <<>>]

-----------------------------------------------------------------------------
(* The kernel. *)

(* The ends that are closed when s gives up its stream and its listener. *)
Closing(s, c) ==
  (IF ws[s].conn = c THEN {ws[s].end} ELSE {})
    \cup (IF c \in Range(backlog[s]) THEN {"server"} ELSE {})

Closed(s) == [c \in DOMAIN wire |->
               [wire[c] EXCEPT !.open = @ \ Closing(s, c)]]

(* What a write of u by end e of c makes of the connections w; a write     *)
(* towards a closed end is lost.                                           *)
Written(w, c, e, u) ==
  IF Other(e) \in w[c].open
  THEN [w EXCEPT ![c].to[Other(e)] = Append(@, u)] ELSE w

Request(c) == [what |-> "req", key |-> c]

-----------------------------------------------------------------------------
(* bind_ws: a new listener, of another address if there was one, takes the *)
(* place of everything.                                                    *)
Bind(s) ==
  /\ ws' = [ws EXCEPT ![s] = [Unused EXCEPT !.listener = TRUE,
                                            !.bound = TRUE]]
  /\ wire' = Closed(s)
  /\ backlog' = [backlog EXCEPT ![s] = <<>>]

(* What unbind_ws leaves behind. *)
AfterUnbind(s) == [Unused EXCEPT !.connected = ws[s].connected]

Unbind(s) ==
  /\ ws[s].bound
  /\ ws' = [ws EXCEPT ![s] = AfterUnbind(s)]
  /\ wire' = Closed(s)
  /\ backlog' = [backlog EXCEPT ![s] = <<>>]

(* connect_ws writes the request itself; connect_wss leaves it for later. *)
AsksNow == ~secure

(* connect_ws: the kernel connects to a listener before it accepts. *)
Connect(s, t) ==
  LET c == Len(wire) + 1
      fresh == [to |-> [e \in Ends |-> <<>>], open |-> Ends,
                sent |-> [e \in Ends |-> 0], got |-> [e \in Ends |-> 0]]
      made == Append(Closed(s), fresh) IN
  /\ s # t
  /\ ws[t].listener
  /\ c <= MaxConns
  /\ ws' = [ws EXCEPT ![s] = [Unused EXCEPT !.conn = c, !.connected = TRUE,
                                            !.key = c]]
  /\ wire' = IF AsksNow THEN Written(made, c, "client", Request(c)) ELSE made
  /\ backlog' = [backlog EXCEPT ![t] = Append(@, c), ![s] = <<>>]

Disconnect(s) ==
  /\ ws[s].connected
  /\ ws' = [ws EXCEPT ![s] = [Unused EXCEPT !.listener = ws[s].listener,
                                            !.bound = ws[s].bound]]
  /\ wire' = Closed(s)
  /\ UNCHANGED backlog

-----------------------------------------------------------------------------
(* ensure_ws_ready and what it calls. *)

Here(s) == wire[ws[s].conn].to[ws[s].end]

(* The unit s reads next is of this kind. *)
Reads(s, kind) ==
  /\ ws[s].conn # 0
  /\ Here(s) # <<>>
  /\ Head(Here(s)).what = kind

(* The connections when s has read a unit, and not a byte more. *)
Consumed(s) == [wire EXCEPT ![ws[s].conn].to[ws[s].end] = Tail(@)]

(* A stream is accepted only when there is none: a dead one stays. *)
MayAccept(s) == ws[s].listener /\ ws[s].conn = 0

Accept(s) ==
  /\ MayAccept(s)
  /\ backlog[s] # <<>>
  /\ ws' = [ws EXCEPT ![s].conn = Head(backlog[s]), ![s].end = "server"]
  /\ backlog' = [backlog EXCEPT ![s] = Tail(@)]
  /\ UNCHANGED wire

(* websocket_server_handshake reads the request and writes the response. *)
ServerHandshake(s) ==
  /\ ~ws[s].done /\ ws[s].bound
  /\ Reads(s, "req")
  /\ wire' = Written(Consumed(s), ws[s].conn, ws[s].end,
               [what |-> "resp", key |-> Head(Here(s)).key])
  /\ ws' = [ws EXCEPT ![s].done = TRUE]
  /\ UNCHANGED backlog

(* Mutant: every call writes the request. *)
AskedNever(s) == FALSE

(* write_wss_client_request returns at once the second time. *)
Asked(s) == ws[s].asked

(* write_wss_client_request, in the first send or recv. *)
WriteRequest(s) ==
  /\ secure
  /\ ws[s].connected /\ ~ws[s].done /\ ws[s].conn # 0
  /\ ~Asked(s)
  /\ Len(wire[ws[s].conn].to["server"]) < MaxBuffer
  /\ wire' = Written(wire, ws[s].conn, ws[s].end, Request(ws[s].key))
  /\ ws' = [ws EXCEPT ![s].asked = TRUE]
  /\ UNCHANGED backlog

(* websocket_client_handshake reads the response and tests its key. *)
ClientHandshake(s) ==
  /\ ~ws[s].done /\ ~ws[s].bound
  /\ secure => ws[s].asked
  /\ Reads(s, "resp")
  /\ Head(Here(s)).key = ws[s].key
  /\ wire' = Consumed(s)
  /\ ws' = [ws EXCEPT ![s].done = TRUE]
  /\ UNCHANGED backlog

-----------------------------------------------------------------------------
(* A connecting side may send before the response, but after its request;  *)
(* a listening side only after the handshake.                              *)
MaySend(s) ==
  /\ ws[s].conn # 0
  /\ ws[s].done \/ (ws[s].connected /\ (secure => ws[s].asked))

(* send_ws_frame masks when connected_endpoint is set, and send_wss_frame  *)
(* when the stream is the client's end of TLS.                             *)
Masks(s) == IF secure THEN ws[s].end = "client" ELSE ws[s].connected

SendFrame(s) ==
  LET c == ws[s].conn
      e == ws[s].end IN
  /\ MaySend(s)
  /\ wire[c].sent[e] < MaxCalls
  /\ Len(wire[c].to[Other(e)]) < MaxBuffer
  /\ wire' = [Written(wire, c, e, [what |-> "frame",
                n |-> wire[c].sent[e] + 1, masked |-> Masks(s)])
              EXCEPT ![c].sent[e] = @ + 1]
  /\ UNCHANGED <<ws, backlog>>

RecvFrame(s) ==
  /\ ws[s].done
  /\ Reads(s, "frame")
  /\ wire' = [Consumed(s) EXCEPT ![ws[s].conn].got[ws[s].end] = Head(Here(s)).n]
  /\ UNCHANGED <<ws, backlog>>

Next ==
  /\ UNCHANGED secure
  /\ \E s \in WsSockets :
     \/ Bind(s) \/ Unbind(s) \/ Disconnect(s)
     \/ \E t \in WsSockets : Connect(s, t)
     \/ Accept(s) \/ ServerHandshake(s) \/ WriteRequest(s) \/ ClientHandshake(s)
     \/ SendFrame(s) \/ RecvFrame(s)

Spec == Init /\ [][Next]_wvars

-----------------------------------------------------------------------------
(* Whatever was bound, connected and given up before on the same socket,   *)
(* what a side is about to read is what its flags make it expect: the      *)
(* request or the response until its handshake is done, and frames from    *)
(* then on; a request or a response read as a frame would break the        *)
(* stream (handshake_done, client_request_sent, client_key).               *)
StreamAligned ==
  \A s \in WsSockets : ws[s].conn # 0 /\ Here(s) # <<>> =>
    LET u == Head(Here(s)) IN
    IF ws[s].done THEN u.what = "frame"
    ELSE IF ws[s].bound THEN u.what = "req"
    ELSE u.what = "resp" /\ u.key = ws[s].key

(* Each side plays the part of its end of the connection: who listens      *)
(* answers, who connects asks, and exactly the frames of the connecting    *)
(* end are masked, although mask, handshake and stream are decided by      *)
(* three different fields (send_ws_frame, ensure_ws_ready).                *)
RolesMatchEnds ==
  /\ \A s \in WsSockets : ws[s].conn # 0 =>
       /\ ws[s].bound = (ws[s].end = "server")
       /\ ws[s].connected = (ws[s].end = "client")
  /\ \A c \in DOMAIN wire : \A e \in Ends : \A u \in Range(wire[c].to[e]) :
       u.what = "frame" => u.masked = (e = "server")

(* How many units are ahead of the first frame. *)
Ahead(q) == IF q # <<>> /\ Head(q).what # "frame" THEN 1 ELSE 0

(* Frames arrive once and in order, those sent ahead of the response too:  *)
(* behind at most one request or response there are frames only, what was  *)
(* received and what is under way is what was sent, and nothing is missing *)
(* while both ends are open (send_ws_frame, recv_ws_frame).                *)
NothingMissing ==
  \A c \in DOMAIN wire : \A e \in Ends :
    LET q == wire[c].to[e]
        coming == Len(q) - Ahead(q) IN
    /\ \A i \in 1 .. coming :
         q[Ahead(q) + i].what = "frame" /\ q[Ahead(q) + i].n = wire[c].got[e] + i
    /\ wire[c].open = Ends =>
         wire[c].got[e] + coming = wire[c].sent[Other(e)]

(* A listening socket that has a stream keeps it until it is unbound or    *)
(* bound anew, also when the peer is gone: it never mixes the frames of    *)
(* two connections (ensure_ws_ready).                                      *)
OneStreamPerBind ==
  [][\A s \in WsSockets :
       ws[s].conn # 0 /\ ws'[s].conn \notin {0, ws[s].conn} => ~ws'[s].bound]_wvars
=============================================================================
