------------------------------ MODULE ZapAuth ------------------------------
(***************************************************************************)
(* Authorization of a handshake by the ZAP handler of the context: the     *)
(* server connects a transient REQ peer to inproc://zeromq.zap.01, pushes  *)
(* its request into the handler's inbox, waits at most a second for the    *)
(* reply and disconnects (authorize_plain_via_zap, authorize_curve_via_zap *)
(* and authorize_gssapi_via_zap of libzmq-core/src/socket.rs, which differ *)
(* in the credentials they send).  Sockets of several threads do so at the *)
(* same time; the handler is a REP socket of the application.              *)
(***************************************************************************)
EXTENDS Naturals, Sequences

CONSTANTS
    Servers,    \* sockets that accept connections
    MaxTries    \* bound: handshakes of each of them

VARIABLES
    bound,     \* is the handler bound to zeromq.zap.01
    peers,     \* transient peers listed with the handler's endpoint
    pending,   \* transient peers waiting for a bind
    inbox,     \* the handler's queue: requests, by the transient id
    turn,      \* the handler's state machine: "recv" or "send"
    asker,     \* the request it answers
    replies,   \* per transient id: the queue of its replies
    auth,      \* per server: the place in authorize_*_via_zap
    try,       \* per server: number of the handshake
    verdict,   \* history, per transient id: what the handler answered
    gaveUp     \* history: transient ids that timed out or lost the handler

zvars == <<bound, peers, pending, inbox, turn, asker, replies, auth, try, verdict, gaveUp>>

(* context.next_transient_socket_id: never used before. *)
Id(s) == <<s, try[s]>>
Ids == Servers \X (1..MaxTries)
Nobody == <<>>

Init ==
    /\ bound = FALSE
    /\ peers = {} /\ pending = {}
    /\ inbox = <<>>
    /\ turn = "recv" /\ asker = Nobody
    /\ replies = [i \in Ids |-> <<>>]
    /\ auth = [s \in Servers |-> "idle"]
    /\ try = [s \in Servers |-> 0]
    /\ verdict = [i \in Ids |-> "none"]
    /\ gaveUp = {}

Handler == <<inbox, turn, asker, verdict>>
Registry == <<bound, peers, pending>>

-----------------------------------------------------------------------------
(* The handshake's thread *)

(* inproc_endpoint("zeromq.zap.01") is looked up first; without a handler the *)
(* options decide.                                                            *)
Authorize(s) ==
    /\ auth[s] \in {"idle", "ok", "denied", "again", "local"} /\ try[s] < MaxTries
    /\ try' = [try EXCEPT ![s] = @ + 1]
    /\ auth' = [auth EXCEPT ![s] = IF bound THEN "found" ELSE "local"]
    /\ UNCHANGED <<replies, gaveUp>> /\ UNCHANGED Handler /\ UNCHANGED Registry

ConnectFound(s) ==
    /\ auth[s] = "found" /\ bound
    /\ peers' = peers \cup {Id(s)}
    /\ auth' = [auth EXCEPT ![s] = "connected"]
    /\ UNCHANGED <<bound, pending, replies, try, gaveUp>> /\ UNCHANGED Handler

(* The handler went away since it was looked up.  The peer is left in the     *)
(* waiting list: the call returns EAGAIN before it comes to disconnect.       *)
ConnectMissed(s) ==
    /\ auth[s] = "found" /\ ~bound
    /\ pending' = pending \cup {Id(s)}
    /\ gaveUp' = gaveUp \cup {Id(s)}
    /\ auth' = [auth EXCEPT ![s] = "again"]
    /\ UNCHANGED <<bound, peers, replies, try>> /\ UNCHANGED Handler

(* All frames of the request are pushed under one lock of the queue.          *)
SendZapRequest(s) ==
    /\ auth[s] = "connected"
    /\ inbox' = Append(inbox, Id(s))
    /\ auth' = [auth EXCEPT ![s] = "waiting"]
    /\ UNCHANGED <<turn, asker, verdict, replies, try, gaveUp>> /\ UNCHANGED Registry

(* Mutant: one reply queue for all of them. *)
ReplyOfAnybody(s) == UNION {{replies[i][n] : n \in 1..Len(replies[i])} : i \in Ids}
ReplyFor(s) == IF replies[Id(s)] = <<>> THEN {} ELSE {Head(replies[Id(s)])}

(* ZapReply::decode and the first character of the status code.               *)
Result(reply) == IF reply = "200" THEN "ok" ELSE "denied"

Disconnect(s) ==
    /\ peers' = peers \ {Id(s)}
    /\ pending' = pending \ {Id(s)}

ReceiveReply(s) ==
    /\ auth[s] = "waiting"
    /\ \E reply \in ReplyFor(s) :
        auth' = [auth EXCEPT ![s] = Result(reply)]
    /\ Disconnect(s)
    /\ UNCHANGED <<bound, replies, try, gaveUp>> /\ UNCHANGED Handler

ReplyTimeout(s) ==
    /\ auth[s] = "waiting" /\ replies[Id(s)] = <<>>
    /\ auth' = [auth EXCEPT ![s] = "again"]
    /\ gaveUp' = gaveUp \cup {Id(s)}
    /\ Disconnect(s)
    /\ UNCHANGED <<bound, replies, try>> /\ UNCHANGED Handler

-----------------------------------------------------------------------------
(* The handler *)

HandlerBind ==
    /\ ~bound
    /\ bound' = TRUE
    /\ peers' = pending /\ pending' = {}
    /\ UNCHANGED <<replies, auth, try, gaveUp>> /\ UNCHANGED Handler

HandlerUnbind ==
    /\ bound
    /\ bound' = FALSE
    /\ gaveUp' = gaveUp \cup peers
    /\ peers' = {}
    /\ UNCHANGED <<pending, replies, auth, try>> /\ UNCHANGED Handler

HandlerRecv ==
    /\ turn = "recv" /\ inbox # <<>>
    /\ turn' = "send" /\ asker' = Head(inbox)
    /\ inbox' = Tail(inbox)
    /\ UNCHANGED <<replies, auth, try, verdict, gaveUp>> /\ UNCHANGED Registry

(* The reply goes to the listed peer with the routing id of the request; when *)
(* there is none, send returns EAGAIN and the handler may not receive either. *)
HandlerSend ==
    /\ turn = "send" /\ asker \in peers
    /\ \E status \in {"200", "400", "malformed"} :
        /\ replies' = [replies EXCEPT ![asker] = Append(@, status)]
        /\ verdict' = [verdict EXCEPT ![asker] = status]
    /\ turn' = "recv" /\ asker' = Nobody
    /\ UNCHANGED <<inbox, auth, try, gaveUp>> /\ UNCHANGED Registry

Next ==
    \/ \E s \in Servers :
        \/ Authorize(s) \/ ConnectFound(s) \/ ConnectMissed(s) \/ SendZapRequest(s)
        \/ ReceiveReply(s) \/ ReplyTimeout(s)
    \/ HandlerBind \/ HandlerUnbind \/ HandlerRecv \/ HandlerSend

Spec == Init /\ [][Next]_zvars

-----------------------------------------------------------------------------
(* Properties *)

(* The variables have their types. *)
TypeOK ==
    /\ bound \in BOOLEAN /\ peers \subseteq Ids /\ pending \subseteq Ids
    /\ turn \in {"recv", "send"}
    /\ auth \in [Servers -> {"idle", "local", "found", "connected", "waiting", "ok",
                             "denied", "again"}]

(* A handshake is accepted or refused by the handler's answer to that very   *)
(* handshake, although requests of several sockets share the handler's queue *)
(* and earlier requests of the same socket may be answered late (every       *)
(* request has a peer id and a queue of its own; the request id of the reply *)
(* is not looked at).                                                        *)
VerdictIsOwn ==
    \A s \in Servers :
        /\ auth[s] = "ok" => verdict[Id(s)] = "200"
        /\ auth[s] = "denied" => verdict[Id(s)] \in {"400", "malformed"}

(* Transient peers do not outlive their handshake, however it ends; the one  *)
(* exception is a handshake that finds the handler and loses it before it    *)
(* connects, which leaves its peer behind (wait_zap_reply, disconnect_inproc).*)
NobodyLeftBehind ==
    \A i \in peers \cup pending :
        \/ auth[i[1]] \in {"connected", "waiting"} /\ i = Id(i[1])
        \/ i \in gaveUp /\ verdict[i] = "none" /\ replies[i] = <<>>
               /\ ~\E n \in 1..Len(inbox) : inbox[n] = i

(* The handler's state machine can go on after every request whose sender    *)
(* still waits for it: only a request that timed out, or was pushed before   *)
(* an unbind, leaves it unable to send and to receive.                       *)
ReplyHasAddressee ==
    turn = "send" => asker \in peers \/ asker \in gaveUp
=============================================================================
