----------------------------- MODULE Handshake -----------------------------
(***************************************************************************)
(* The ZMTP handshake of a client and a server over one TCP or IPC stream, *)
(* with the mechanisms NULL, PLAIN, CURVE and GSSAPI, and the messages     *)
(* that follow it (write_zmtp_handshake_tcp, write_zmtp_handshake_ipc and  *)
(* the functions they call in libzmq-core/src/socket.rs).                  *)
(*                                                                         *)
(* A frame is a record: the name of its command (or "message"), the format *)
(* of its body and the body.  Cryptography is symbolic: a key pair is its  *)
(* name, and a box opens with the same two key pairs and the same nonce.   *)
(* One attempt is modelled; TcpStream has the attempts that follow it.     *)
(***************************************************************************)
EXTENDS Naturals, Sequences, FiniteSets

CONSTANTS
    Configs,      \* pairs of SecurityOptions to start from
    MaxMessages   \* bound: messages a side sends

VARIABLES
    opts,   \* per side: SecurityOptions, routing_id; zap, the answer of a handler
    wire,   \* per side: the frames on their way to it
    pc,     \* per side: the place in the handshake
    hs,     \* per side: the handshake's variables, and then the session's
    seen,   \* per side: identity in the metadata of the peer ("?" before)
    sent,   \* per side: number of messages sent
    got,    \* per side: the messages received
    used,   \* history: every key and nonce a box was made with
    made    \* history: number of boxes made

vars == <<opts, wire, pc, hs, seen, sent, got, used, made>>

Sides == {"client", "server"}
Peer(x) == CHOOSE y \in Sides : y # x

Transient(x) == x   \* the key pair made afresh for this handshake
Unknown == "?"

-----------------------------------------------------------------------------
(* SecurityOptions *)

NoOptions == [gssapi_principal |-> "", gssapi_service_principal |-> "",
    gssapi_plaintext |-> FALSE, gssapi_server |-> FALSE, gssapi_rounds |-> 0,
    curve_server |-> FALSE, curve_publickey |-> "", curve_secretkey |-> "",
    curve_serverkey |-> "", plain_server |-> FALSE, plain_username |-> "",
    plain_password |-> "", routing_id |-> "", zap |-> "none"]

Options == [gssapi_principal : STRING, gssapi_service_principal : STRING,
    gssapi_plaintext : BOOLEAN, gssapi_server : BOOLEAN, gssapi_rounds : Nat,
    curve_server : BOOLEAN, curve_publickey : STRING, curve_secretkey : STRING,
    curve_serverkey : STRING, plain_server : BOOLEAN, plain_username : STRING,
    plain_password : STRING, routing_id : STRING, zap : STRING]

(* The number of tokens of a GSSAPI exchange is the same for both ends,      *)
(* unless one of them is built without the gssapi feature (0).               *)
ASSUME HandshakeAssumption ==
    /\ MaxMessages \in Nat
    /\ Configs \subseteq [Sides -> Options]
    /\ \A o \in Configs :
        \/ 0 \in {o["client"].gssapi_rounds, o["server"].gssapi_rounds}
        \/ o["client"].gssapi_rounds = o["server"].gssapi_rounds

Mechanism(o) ==
    IF o.gssapi_server \/ o.gssapi_principal # "" \/ o.gssapi_service_principal # ""
    THEN "GSSAPI"
    ELSE IF o.curve_server
            \/ {o.curve_publickey, o.curve_secretkey, o.curve_serverkey} # {""}
    THEN "CURVE"
    ELSE IF o.plain_server \/ o.plain_username # "" \/ o.plain_password # ""
    THEN "PLAIN"
    ELSE "NULL"

(* The check of the options themselves, when no ZAP handler is bound. *)
AuthorizeLocally(o, mechanism, credentials) ==
    CASE mechanism = "PLAIN" ->
            /\ o.plain_username \in {"", credentials[1]}
            /\ o.plain_password \in {"", credentials[2]}
      [] mechanism = "CURVE" -> o.curve_publickey \in {"", credentials[1]}
      [] mechanism = "GSSAPI" -> o.gssapi_principal \in {"", credentials[1]}

(* Mutant: the credentials are read and not looked at. *)
AuthorizeAnybody(o, mechanism, credentials) == TRUE

Authorize(o, mechanism, credentials) ==
    CASE o.zap = "none" -> AuthorizeLocally(o, mechanism, credentials)
      [] OTHER -> o.zap = "200"

-----------------------------------------------------------------------------
(* Frames and boxes *)

Frame(cmd, format, body) == [cmd |-> cmd, format |-> format, body |-> body]
Prefix == Frame("prefix", "greeting", <<>>)
GreetingTail == Frame("tail", "greeting", <<>>)

Ready(x) == Frame("READY", "metadata", opts[x].routing_id)

Box(plain, nonce, public, secret) ==
    [key |-> {public, secret}, nonce |-> nonce, plain |-> plain]
(* Nonces are a prefix with a number; 0 stands for a random tail. *)
Opens(box, nonce, public, secret) ==
    /\ box.key = {public, secret}
    /\ box.nonce = nonce

Made(n, seals) ==
    /\ used' = used \cup seals
    /\ made' = made + n
Seal(box) == <<box.key, box.nonce>>

NextSendNonce(x) == hs[x].send_nonce + 1

-----------------------------------------------------------------------------
NoSession == [send_nonce |-> 1, recv_nonce |-> 0, peer_transient |-> Unknown,
              cookie |-> <<>>, greeted |-> FALSE, peer_ready |-> FALSE,
              session |-> "none"]

Init ==
    /\ opts \in Configs
    /\ wire = [x \in Sides |-> <<>>]
    /\ pc = [x \in Sides |-> "start"]
    /\ hs = [x \in Sides |-> NoSession]
    /\ seen = [x \in Sides |-> Unknown]
    /\ sent = [x \in Sides |-> 0]
    /\ got = [x \in Sides |-> <<>>]
    /\ used = {}
    /\ made = 0

Go(x, place) == pc' = [pc EXCEPT ![x] = place]
Say(x, f) == wire' = [wire EXCEPT ![Peer(x)] = Append(@, f)]
Answer(x, f) == wire' = [wire EXCEPT ![x] = Tail(@), ![Peer(x)] = Append(@, f)]
Hear(x) == wire' = [wire EXCEPT ![x] = Tail(@)]
Heard(x, place) == pc[x] = place /\ wire[x] # <<>>
Is(f, cmd, format) == f.cmd = cmd /\ f.format = format
NoBox == UNCHANGED <<used, made>>
NoTraffic == UNCHANGED <<opts, sent, got>>

(* command_tail, and the parsers behind it: what is read is not what the   *)
(* handshake waits for, the call returns EINVAL.                           *)
Refuse(x) ==
    /\ Go(x, "failed")
    /\ Hear(x)
    /\ UNCHANGED <<hs, seen>> /\ NoBox /\ NoTraffic

-----------------------------------------------------------------------------
(* The greeting, written in two pieces around the read of the peer's prefix. *)

Greet(x) ==
    /\ pc[x] = "start"
    /\ Go(x, "prefix")
    /\ Say(x, Prefix)
    /\ UNCHANGED <<hs, seen>> /\ NoBox /\ NoTraffic

ReadPrefix(x) ==
    /\ Heard(x, "prefix")
    /\ Go(x, "tail")
    /\ hs' = [hs EXCEPT ![x].greeted = TRUE]
    /\ Answer(x, GreetingTail)
    /\ UNCHANGED seen /\ NoBox /\ NoTraffic

(* EAGAIN of the read: a client goes on and leaves the greeting unread.  A  *)
(* server reads without a timeout.                                         *)
PrefixTimeout(x) ==
    /\ x = "client" /\ pc[x] = "prefix" /\ wire[x] = <<>>
    /\ Go(x, "mechanism")
    /\ Say(x, GreetingTail)
    /\ UNCHANGED <<hs, seen>> /\ NoBox /\ NoTraffic

ReadTail(x) ==
    /\ Heard(x, "tail")
    /\ Go(x, "mechanism")
    /\ Hear(x)
    /\ UNCHANGED <<hs, seen>> /\ NoBox /\ NoTraffic

NullReady(x) ==
    /\ pc[x] = "mechanism" /\ Mechanism(opts[x]) = "NULL"
    /\ Go(x, "done")
    /\ Say(x, Ready(x))
    /\ UNCHANGED <<hs, seen>> /\ NoBox /\ NoTraffic

-----------------------------------------------------------------------------
(* PLAIN *)

PlainHello ==
    LET o == opts["client"] IN
    /\ pc["client"] = "mechanism" /\ Mechanism(o) = "PLAIN"
    /\ Go("client", "welcome")
    /\ Say("client", Frame("HELLO", "PLAIN", <<o.plain_username, o.plain_password>>))
    /\ UNCHANGED <<hs, seen>> /\ NoBox /\ NoTraffic

PlainServerHello ==
    /\ Heard("server", "mechanism") /\ Mechanism(opts["server"]) = "PLAIN"
    /\ LET f == Head(wire["server"]) IN
       IF Is(f, "HELLO", "PLAIN") /\ Authorize(opts["server"], "PLAIN", f.body)
       THEN /\ Go("server", "initiate")
            /\ Answer("server", Frame("WELCOME", "PLAIN", <<>>))
            /\ UNCHANGED <<hs, seen>> /\ NoBox /\ NoTraffic
       ELSE Refuse("server")

(* Mutant: the client does not look which command answers its HELLO. *)
PlainWelcomeUnchecked ==
    /\ Heard("client", "welcome") /\ Mechanism(opts["client"]) = "PLAIN"
    /\ Go("client", "done")
    /\ Answer("client", Frame("INITIATE", "metadata", opts["client"].routing_id))
    /\ UNCHANGED <<hs, seen>> /\ NoBox /\ NoTraffic

PlainWelcome ==
    /\ Heard("client", "welcome") /\ Mechanism(opts["client"]) = "PLAIN"
    /\ IF Head(wire["client"]).cmd = "WELCOME"
       THEN /\ Go("client", "done")
            /\ Answer("client", Frame("INITIATE", "metadata", opts["client"].routing_id))
            /\ UNCHANGED <<hs, seen>> /\ NoBox /\ NoTraffic
       ELSE Refuse("client")

PlainServerInitiate ==
    /\ Heard("server", "initiate") /\ Mechanism(opts["server"]) = "PLAIN"
    /\ LET f == Head(wire["server"]) IN
       IF Is(f, "INITIATE", "metadata")
       THEN /\ Go("server", "done")
            /\ hs' = [hs EXCEPT !["server"].peer_ready = TRUE]
            /\ seen' = [seen EXCEPT !["server"] = f.body]
            /\ Answer("server", Ready("server"))
            /\ NoBox /\ NoTraffic
       ELSE Refuse("server")

PlainHandshake == PlainHello \/ PlainServerHello \/ PlainWelcome \/ PlainServerInitiate

-----------------------------------------------------------------------------
(* CURVE *)

(* CurveClientHandshake::new and hello_body; without usable keys the call   *)
(* fails before it writes anything.                                        *)
ClientPublicAsSet(o) == o.curve_publickey   \* mutant: not derived when unset
ClientPublic(o) ==
    IF o.curve_publickey = "" THEN o.curve_secretkey ELSE o.curve_publickey

HelloBox(o) == Box("zeros", <<"HELLO", 1>>, o.curve_serverkey, Transient("client"))

CurveHello ==
    LET o == opts["client"]
        box == HelloBox(o) IN
    /\ pc["client"] = "mechanism" /\ Mechanism(o) = "CURVE"
    /\ IF "" \in {o.curve_secretkey, o.curve_serverkey}
       THEN /\ Go("client", "failed")
            /\ UNCHANGED <<wire, hs>> /\ NoBox
       ELSE /\ Go("client", "welcome")
            /\ hs' = [hs EXCEPT !["client"].send_nonce = NextSendNonce("client")]
            /\ Say("client", Frame("HELLO", "CURVE",
                    [transient |-> Transient("client"), nonce |-> 1, box |-> box]))
            /\ Made(1, {Seal(box)})
    /\ UNCHANGED seen /\ NoTraffic

(* The cookie is sealed with a key of its own and returned by the client.   *)
Cookie == <<"cookie_key", Transient("client"), Transient("server")>>

WelcomeBox(o, client) ==
    Box(<<Transient("server"), Cookie>>, <<"WELCOME-", 0>>, client, o.curve_secretkey)

HelloGood(f, o) ==
    /\ Is(f, "HELLO", "CURVE")
    /\ o.curve_secretkey # ""
    /\ Opens(f.body.box, <<"HELLO", f.body.nonce>>, f.body.transient, o.curve_secretkey)

CurveServerHello ==
    LET o == opts["server"]
        f == Head(wire["server"])
        box == WelcomeBox(o, f.body.transient) IN
    /\ Heard("server", "mechanism") /\ Mechanism(o) = "CURVE"
    /\ IF HelloGood(f, o)
       THEN /\ Go("server", "initiate")
            /\ hs' = [hs EXCEPT !["server"].peer_transient = f.body.transient,
                                !["server"].recv_nonce = f.body.nonce,
                                !["server"].cookie = Cookie]
            /\ Answer("server", Frame("WELCOME", "CURVE", box))
            /\ Made(1, {Seal(box)})
            /\ UNCHANGED seen /\ NoTraffic
       ELSE Refuse("server")

WelcomeGood(f, o) ==
    /\ Is(f, "WELCOME", "CURVE")
    /\ Opens(f.body, <<"WELCOME-", 0>>, o.curve_serverkey, Transient("client"))

Vouch(o, server) ==
    Box(<<Transient("client"), o.curve_serverkey>>, <<"VOUCH---", 0>>, server,
        o.curve_secretkey)
InitiateBox(o, server, nonce) ==
    Box([public |-> ClientPublic(o), vouch |-> Vouch(o, server), metadata |-> o.routing_id],
        <<"INITIATE", nonce>>, server, Transient("client"))

CurveWelcome ==
    LET o == opts["client"]
        f == Head(wire["client"])
        server == f.body.plain[1]
        nonce == hs["client"].send_nonce
        box == InitiateBox(o, server, nonce) IN
    /\ Heard("client", "welcome") /\ Mechanism(o) = "CURVE"
    /\ IF WelcomeGood(f, o)
       THEN /\ Go("client", "ready")
            /\ hs' = [hs EXCEPT !["client"].peer_transient = server,
                                !["client"].cookie = f.body.plain[2],
                                !["client"].send_nonce = NextSendNonce("client")]
            /\ Answer("client", Frame("INITIATE", "CURVE",
                    [cookie |-> f.body.plain[2], nonce |-> nonce, box |-> box]))
            /\ Made(2, {Seal(Vouch(o, server)), Seal(box)})
            /\ UNCHANGED seen /\ NoTraffic
       ELSE Refuse("client")

(* parse_curve_initiate: cookie, nonce, box, and the vouch of the client's   *)
(* long-term key for its transient one.                                      *)
InitiateGood(f, o, s) ==
    /\ Is(f, "INITIATE", "CURVE")
    /\ f.body.cookie = s.cookie
    /\ f.body.nonce > s.recv_nonce
    /\ Opens(f.body.box, <<"INITIATE", f.body.nonce>>, s.peer_transient,
             Transient("server"))
    /\ LET vouch == f.body.box.plain.vouch IN
       /\ Opens(vouch, <<"VOUCH---", 0>>, f.body.box.plain.public,
                Transient("server"))
       /\ vouch.plain = <<s.peer_transient, o.curve_secretkey>>

ReadyBox(o, client) == Box(o.routing_id, <<"READY", 1>>, client, Transient("server"))

CurveServerInitiate ==
    LET o == opts["server"]
        s == hs["server"]
        f == Head(wire["server"])
        box == ReadyBox(o, s.peer_transient) IN
    /\ Heard("server", "initiate") /\ Mechanism(o) = "CURVE"
    /\ IF InitiateGood(f, o, s) /\ Authorize(o, "CURVE", <<f.body.box.plain.public>>)
       THEN /\ Go("server", "done")
            /\ hs' = [hs EXCEPT !["server"].recv_nonce = f.body.nonce,
                                !["server"].send_nonce = NextSendNonce("server"),
                                !["server"].session = "CURVE",
                                !["server"].peer_ready = TRUE]
            /\ seen' = [seen EXCEPT !["server"] = f.body.box.plain.metadata]
            /\ Answer("server", Frame("READY", "CURVE", [nonce |-> 1, box |-> box]))
            /\ Made(1, {Seal(box)}) /\ NoTraffic
       ELSE Refuse("server")

ReadyGood(f, s) ==
    /\ Is(f, "READY", "CURVE")
    /\ f.body.nonce > s.recv_nonce
    /\ Opens(f.body.box, <<"READY", f.body.nonce>>, s.peer_transient, Transient("client"))

CurveReady ==
    LET f == Head(wire["client"]) IN
    /\ Heard("client", "ready") /\ Mechanism(opts["client"]) = "CURVE"
    /\ IF ReadyGood(f, hs["client"])
       THEN /\ Go("client", "done")
            /\ hs' = [hs EXCEPT !["client"].recv_nonce = f.body.nonce,
                                !["client"].session = "CURVE",
                                !["client"].peer_ready = TRUE]
            /\ seen' = [seen EXCEPT !["client"] = f.body.box.plain]
            /\ Hear("client")
            /\ NoBox /\ NoTraffic
       ELSE Refuse("client")

CurveHandshake ==
    CurveHello \/ CurveServerHello \/ CurveWelcome \/ CurveServerInitiate \/ CurveReady

-----------------------------------------------------------------------------
(* GSSAPI.  gssapi_rounds = 0 is the build without the gssapi feature, with  *)
(* its placeholder commands; otherwise it is the number of tokens the GSSAPI *)
(* library exchanges, the client's first, and the step after the last one    *)
(* completes with an empty token.                                            *)

Placeholder(o) == o.gssapi_rounds = 0
Token(n) == Frame("INITIATE", "token", n)
GssReadyFrame(x) ==
    IF Placeholder(opts[x]) \/ opts[x].gssapi_plaintext
    THEN Ready(x)
    ELSE Frame("READY", "GSSAPI", opts[x].routing_id)
GssSession(o) == IF Placeholder(o) \/ o.gssapi_plaintext THEN "none" ELSE "GSSAPI"

(* Without the feature the options decide, with it the library has decided.  *)
GssAuthorized(o, principal) ==
    IF Placeholder(o) \/ o.zap # "none" THEN Authorize(o, "GSSAPI", <<principal>>) ELSE TRUE

GssInitiate ==
    LET o == opts["client"] IN
    /\ pc["client"] = "mechanism" /\ Mechanism(o) = "GSSAPI"
    /\ IF ~Placeholder(o) /\ o.gssapi_service_principal = ""
       THEN Go("client", "failed") /\ UNCHANGED wire
       ELSE /\ Go("client", IF o.gssapi_rounds <= 1 THEN "ready" ELSE "token")
            /\ Say("client", IF Placeholder(o)
                             THEN Frame("INITIATE", "principal", o.gssapi_principal)
                             ELSE Token(1))
    /\ UNCHANGED <<hs, seen>> /\ NoBox /\ NoTraffic

GssToken ==
    LET o == opts["client"]
        f == Head(wire["client"])
        next == f.body + 1 IN
    /\ Heard("client", "token")
    /\ IF Is(f, "INITIATE", "token") /\ next <= o.gssapi_rounds
       THEN /\ Go("client", IF next = o.gssapi_rounds THEN "ready" ELSE "token")
            /\ Answer("client", Token(next))
            /\ UNCHANGED <<hs, seen>> /\ NoBox /\ NoTraffic
       ELSE Refuse("client")

(* The server answers with its token, and once the context is complete asks   *)
(* for authorization and says READY.                                          *)
GssServerInitiate ==
    LET o == opts["server"]
        f == Head(wire["server"])
        next == f.body + 1
        ready == IF Placeholder(o) \/ next > o.gssapi_rounds
                 THEN <<GssReadyFrame("server")>>
                 ELSE <<Token(next), GssReadyFrame("server")>> IN
    /\ Heard("server", "mechanism") /\ Mechanism(o) = "GSSAPI"
    /\ IF ~Is(f, "INITIATE", IF Placeholder(o) THEN "principal" ELSE "token")
       THEN Refuse("server")
       ELSE IF ~Placeholder(o) /\ next < o.gssapi_rounds
       THEN /\ Answer("server", Token(next))
            /\ UNCHANGED <<pc, hs, seen>> /\ NoBox /\ NoTraffic
       ELSE IF ~GssAuthorized(o, IF Placeholder(o) THEN f.body
                                 ELSE opts["client"].gssapi_principal)
       THEN Refuse("server")
       ELSE /\ Go("server", "ready")
            /\ wire' = [wire EXCEPT !["server"] = Tail(@), !["client"] = @ \o ready]
            /\ UNCHANGED <<hs, seen>> /\ NoBox /\ NoTraffic

GssReady(x) ==
    LET f == Head(wire[x])
        o == opts[x] IN
    /\ Heard(x, "ready") /\ Mechanism(o) = "GSSAPI"
    /\ IF Is(f, "READY", IF GssSession(o) = "none" THEN "metadata" ELSE "GSSAPI")
       THEN /\ Go(x, "done")
            /\ hs' = [hs EXCEPT ![x].session = GssSession(o), ![x].peer_ready = TRUE]
            /\ seen' = [seen EXCEPT ![x] = f.body]
            /\ IF x = "client" THEN Answer(x, GssReadyFrame(x)) ELSE Hear(x)
            /\ NoBox /\ NoTraffic
       ELSE Refuse(x)

GssHandshake ==
    GssInitiate \/ GssToken \/ GssServerInitiate \/ \E x \in Sides : GssReady(x)

(* A client reads with a timeout: the attempt fails with EAGAIN.             *)
ReadTimeout ==
    /\ pc["client"] \in {"tail", "welcome", "ready", "token"}
    /\ wire["client"] = <<>>
    /\ Go("client", "timeout")
    /\ UNCHANGED <<wire, hs, seen>> /\ NoBox /\ NoTraffic

-----------------------------------------------------------------------------
(* After the handshake: send_tcp_frame and recv_tcp_frame.                   *)

MessagePrefixShared(x) == "MESSAGE"   \* mutant: one prefix for both directions
MessagePrefix(x) == IF x = "client" THEN "MESSAGEC" ELSE "MESSAGES"

MessageBox(x, m) ==
    Box(m, <<MessagePrefix(x), hs[x].send_nonce>>, hs[x].peer_transient, Transient(x))

SendMessage(x) ==
    LET s == hs[x]
        m == sent[x] + 1
        box == MessageBox(x, m) IN
    /\ pc[x] = "done" /\ sent[x] < MaxMessages
    /\ sent' = [sent EXCEPT ![x] = m]
    /\ IF s.session = "CURVE"
       THEN /\ Say(x, Frame("MESSAGE", "CURVE", [nonce |-> s.send_nonce, box |-> box]))
            /\ hs' = [hs EXCEPT ![x].send_nonce = NextSendNonce(x)]
            /\ Made(1, {Seal(box)})
       ELSE /\ Say(x, IF s.session = "GSSAPI" THEN Frame("MESSAGE", "GSSAPI", m)
                      ELSE Frame("message", "none", m))
            /\ UNCHANGED hs /\ NoBox
    /\ UNCHANGED <<opts, pc, seen, got>>

ReadGreeting(x) ==
    /\ pc[x] = "done" /\ ~hs[x].greeted
    /\ Len(wire[x]) >= 2
    /\ hs' = [hs EXCEPT ![x].greeted = TRUE]
    /\ wire' = [wire EXCEPT ![x] = Tail(Tail(@))]
    /\ UNCHANGED <<pc, seen>> /\ NoBox /\ NoTraffic

(* Messages before READY are skipped, any other command is an error; either  *)
(* way the next call reads on.                                               *)
ReadReady(x) ==
    LET f == Head(wire[x]) IN
    /\ Heard(x, "done") /\ hs[x].greeted /\ ~hs[x].peer_ready
    /\ Hear(x)
    /\ IF Is(f, "READY", "metadata")
       THEN /\ hs' = [hs EXCEPT ![x].peer_ready = TRUE]
            /\ seen' = [seen EXCEPT ![x] = f.body]
       ELSE UNCHANGED <<hs, seen>>
    /\ UNCHANGED pc /\ NoBox /\ NoTraffic

(* curve_message_from_body takes the nonce before it opens the box.          *)
NonceIsNew(f, s) == f.body.nonce > s.recv_nonce

RecvMessage(x) ==
    LET f == Head(wire[x])
        s == hs[x]
        new == Is(f, "MESSAGE", "CURVE") /\ NonceIsNew(f, s)
        opens == Opens(f.body.box, <<MessagePrefix(Peer(x)), f.body.nonce>>,
                       s.peer_transient, Transient(x)) IN
    /\ Heard(x, "done") /\ s.greeted /\ s.peer_ready
    /\ Hear(x)
    /\ CASE s.session = "CURVE" ->
              /\ hs' = IF new THEN [hs EXCEPT ![x].recv_nonce = f.body.nonce] ELSE hs
              /\ got' = IF new /\ opens THEN [got EXCEPT ![x] = Append(@, f.body.box.plain)]
                        ELSE got
         [] s.session = "GSSAPI" ->
              /\ got' = IF Is(f, "MESSAGE", "GSSAPI")
                        THEN [got EXCEPT ![x] = Append(@, f.body)] ELSE got
              /\ UNCHANGED hs
         [] OTHER ->
              /\ got' = IF f.cmd = "message"
                        THEN [got EXCEPT ![x] = Append(@, f.body)] ELSE got
              /\ UNCHANGED hs
    /\ UNCHANGED <<opts, pc, seen, sent>> /\ NoBox

Greeting(x) == Greet(x) \/ ReadPrefix(x) \/ PrefixTimeout(x) \/ ReadTail(x)
Traffic(x) == SendMessage(x) \/ ReadGreeting(x) \/ ReadReady(x) \/ RecvMessage(x)

Next ==
    \/ \E x \in Sides : Greeting(x) \/ NullReady(x) \/ Traffic(x)
    \/ PlainHandshake \/ CurveHandshake \/ GssHandshake
    \/ ReadTimeout

(* Both applications call send and recv until the handshake is over and every *)
(* message is read; a read that times out need not.                           *)
Fairness ==
    /\ \A x \in Sides : WF_vars(Greet(x) \/ ReadPrefix(x) \/ ReadTail(x) \/ NullReady(x))
    /\ \A x \in Sides : WF_vars(Traffic(x))
    /\ WF_vars(PlainHandshake) /\ WF_vars(CurveHandshake) /\ WF_vars(GssHandshake)

Spec == Init /\ [][Next]_vars /\ Fairness

-----------------------------------------------------------------------------
(* Properties *)

(* The variables have their types. *)
TypeOK ==
    /\ opts \in Configs
    /\ \A x \in Sides :
        /\ pc[x] \in {"start", "prefix", "tail", "mechanism", "welcome", "initiate",
                      "ready", "token", "done", "failed", "timeout"}
        /\ hs[x].send_nonce \in 1..(3 + MaxMessages)
        /\ hs[x].session \in {"none", "CURVE", "GSSAPI"}
        /\ sent[x] \in 0..MaxMessages

(* What the options of the two sides promise, whatever is sent in between. *)
Entitled(c, s) ==
    \/ Mechanism(s) = "NULL"
    \/ /\ Mechanism(s) = "PLAIN" /\ Mechanism(c) = "PLAIN"
       /\ IF s.zap # "none" THEN s.zap = "200"
          ELSE /\ s.plain_username # "" => s.plain_username = c.plain_username
               /\ s.plain_password # "" => s.plain_password = c.plain_password
    \/ /\ Mechanism(s) = "CURVE" /\ Mechanism(c) = "CURVE"
       /\ c.curve_serverkey = s.curve_secretkey
       /\ c.curve_publickey \in {"", c.curve_secretkey}
       /\ IF s.zap # "none" THEN s.zap = "200"
          ELSE s.curve_publickey # "" => s.curve_publickey = c.curve_secretkey
    \/ /\ Mechanism(s) = "GSSAPI" /\ Mechanism(c) = "GSSAPI"
       /\ ~Placeholder(c) => c.gssapi_service_principal # ""
       /\ IF s.zap # "none" THEN s.zap = "200"
          ELSE Placeholder(s) /\ s.gssapi_principal # ""
                   => s.gssapi_principal = c.gssapi_principal

(* A server finishes a handshake, and so delivers messages, only with a      *)
(* client that satisfies its options or its ZAP handler, whichever commands  *)
(* of whichever mechanism the client sends (write_zmtp_handshake_tcp).       *)
OnlyEntitled == pc["server"] = "done" => Entitled(opts["client"], opts["server"])

(* A client that asked for a mechanism finishes the handshake only with a    *)
(* server of that mechanism; the GSSAPI client of the build without the      *)
(* gssapi feature is the exception, it takes the READY of a NULL server for  *)
(* its own, because the mechanism in the greeting is never compared.         *)
SameMechanism ==
    pc["client"] = "done" /\ pc["server"] = "done" =>
        \/ Mechanism(opts["client"]) = Mechanism(opts["server"])
        \/ /\ Mechanism(opts["client"]) = "GSSAPI" /\ GssSession(opts["client"]) = "none"
           /\ Mechanism(opts["server"]) = "NULL"

(* Both sides of a finished handshake hold the same session, with each       *)
(* other's transient keys and a nonce the other has not passed yet, and know *)
(* each other's routing id from the metadata.                                *)
SessionsAgree ==
    /\ \A x \in Sides : seen[x] # Unknown => seen[x] = opts[Peer(x)].routing_id
    /\ pc["client"] = "done" /\ pc["server"] = "done" =>
        /\ hs["client"].session = hs["server"].session
        /\ hs["client"].session = "CURVE" => \A x \in Sides :
            /\ hs[x].peer_transient = Transient(Peer(x))
            /\ hs[x].recv_nonce < hs[Peer(x)].send_nonce

(* What both sides believe when the handshake is over is the same: the       *)
(* mechanism, the keys, who the other is.                                    *)
BothAgree == TypeOK /\ SameMechanism /\ SessionsAgree

(* No two boxes are made with the same keys and the same nonce: HELLO,       *)
(* INITIATE, READY and the messages of both directions share one counter per *)
(* side and one pair of keys (next_send_nonce, curve_nonce).                 *)
NonceUsedOnce == Cardinality(used) = made

(* Messages arrive once each and in the order they were sent, with or        *)
(* without a session.                                                        *)
MessagesInOrder ==
    \A x \in Sides :
        /\ Len(got[x]) <= sent[Peer(x)]
        /\ \A i \in 1..Len(got[x]) : got[x][i] = i

(* The traffic of a session: no nonce twice, no message twice, none out of   *)
(* order, although commands and messages share the counters.                 *)
TrafficSound == NonceUsedOnce /\ MessagesInOrder

(* A client that is entitled to the server gets through, both ways, unless a *)
(* read of it times out; with a GSSAPI library whose last token is the       *)
(* server's the client fails on its own empty token.                         *)
Completes ==
    (/\ Mechanism(opts["client"]) = Mechanism(opts["server"])
     /\ Entitled(opts["client"], opts["server"])
     /\ opts["client"].gssapi_rounds # 2
     /\ opts["client"].gssapi_plaintext = opts["server"].gssapi_plaintext)
    ~> \/ \A x \in Sides : Len(got[x]) = MaxMessages
       \/ pc["client"] = "timeout"
       \/ ~hs["client"].greeted /\ Mechanism(opts["client"]) # "NULL"
=============================================================================
