# A TLA+ verification project for libzmq-ru

libzmq-ru is a rewrite of libzmq in Rust: a core (`crates/libzmq-core`), a C ABI
facade over it (`crates/libzmq-ffi`), a thin native API (`crates/libzmq`), a
platform layer (`crates/libzmq-sys`) and a test harness. This directory holds
TLA+ models of the core and of the stateful part of the C ABI, the TLC configurations that check them on small
instances, and TLAPS proofs. All paths below are relative to `src/`, and unless
said otherwise to `crates/libzmq-core/src/`.

Run `tlc -workers 2 -config X.cfg M` for a model and `tlapm M.tla` for a proof
module; `PROJECT.json` lists the runs, the mutants that show that each property
can fail, the source lines behind each definition, the hazards and the findings.

## 1. Inventory

What runs concurrently. A socket belongs to one thread at a time
(`ZMQ_THREAD_SAFE` is 0), there are no I/O threads, and `recv` never blocks: it
returns `EAGAIN`. Sockets of different threads meet in the context's tables
(`inproc_endpoints`, `pending_inproc`), in the `InprocEndpoint` of a bound name
and in the inboxes (`MessageQueue`, a mutex around a deque) that peers push into
directly. Each is protected by a mutex of its own, and operations that need
several take them one after the other; what may happen in between is the main
subject of these models. Stream transports are driven from inside `send` and
`recv` of the socket that owns the stream.

| component | state | operations | interacts with | what is hard | what makes it correct |
|---|---|---|---|---|---|
| Subscription table (`context.rs` `SubscriptionState`) | counts per topic, list of topics, three caches | `insert`, `remove`, `matches_prefix_of`, `contains_exact` | SUB/XSUB/DISH sockets, delivery of publications | caches rebuilt on `remove` | cached match = prefix match; result = first/last subscription |
| Inproc registry (`ContextShared`, inproc branches of `Socket`) | bound names, waiting list per name, peer list per endpoint; per socket `connected_endpoint`, `direct_outbox`, `bound_endpoint` | `bind`, `unbind`, `connect`, `disconnect`, `disconnect_peer` | everything over inproc | two mutexes, released between the steps of `connect` and `disconnect` | no stolen names, ghosts, duplicates or forgotten waiters |
| XPUB/XSUB forwarding (`InprocEndpoint::replay_*`, `Socket::subscribe`...) | topic -> peers, manual topics, last peer, notifications in the inbox | subscribe, unsubscribe, raw frames, connect/bind replay, disconnect take-back, manual accept/revoke | subscription table, registry | decision and notification under different locks; bind racing subscribe | map exact; each edge told once, in order |
| REQ/REP (`PatternState`, `apply_*_routing_id`) | turn, last routing id, inboxes | send, recv, connect, disconnect | registry, inboxes | frames of several peers in one inbox; requester gone; relaxed resend | replies reach the requester; every request answered |
| PUSH/PULL, SCATTER/GATHER | peer list, `next_peer`, inboxes, sndhwm, conflate | send (fast and slow path), recv, events | registry, inboxes | pick per frame and per poll; shared queue at its mark | balance, marks kept, messages whole, progress |
| PUB/SUB, RADIO/DISH distribution | matching peers, several outboxes | send to many | subscription table | stop at the first full outbox after others got the message; `XPUB_NODROP` | all or none, no duplicate on retry |
| ROUTER, DEALER, SERVER, CLIENT, PEER, STREAM | routing ids, mandatory flag | routed send, `disconnect_peer`, `peer_state` | registry | id of a peer that left | a message reaches the addressed peer or is refused |
| Inproc lifecycle messages | probe, hello, welcome, disconnect messages | connect, bind, disconnect | registry, inboxes | sent only on one of two orders of bind and connect; partial failure of connect | sent once, first |
| Socket monitor (`socket.rs` 904-971, 3296-3514) | monitor socket, event mask | `monitor`, event emission | registry, transports | old monitor stopped before the new bind can fail | events delivered in order, replaced atomically |
| TCP and IPC streams (2008-2670, 3879-4393) | listener, stream, handshake flags, queued frames | accept/connect on demand, greeting, READY, frame I/O, reset | security, monitor | reset in mid-message; timeout; reconnect interval | no stale handshake state, no half message |
| WebSocket, ws and wss (2966-3294, 3700-3878) | listener, stream, role, handshake flag | bind, connect, accept on demand, HTTP upgrade, frames | kernel | flags kept apart from the stream; frames right behind the headers | reader expects what comes; frames once, in order |
| UDP (2671-2799) | socket, `last_peer`, `connected` | bind, connect, send, recv | network | a stale `last_peer`; a stranger before `connect` | answers go to who was heard |
| NORM (2800-2965, `libzmq-sys`) | instance, session, subscriptions | bind, connect, send, recv with at most 8 events | NORM library | order of destruction; EAGAIN with wanted objects behind | sessions die first; wanted data delivered |
| Security: PLAIN, CURVE, GSSAPI, ZAP (4413-5858, `security.rs`) | handshake state, keys, nonces, ZAP socket | handshake commands, ZAP request/reply | streams, inproc | late ZAP reply; order of commands; nonce counters | no message before the handshake ends; reply belongs to its request |
| Endpoint parsing, ZMTP codec, Z85 (`transport.rs`) | none | pure functions | streams | 32-bit accumulation, length boundaries | decode inverts encode |
| Pipe and mailbox (`pipe.rs`) | queue, hwm, conflate, delimiter | write, flush, read | nothing (not used by sockets) | flush boundary, delimiter beside the mark | refines a bounded queue |
| Message (`message.rs`) | payload, flags, routing id, group | constructors, copy | everything | shared payloads | see C ABI |
| Context (`context.rs`) | options, socket count, terminated flag | set/get, create socket, shutdown, terminate | sockets | limits | no socket after termination |
| Socket options (`socket.rs`) | option block | set/get | sockets | validation tables | range checks |
| C ABI (`libzmq-ffi`) | message headers and reference counts, timers, pollers | `zmq_msg_*`, `zmq_timers_*`, `zmq_poller_*`, `zmq_proxy` | core | free callback once; timers changed by handlers; poller list changed by close | each payload freed once; timer fires once per interval |
| Native API, platform layer, test harness | - | wrappers, system calls, oracles | - | - | - |

The hazards at their lines are in `PROJECT.json`.

## 2. Modules

| module | models |
|---|---|
| `SubscriptionState` | `SubscriptionState` of `context.rs` |
| `InprocRegistry` | `ContextShared`'s inproc tables and the sockets' references into them |
| `XpubNotify` | subscription forwarding from XSUB sockets to one XPUB |
| `ReqRep` | REQ sockets at one REP |
| `Pipeline` | PUSH sockets and PULL sockets |
| `TcpStream` | a server and a client over TCP or IPC, streams and NULL handshake |
| `Handshake` | one handshake with NULL, PLAIN, CURVE or GSSAPI, and the traffic after it |
| `ZapAuth` | ZAP requests of several handshakes at one handler |
| `Distribution` | PUB, XPUB and RADIO sending to many |
| `Routing` | ROUTER, SERVER and PEER answering by routing id; probe, hello and disconnect messages |
| `SocketOptions`, `SocketMonitor` | a socket's options and its monitor |
| `WebSocket`, `UdpDatagram`, `NormSession` | the transports other than the ZMTP streams |
| `ZmtpCodec` | ZMTP frames, metadata, Z85 |
| `PipeChannel`, `YPipe` | what a pipe promises, and the pipe of `pipe.rs`, which implements it |
| `FfiMessage`, `FfiTimers`, `FfiPoller` | `zmq_msg_*`, `zmq_timers_*`, `zmq_poll` and `zmq_poller_*` |
| `ContextLife` | a context's life, socket ids, defaults, thread name prefix |
| `MC...` | constants and symmetry for TLC; `MCFacade`, `MCSocketState` and `MCDelivery` each put several components into one run |
| `...Proofs` | theorems and proofs; `DeliveryProofs` is about `SubscriptionState` and the parts of `MCDelivery`, `ContextProofs` about `InprocRegistry` and the parts of `MCFacade`, `SocketStateProofs` about those of `MCSocketState` |

In a bundle (`MCFacade`, `MCSocketState`, `MCDelivery`) the components share nothing. A
behaviour is one of one component, which the variable `part` names from the initial
state on, while the others rest; a property says of which part it speaks, and is the
conjunction of the named invariants of the component's module, its `TypeOK` included.

**SubscriptionState.** One action per branch of `insert` (new, duplicate) and
`remove` (not the last, last, absent). Vectors whose order nothing observes are
sets; the bitmap `first_bytes` is the set of bytes whose entry is true.

**InprocRegistry.** An action is one critical section. `bind` is one action, since
it holds `inproc_endpoints` throughout and takes `pending_inproc` inside;
`connect` to a name that is not bound is `ConnectMissed` then `ConnectPend`;
`disconnect` is `DisconnectPeers` then `DisconnectPending` or
`DisconnectNothing`. The thread's place and locals are `pc`, `arg`, `removed`. A
peer list is a count per socket: nothing here depends on its order. An unbind drops
the last reference to the endpoint, so its peer list is emptied. `BindIncompatible` is the
bind that fails on a waiting socket after it has taken the list. `Exclusive` says
that applications connect a socket to one name, and bind it to one name, at a
time; the properties that need it say so.

**XpubNotify.** A subscription change goes through four critical sections: the
XSUB's own set (`Subscribe`, `Unsubscribe`), the lookup (`Lookup`), the topic map
(`Decide`) and the inbox (`Push`). `connect`, `disconnect` and `bind` replay or take
back all topics of a peer with `inproc_endpoints` held (`mutex`), one `Decide` and
`Push` per topic. The XSUB's set is its count per topic (what `SubscriptionState`
is proved to be). The `setup` variable, chosen in `Init` for good, holds who takes part,
the policy (`XpubSubscriptionPolicyState`) and whether sockets connect only after the bind.

**ReqRep.** `send` and `recv` each touch one queue under its mutex and are one
action; calls that return `EAGAIN` or `EFSM` change nothing and have none. Frames
carry the tag of their request and replies the tags of the requests whose frames
the REP read for it: history for the properties, not state of the program.

**Pipeline.** `Send` covers the fast path (`try_send_inproc_fast`: no mark) and the
slow path (mark and conflate under the queue's mutex); which of them runs depends
on whether an option was set (`setup.tuned`). `SendAgain` is `EAGAIN` from a full queue,
which has advanced `next_peer` already; `Poll` is `ZMQ_EVENTS`. The `setup` variable
(who takes part, who binds, options, habits of the applications) is chosen in
`Init` and never changes, so that one run covers several situations.

**TcpStream.** Each socket has a thread of its own, and a call is a chain of steps:
`ensure_tcp_stream` (`Call`, `Reconnect`, `AcceptTcp`, `AcceptIpc`), the pieces of the
greeting and READY that `write_zmtp_handshake_tcp` writes and reads, what `recv` reads of
them later, and the hello message and the frames. What is on the wire is a sequence of
pieces per direction; each is written by one `write_all`. `RecvFails` is the end of
`recv` in which `tcp_disconnect_message_or_error` drops the stream or keeps it. The IPC
functions are the same code for another stream type and share the actions; where
they differ (no reconnect, flags reset on accept, `hello_sent` kept on disconnect, the same
address bound twice) the setup's `ipc` says which. There are several endpoints: `bind` on a bound
socket and `connect` on a connected one are allowed, as in the code, for the sockets in
`setup.again`. The first replaces the listener and resets the flags but keeps the stream; `rebound` remembers that
this has happened to a stream in use, and a thread that then meets a second greeting in place of a frame
goes no further (`Lost`). The second replaces the stream. The kernel (`Dial`, `Close`, `Exchange`) is modelled from its
use. Assumed: a thread within a call makes its next step in less than the second a
read waits, so a read times out only if the other side is not in a call or waits
too; buffers do not fill. The mechanism is NULL, and there is no probe.

**Handshake.** One attempt over one stream, from the greeting to a few messages each
way. Every pair of option blocks is an initial state, so mechanisms that do not fit
each other meet too: the mechanism in the greeting is read and not compared, and only the
commands can tell. A frame is a record of command, format and body; parsing is the
test of these. A key pair is its name and a box opens with the same two key pairs and
nonce; `used` and `made` count boxes, to see a nonce twice. The ZAP verdict is an option of the
server here; how it is obtained is `ZapAuth`. Any read with a timeout may
time out. In the build without the `gssapi` feature the INITIATE command names the principal instead of
carrying a token (`gssapi_rounds = 0`).

**ZapAuth.** The server's thread connects a transient REQ peer to the handler's name,
pushes its request, waits at most a second and disconnects, each one critical section. The
handler binds and unbinds, answers late, malformed or not at all.

**Distribution.** The publisher's loop is one action per peer. A bound PUB pushes while it
holds the peer list (`PubTurn`), the others collect under it (`Look`) and push after
it, so subscribers leave, join and unsubscribe in between. `EAGAIN` ends the
call in mid-list, and the application repeats the message or gives it up.
`times` is history: how often each subscriber was given the present message.

**Routing.** One name that is bound, unbound and bound again. A connector stamps its message
with an id in one look-up of the binder and finds the inbox in another. `link` is
what a connected socket remembers (`connected_endpoint`, `direct_outbox`, which
survive an unbind of the other side); `promise` is what `peer_state` said last.

**SocketOptions.** The tables of `set_option_int` and `get_option_int` as functions of the
option's name, with limits, normalisation and what a set writes outside of the option block. A
byte string is its length and the NULs at its end, which a get adds and a set keeps.

**SocketMonitor.** Stop, bind and store are separate steps of `monitor`, each under a lock of its
own; the first peer of the name is looked up in one step, and an event's frames are pushed to its inbox
in another, with the inbox locked throughout. A frame knows its event, version and place in it.

**WebSocket, UdpDatagram, NormSession.** Each has the socket's fields as one
record per socket and the outside as buffers. WebSocket: the kernel's buffers hold each
write whole; ws sends its request with connect, wss with the first call. UDP: the network
loses, repeats and reorders; `connect_udp` opens the kernel socket first and
connects it later. NORM: assigning a new value to a field drops the old one, so the order of the assignments is
the order of the library calls; `recv_norm_data` looks at `MaxTurns` events (8 in
the code) and takes the subscription lock anew for each.

**ZmtpCodec.** Bytes have 8 values, long lengths 2 bytes, a Z85 chunk is 2 bytes of 4
values in 3 digits to the base 3: as in the real formats there are more digit strings than
chunks, and the longest short frame is one less than a byte's values. Each behaviour
writes a few items and reads them back in pieces. A name is text as in UTF-8, with characters of one and two
bytes: the encoder cuts names by bytes, and the decoder refuses one that is cut within a character.

**YPipe and PipeChannel.** `PipeChannel` is what a reader may rely on: every item whose write succeeded
before the end comes out, in order, unless a newer one superseded it while the pipe was conflating or
somebody gave the pipe up, and then the end. Its variables `wrote` and `took` flip with every write and read, so that an
implementation cannot pass off a lost write as a step in which nothing happened. `YPipe`
has the deque, the conflate switch, the in-band delimiter that ignores the mark, and
`terminate`. The mapping takes the items before the delimiter as the channel's
contents, and delimiter and `terminated` as its end.

**FfiMessage, FfiTimers, FfiPoller.** `zmq_msg_t` slots point to core messages, which own
their bytes or share a counted buffer; moves onto oneself and overwritten destinations
leak, as in the code, and are counted. Timers keep time relative to the present, in
ticks finer than a millisecond; the walk of `zmq_timers_execute` is one step per timer, and handlers
may do within it whatever an application may, since the functions work on a raw pointer: add, change and destroy
timers and walk over them themselves (`walks` is the stack of walks). A timer that is added finds room in the `Vec` or
makes it move, and `destroy` frees it: a walk that is under way then goes on in freed memory when its handler returns,
where the model stops (`Undefined`). A poller's wait locks, asks one entry after the other, and sleeps
unlocked, while other threads add and remove entries and messages arrive.

**ContextLife.** `Context::socket` checks the state, draws an id and copies the
defaults in separate steps. The thread name prefix is text that can be set and read as a number: `atoi_i32`
saturates, so the smallest integer reads back one larger, and a text of the size of a `c_int` is set as a number; integers have 5 bits here.

Not part of the models: error codes of calls that change nothing, poisoned
mutexes, memory exhaustion.

## 3. Runs

Passing runs:

| run | instance | shows |
|---|---|---|
| `subscription_table` | 2 bytes, topics up to 2 bytes (the empty one too), counts up to 2 | `TableExact` (`CachesAgree` and `MatchIsPrefixMatch`), `ResultReportsEdge`: no sequence of subscribes and unsubscribes leaves a stale cache, so delivery is exactly prefix match |
| `registry` | 2 SERVERs, 1 CLIENT, 2 names, 3 binds | `OwnsBoundName`, `NoGhostPeer`, `ListedOnce`, `WaitingIsServed` under all interleavings of the critical sections |
| `xpub_topics` | 4 setups: 2 XSUBs and 2 topics after the bind; 2 XSUBs that race with it, everything verbose and manual; 1 XSUB after the bind; 1 XSUB that races with it. Counts to 2, calls start while there are fewer than 3 or 5 notifications | the topic map is exact (`TopicMapExact`: nothing lost, no ghosts), every change between "somebody" and "nobody" is told exactly once (`EdgesToldOnce`), and what a single XSUB subscribes to the application knows, even when it raced with the bind; if it connects after the bind the application believes nothing else (`HeardFromOne`) |
| `req_rep` | 2 strict REQs, messages of up to 2 frames, mark 2, sockets that leave and return | `OneOutstanding`, `LatestAnswered`, `TracedBack`, and under fairness `EveryRequestAnswered` once all sockets stay |
| `pipeline` | 5 setups: 3 PULLs that come and go; a stalled PULL; conflate; 2 PUSHes at one PULL; 3-frame messages with polling and disconnects | `PlainlyBalanced`, `BelowHwm`, `WholeBetweenTwo`, and under fairness `SendGetsThrough` |
| `tcp_stream` | 8 setups over TCP and IPC: sockets that stay and send 2 messages each; sockets that unbind, bind, disconnect and connect, one with a hello and a disconnect message; a server that binds while bound and a client that connects while connected, with 2 endpoints. 2 connections at a time | `HandshakeOfItsStream` (no handshake flag outlives its stream, a live stream is greeted once), `Aligned` (nobody misreads a live connection), `InOrder` (hello first), all three until a bind meets a stream in use, and under fairness `Delivered` |
| `handshake` | 14 client and 14 server option blocks, all pairs, right, wrong and missing credentials, ZAP verdicts, GSSAPI exchanges of 0 to 3 tokens; 2 messages each way | `OnlyEntitled`, `BothAgree` (mechanism, session keys, identities), `TrafficSound` (no nonce twice, messages once and in order), and under fairness `Completes` |
| `facade` | 2 messages, 1 buffer, queue of 2, 1 leak; 2 timers, intervals to 1 ms, 2 ticks per ms, 2 ticks late, 2 walks within each other; 2 threads, 2 sockets, 1 descriptor at a poller; 2 threads at a context, 3 ids; 5 prefixes | `BuffersFreedInTime`, `TimersPunctual`, `PollerReportsTruly`, `SocketsMadeRight`, and `PrefixKept`: the thread name prefix reads back as it was set, but for the smallest number |
| `socket_state` | 9 int options at values below, at and above their limits, 4 byte options, 2 changed at a time; 2 monitor names, 2 listeners, 2 monitors; pipe with mark 2; ws and wss with 2 sockets, 2 connections, 2 frames in flight; 2 UDP sockets, 3 ports, 1 datagram in flight; 2 NORM topics, 3 objects, 2 events per call; frames of 0, 1, 7, 8 and 9 bytes, names that fit, that are cut and that are cut within a character, 2 at a time | `OptionsConsistent`, `MonitorConsistent`, `WebStreamSound`, `DatagramsAddressed`, `NormSound`, `ReadsBack`, and `ImplementsChannel`: the pipe refines the channel |
| `delivery` | ZAP: 2 servers, 2 tries each; distribution: PUB, XPUB with and without NODROP, RADIO, conflate, 2 subscribers, a topic and a longer one it is a prefix of, mark 1, 2 messages; routing: a ROUTER with probing DEALERs, a SERVER with CLIENTs, 2 connectors, 2 binds, mark 1 | `VerdictsAreOwn`, `DistributedRight`, `RoutedRight` |

The properties of the last three runs are conjunctions; their parts, named in the
component's module with a comment each, are the statements to read.

Violations, each a disagreement between the code and a document or test of the
repository (quoted in `PROJECT.json` under `findings`):

| run | property | what happens |
|---|---|---|
| `registry_race` | `NobodyWaitsForABoundName` | `connect` looks up the name and releases `inproc_endpoints`; the bind runs; `connect` then enters the waiting list, where nobody looks any more |
| `tcp_restart` | `ComesBack` | the server unbinds and binds again; the client's calls fail on the dead stream, which it keeps, so it never reconnects |

More disagreements appear when a configuration is changed. Three have their property in
the modules:

* `ReplyToRequester` of `ReqRep` with `MaxParts = 2`: frames of two multipart requests interleave
  in the REP's inbox and get one reply.
* `RepReceivesAgain` of `ReqRep` with `Leaves = TRUE` and `FairSpec`: the requester disconnects
  before the reply; the REP's `send` returns `EAGAIN` and its `recv` `EFSM` from then on.
* `MessagesWhole` of `Pipeline` with `Setups <- TwoFrames`: `next_peer` is asked per frame, so
  two PULLs get one frame each of a message.

Six more appear when a guard of a property is taken away.
With `Setups <- Crossing` and `HeardFromOne` without its guard on the number of XSUBs, one XSUB's last
unsubscribe is decided, the other's first subscribe is decided and pushed, then the unsubscribe is pushed: the application
believes that nobody subscribes. With `HandshakeOfItsStream` without `~rebound`, a server that binds a second endpoint
while it has a stream forgets that stream's handshake and greets its peer again, who takes the greeting for a frame.
With `Relaxed = TRUE` and `LatestAnswered` without its guard, a REQ takes the late
reply to a replaced request for an answer to the new one (`ZMQ_REQ_CORRELATE` is
never read). With `tuned = FALSE` and `BelowHwm` without its guard, a PUSH whose
mark was never set is not bounded by the default. With `bindFirst = FALSE` and
`EdgesToldOnce` without its guard, a subscribe that races with the bind is notified
twice. With `polls = TRUE` and `PlainlyBalanced` without its guard, a PUSH that asks for
`ZMQ_EVENTS` before each send feeds only one of two PULLs, because `events` advances
`next_peer` too.

**Why the bounds are enough.** Two sockets of a kind suffice for each race here:
the critical sections of one are interleaved with those of another, and every list
is treated element by element; three PULLs are there because a round robin of two
cannot show a skipped peer. Counts of 2 reach both the first/last and the repeated
case of every branch. Queues of 2 or 3 reach empty, partly filled and full, also in
mid-message. Cyclic tags (`Tags`) suffice because a tag is compared only with
messages at most one behind. `Wrap` is a multiple of every number of peers, so the
cyclic counter behaves like the unbounded one. `maxNotes` stops new calls, never a
call that has begun, so every call is checked to its end. Two connections let a new
one wait in the backlog while an end still holds the old one.
A mark of 1 makes every queue empty or full, which is where `EAGAIN` splits
a publication. Two turns of the NORM loop reach "the last turn" and "not the last".
Reduced bytes keep every boundary of the formats: lengths just below, at and above what a short frame can say,
and a base whose powers exceed the chunk.

**Deadlock** is checked in every run but `handshake`, `socket_state` and `delivery`: there
the behaviour ends with the handshake, or when the counters of the bound (messages, binds,
calls) are used up. In the others some call is always possible.

**Fairness.** Only `req_rep`, `pipeline`, `handshake` and the two `tcp` runs assume any: weak
fairness of single calls that never block (a mutex is held for a bounded number of
steps). It says that applications go on calling: a REP goes on receiving and
answering, a REQ goes on receiving, a PUSH goes on retrying, PULLs connect, and the
*diligent* PULLs go on receiving. No fairness is assumed for the start of a request,
for a disconnect or its absence (`EveryRequestAnswered` is conditional on the
sockets staying in the end), or among PUSH sockets that compete for one queue,
where `SendGetsThrough` promises only that one of them gets through. The `tcp` runs
assume that a thread goes on with the call it is in, that both applications go on
receiving, and that the backoff of 100 ms ends. `handshake` assumes that each side's thread goes
on with the call it is in; a read may still time out, and `Completes` says so.

## 4. Proofs

All theorems hold for every value of the constants that the modules' named
assumptions allow: any number of sockets, names, topics, bytes and any bounds.

* `DeliveryProofs`. The subscription table: `IInv == TypeOK /\ CachesAgree` is inductive. `CachesAgree`
  fixes each cache as a function of the counts; `MatchIsPrefixMatch` then follows
  without induction, since a topic that is a prefix of the message is the cut of the
  message at one of the stored lengths. `ResultReportsEdge` is the action property.
  The theorems on ZAP, distribution and routing are about `DeliverySpec`, which the run `delivery` checks.
  ZAP (`ZapInv`): `VerdictIsOwn` is not inductive, since an answer may come late. Every try of every server has an
  id of its own; a request is with the handler at most once, before its verdict, and its sender is
  listed or has given up (`OpenOnce`); the reply queue of a request holds the verdict on it and nothing else
  (`RepliesAreVerdicts`); a peer left behind is one whose request was never pushed (`LeftBehindUnasked`).
  Distribution (`DistInv`): peers and what is left to do hold nobody twice, and nobody already resolved is
  looked at again (`ListsSound`); who stayed and was interested all through the call was reached or is going to be,
  and who is going to be reached was interested at some time in the call and has not been reached in it (`WitnessSound`, `OnTheWay`);
  no inbox holds a message that was not sent yet (`Sent`).
  Routing (`RouteInv`, `TellInv`): a message carries the id of its sender or none; a connector whose name
  has been bound all the time finds it bound at both looks, so a stamp made since the connect is its own; one that has
  gone keeps no outbox. For the rest, the lists hold connected sockets only, nobody is listed
  without an endpoint, and a binder with a disconnect message lists whomever it has met: a leaving peer is thus always found by
  `remove_peer` and told. Assumed: the bounds and marks are numbers, there is a topic,
  and `NoBinder` is nobody. That a disconnect keeps all other peers in the list is a counting argument (`Removed`): the places that `retain`
  keeps are enumerated in order, and an injection into a set of the same finite size misses none.
* `ContextProofs`. The registry: `IInv` is `TypeOK`, `NamesAgree`, `OwnsBoundName`,
  `PeersCompatible`, `CallsAgree`, `NoGhostPeer` and `ListedOnce`. `NoGhostPeer` and
  `ListedOnce` are not inductive alone: a thread between two critical sections needs
  `CallsAgree`: a pending connect is of a socket that is not connected, and a
  disconnect that found an entry in the peer list leaves none in either list until
  it returns. That last part is what a bind between the two sections could break.
  `WaitingAlwaysServed` is the action property `WaitingIsServed`, from the same invariant.
  The theorems on the C ABI and the context are about `FacadeSpec`, which the run `facade` checks.
  Messages (`MsgInv`): the reference count of a buffer is the number of the `zmq_msg_t` that
  point to it and of the references leaked by a move or copy onto an open message; its free function has run exactly when it was given away and
  the count is 0. Counting over any finite number of messages is what the lemmas on cardinalities are for.
  Timers (`TimerInv`): what a timer still has to wait and the ticks gone by make up what it was owed; for each walk of the
  stack, nothing that was due when it read its clock is left behind it, whatever handlers did to the timers meanwhile, and a
  walk that was begun later has read a later clock; the sleeper's timeout is at most what is left of each active timer.
  Pollers (`PollInv`): `zmq_poller_wait_all` holds the lock while it looks, so what it looks at are the entries as they are;
  nothing is registered twice; what a look has passed and not reported was not ready or became ready meanwhile.
  The context (`CtxInv`): ids handed out, taken and in calls are below `next_socket_id` and different; once the context has
  ended its state is never running again, so a late call stops at `ensure_running`; the defaults of a call are among those seen since it began.
  Assumed: finitely many messages, bounds that are numbers, a clock with at least one tick per millisecond, and no
  thread named like the absent lock holder.
* `XpubNotifyProofs`. `TopicMapExact` speaks of settled sockets only, so `IInv` says what
  holds in mid-call: a subscription is in the topic map or in the `todo` of a thread that
  will put it there (`Arrives`), an entry is subscribed to or about to be taken out
  (`Leaves`), and nobody but the socket's own thread, or a bind that holds the mutex, works on
  a socket's entries (`Threads`, `Replays`, `Binding`, `Listed`). `EdgesToldOnce` counts
  notifications; a `Decide` puts one on its way exactly when the set of a topic becomes
  empty or stops being so, and a `Push` moves it into the inbox without changing the count.
  `HeardFromOne` adds `HeardInv`: whoever is about to push a notification pushes what the map says,
  since with one XSUB only one thread at a time is between the two steps; `TopicMapExact` then turns what the
  map says into what the peer subscribes to.
* `ReqRepProofs`. `QueuesBounded` is type correctness with the high-water marks.
  `RepliesTracedBack` rests on `AskerInv`: frames carry their sender, and a REP whose
  turn it is to send has read a frame of the socket it will reply to.
  `SinglePartTraceback` adds, when messages are single frames, that it has read
  nothing else; `ReplyToRequester`, which fails with two frames, shows that the restriction is needed.
  For strict sockets `StrictInv` adds `OneOutstanding`, inductive by itself once the effect
  of appending to and taking from a queue on the number of last frames is a lemma
  (`CountAppend`, `CountTail`), and for `LatestAnswered` that the request under way and
  every frame of its reply are about the latest tag (`LatestOf`) and that nothing comes after
  a last frame (`NothingLeft`). The latter two need `OneOutstanding`: a new request is sent
  only when nothing of the old one is anywhere.
* `PipelineProofs`. `IInv` is `TypeOK`, the mark and the peer list (nobody twice);
  `BelowHwm` follows. `WholeBetweenTwo` needs that the count of frames a PUSH keeps agrees with the
  last frame on the way (`WholeInv`). `PlainlyBalanced` needs to know who has been served:
  in each round the peers that had their turn are the ones just before the peer
  `next_peer` picks (`BalanceInv`), which is arithmetic modulo the length of the list.
* `TcpStreamProofs`. What an end writes to a connection is a fixed sequence (two pieces of the
  greeting, READY, the messages, a hello first): `UnitOf`. How many units an end has written
  and read is known from its flags, its place in the call and its counters (`Written`,
  `Taken`), and `StreamOK` says that the wire holds the units in between. With where a thread can be
  (`ThreadOK`), what it has counted (`CountOK`), which ends exist (`Streams`, `Ends`) and what
  was greeted (`GreetOK`, `ReadyOK`, `FlagOK`) this is inductive as long as no bind has met a stream in use:
`~rebound => IInv` is what is preserved, and `rebound` stays once it is true. `Aligned` and `InOrder` read off
  the position; `HandshakeOfItsStream` is `FlagOK` and `GreetOK`. No bound on
  connections or messages is used, and every setup is covered, IPC included.
* `HandshakeProofs`. Assumed of the configurations: each pair is two records of
  `SecurityOptions`, and two ends that both use a GSSAPI library exchange the same number of tokens
  (`HandshakeAssumption`). The options of both sides fix what a side writes, however far it
  gets: `FrameOf(o, x, k)` is frame number `k` of side `x`. The inductive invariant `IInv` says that there are
  numbers of frames read (`n`) and written (`m`) such that the wire holds the frames in
  between (`Streams`), that each side's place, session and nonces are those of its numbers
  (`Place`), that a box was made for a frame already written (`Boxes`), and what a side that got so
  far has made sure of (`Learnt`: after its first command a server knows the client's mechanism
  and credentials or keys, with READY that it is entitled). The numbers are quantified instead of computed
  from the place because a refused or timed-out side may have stopped anywhere. `OnlyEntitled` and
  `SameMechanism` are in `Learnt`; the nonces of a session are the numbers of its messages, from which the rest
  of `BothAgree` and `TrafficSound` follow.
* `SocketStateProofs`. The parts of `MCSocketState` share no variable, so each has an inductive invariant
  of its own, and the theorems are about `AllSpec`, which the run `socket_state` checks too.
  The pipe: `IInv` is `TypeOK`, `DelimiterIsLast` and `WithinHwm`. The delimiter ignores the
  mark, so the mark holds for items only; that suffices because only an open pipe takes
  the delimiter, and a pipe with one is not open. `PipeImplementsChannel` is the refinement
  `Spec => ImplementsChannel`: each write, read, switch to conflate, delimiter and `terminate` is a step
  of `PipeChannel` or leaves its variables alone. `DelimiterIsLast` is what makes the
  mapping work: what the reader still gets is what is before the delimiter. Each step of the pipe is a named
  step of the channel with the same effect on `wrote` and `took`.
  UDP (`UdpInv`): a bound socket has no endpoint and its `last_peer` is whom it heard; one that is
  neither bound nor closed has an endpoint; so every datagram sent is meant for where it goes.
  NORM (`NormInv`): between calls session and instance have one number, between the two assignments of
  a call the new session is not of the instance to be dropped next (`SideSound`); what the application got is of
  the objects taken, in order, and nothing as long as there is no session (`ObjectsSound`).
  The monitor (`MonitorInv`): while a name is being bound no monitor runs; the names bound for a monitor are
  those of the running one; a monitor may ask for statistics only in version 2; and every inbox is a run of whole events
  whose first may be partly read (`Whole`), which a push keeps because it appends all frames of one event (`FramesAreWhole`).
  The options (`OptionsInv`): every value kept is one that is accepted and kept again
  (`StoredIsKept`, `DefaultIsKept`), whatever the type of the socket; flags are 0 or 1.
  WebSocket (`WebInv`): `StreamAligned` alone is not inductive, since what comes depends on how far the other end is.
  Each end of a connection has at most one owner, a socket or a backlog (`Unique`); a buffer holds
  at most one handshake unit, of its connection, and then frames in order (`Buffer`), all that was sent while both ends
  are open (`Traffic`); a server's end that has not read the request has written nothing, a client's end that has not
  written it neither (`ServerSide`, `ClientSide`); and while both ends have owners, the server is not done before the
  client has asked, nor the client before the server, and what one has written the other finds (`Pair`). That a frame
  sent ahead of the response is not taken for the request is the last part. `WebStreamAlwaysSound` adds the action
  property `OneStreamPerBind`.
  Assumed: `NoPort` is no port, the receive loop has at least one turn, the bounds are numbers, and the
  options tried are ones the code knows.

Only model-checked: the liveness properties, outside the prover's reach (`EveryRequestAnswered`,
`SendGetsThrough`, `Delivered`, `Completes`), and `ReadsBack` and `PrefixKept`, statements about encodings
(frames, metadata, Z85, decimal numbers) which need induction over data. Every other property of a passing run is proved.

## 5. Plan

Done, in this order: subscription table, registry, forwarding, REQ/REP, pipeline, stream
transports; then handshakes and ZAP, distribution, routing, the C ABI, options, monitor, the
other transports, formats, the pipe and its refinement, the context. Next:

1. `TcpStream` extended: raw STREAM sockets, multipart, a third peer, threads that are delayed by
   more than the read timeout (a greeting read in pieces).
2. The manual mode of XPUB with several peers: which peer `lastPeer` names when the
   application accepts a topic it read earlier.
3. Endpoint strings, the proxy, RADIO/DISH over UDP.

Refinements worth stating and proving next: `XpubNotify`'s topic map
implements the union of the peers' subscription sets; `Pipeline` implements a bag
of messages.

## 6. Not modelled

* Endpoint parsing (pure functions on strings: the models take endpoints as parsed), the
  marshalling of arguments of the C ABI and the native API, options that are only stored and given back.
* Cryptographic primitives, TLS and the GSSAPI and NORM libraries: external, modelled by their use.
* `libzmq-sys` apart from the NORM sessions: system calls and bindings. The mailbox of `pipe.rs`, a
  `VecDeque` with push and pop, which no socket uses.
* `zmq_proxy`, threads, atomic counters and stopwatches of the C ABI: they keep no state between two calls
  that others see, or are one atomic operation.
* The test harness and the benchmarks.
* Parts of modelled components: XPUB/XSUB forwarding leaves out unbind, the welcome
  message, multipart raw commands and `ZMQ_ONLY_FIRST_SUBSCRIBE`; the streams leave out
  raw STREAM sockets, the probe, multipart messages and a third peer; `Routing` has one binder at a
  time and no identities set by the application; UDP leaves out multicast.

Hazards known and not covered by a property, beyond those listed in `PROJECT.json`: `unsubscribe` takes the
options under `inproc` and `ZMQ_EVENTS` in the opposite order (a cycle needs one socket in two
threads, which `ZMQ_THREAD_SAFE = 0` forbids); `connect` fails with `EAGAIN` on an undeliverable
probe and leaves the socket registered; with a disconnect or hiccup message a mere read timeout drops
the stream; `zmq_close` leaves the socket's names bound, since `Socket` has no `Drop`; `zmq_sendiov` and
`zmq_proxy` lose or repeat parts when one of several sends fails.
