--------------------------- MODULE SocketOptions ----------------------------
(***************************************************************************)
(* Socket options (libzmq-core/src/socket.rs, set_option_* and             *)
(* get_option_*; zmq_setsockopt and zmq_getsockopt): which values each     *)
(* option takes, how a value is kept, and the cells outside of the options *)
(* that a set writes too: the fast path switch, the subscription policy    *)
(* XPUB peers are served with and the message sent for a lost peer.        *)
(* A byte string is its length and the NULs at its end.                    *)
(***************************************************************************)
EXTENDS Integers, FiniteSets

CONSTANTS
    Tried,       \* int options the application sets
    TriedBytes,  \* byte string options it sets
    IntValues,   \* values it tries
    Lengths,     \* lengths of the strings it tries
    MaxNuls,     \* bound: NULs at the end of a string
    MaxChanged   \* bound: options that differ from their default

VARIABLES
    stype,      \* the socket's type, "none" before zmq_socket
    opt,        \* int options
    blob,       \* byte string options
    fast,       \* inproc_fast_send_enabled
    policy,     \* xpub_subscription_policy
    lifecycle   \* inproc_disconnect_msg

ovars == <<stype, opt, blob, fast, policy, lifecycle>>

FromMinusOne == {"LINGER", "SNDBUF", "RCVBUF", "RECONNECT_IVL", "TCP_KEEPALIVE_CNT",
                 "TCP_KEEPALIVE_IDLE", "TCP_KEEPALIVE_INTVL", "USE_FD", "SNDTIMEO", "RCVTIMEO"}
FromZero == {"SNDHWM", "RCVHWM", "RECOVERY_IVL", "RECONNECT_IVL_MAX", "BACKLOG", "PRIORITY",
             "TOS", "CONNECT_TIMEOUT", "TCP_MAXRT", "HANDSHAKE_IVL", "HEARTBEAT_IVL",
             "HEARTBEAT_TIMEOUT"}
FromOne == {"RATE", "IN_BATCH_SIZE", "OUT_BATCH_SIZE", "MULTICAST_HOPS", "MULTICAST_MAXTPDU",
            "NORM_BUFFER_SIZE", "NORM_SEGMENT_SIZE"}
AnyInt == {"RECONNECT_STOP", "BUSY_POLL"}
ZeroOrOne == {"IPV6", "IMMEDIATE", "STREAM_NOTIFY"}
(* Any number is a truth value ... *)
Flag == {"MULTICAST_LOOP", "INVERT_MATCHING", "LOOPBACK_FASTPATH", "CONFLATE",
         "ROUTER_MANDATORY", "ROUTER_HANDOVER", "REQ_CORRELATE", "REQ_RELAXED", "XPUB_VERBOSE",
         "XPUB_VERBOSER", "XPUB_NODROP", "XPUB_MANUAL", "XSUB_VERBOSE_UNSUBSCRIBE",
         "NORM_UNICAST_NACK", "NORM_PUSH", "PLAIN_SERVER", "CURVE_SERVER", "GSSAPI_SERVER",
         "GSSAPI_PLAINTEXT", "ZAP_ENFORCE_DOMAIN"}
(* ... or any that is not negative. *)
NaturalFlag == {"PROBE_ROUTER", "ROUTER_RAW", "XPUB_MANUAL_LAST_VALUE", "ONLY_FIRST_SUBSCRIBE"}
Parity == {"NORM_NUM_PARITY", "NORM_NUM_AUTOPARITY"}
Nametype == {"GSSAPI_PRINCIPAL_NAMETYPE", "GSSAPI_SERVICE_PRINCIPAL_NAMETYPE"}

IntOptions == FromMinusOne \cup FromZero \cup FromOne \cup AnyInt \cup ZeroOrOne \cup Flag
                \cup NaturalFlag \cup Parity \cup Nametype
                \cup {"TCP_KEEPALIVE", "HEARTBEAT_TTL", "NORM_MODE", "NORM_BLOCK_SIZE"}

(* Options only sockets of some types have. *)
HasOption(o) ==
    CASE o = "PROBE_ROUTER" -> stype \in {"DEALER", "ROUTER"}
      [] o = "ROUTER_RAW" -> stype = "ROUTER"
      [] o = "STREAM_NOTIFY" -> stype = "STREAM"
      [] o = "XPUB_MANUAL_LAST_VALUE" -> stype = "XPUB"
      [] o = "ONLY_FIRST_SUBSCRIBE" -> stype \in {"XPUB", "XSUB"}
      [] o = "XSUB_VERBOSE_UNSUBSCRIBE" -> stype = "XSUB"
      [] OTHER -> TRUE

Accepts(o, v) ==
    /\ HasOption(o)
    /\ \/ o \in FromMinusOne /\ v >= -1
       \/ o \in FromZero \cup NaturalFlag /\ v >= 0
       \/ o \in FromOne /\ v >= 1
       \/ o \in AnyInt \cup Flag
       \/ o \in ZeroOrOne /\ v \in 0..1
       \/ o = "TCP_KEEPALIVE" /\ v \in -1..1
       \/ o = "HEARTBEAT_TTL" /\ v >= 0 /\ v \div 100 <= 65535
       \/ o = "NORM_MODE" /\ v \in 0..4
       \/ o = "NORM_BLOCK_SIZE" /\ v \in 1..255
       \/ o \in Parity /\ v \in 0..254
       \/ o \in Nametype /\ v \in 0..2

(* ZMQ_HEARTBEAT_TTL goes over the wire in tenths of a second. *)
Stored(o, v) ==
    IF o \in Flag \cup NaturalFlag THEN (IF v = 0 THEN 0 ELSE 1)
    ELSE IF o = "HEARTBEAT_TTL" THEN (v \div 100) * 100
    ELSE v

Default(o) ==
    CASE o \in (FromMinusOne \ {"RECONNECT_IVL"}) \cup {"TCP_KEEPALIVE", "HEARTBEAT_TIMEOUT"} -> -1
      [] o \in {"SNDHWM", "RCVHWM"} -> 1000
      [] o \in {"RATE", "RECONNECT_IVL", "BACKLOG"} -> 100
      [] o = "RECOVERY_IVL" -> 10000
      [] o \in {"IN_BATCH_SIZE", "OUT_BATCH_SIZE"} -> 8192
      [] o \in {"MULTICAST_HOPS", "MULTICAST_LOOP", "STREAM_NOTIFY"} -> 1
      [] o = "MULTICAST_MAXTPDU" -> 1500
      [] o = "HANDSHAKE_IVL" -> 30000
      [] o = "NORM_MODE" -> 1
      [] o = "NORM_BUFFER_SIZE" -> 2048
      [] o = "NORM_SEGMENT_SIZE" -> 1400
      [] o = "NORM_BLOCK_SIZE" -> 16
      [] o = "NORM_NUM_PARITY" -> 4
      [] OTHER -> 0

NoPolicy == [verbose_subscribe |-> FALSE, verbose_unsubscribe |-> FALSE,
             manual |-> FALSE, manual_last_value |-> FALSE]
NoBytes == [len |-> 0, nuls |-> 0]

Init ==
    /\ stype = "none"
    /\ opt = [o \in Tried |-> Default(o)]
    /\ blob = [o \in TriedBytes |-> NoBytes]
    /\ fast = TRUE
    /\ policy = NoPolicy
    /\ lifecycle = NoBytes

(* Socket::new: the context decides about lingering and IPv6. *)
Open(type) ==
    /\ stype = "none"
    /\ stype' = type
    /\ \E blocky, ipv6 \in BOOLEAN :
        opt' = [o \in Tried |-> CASE o = "LINGER" -> IF blocky THEN -1 ELSE 0
                                  [] o = "IPV6" -> IF ipv6 THEN 1 ELSE 0
                                  [] OTHER -> opt[o]]
    /\ UNCHANGED <<blob, fast, policy, lifecycle>>

Changed == {o \in Tried : opt[o] # Default(o)} \cup {o \in TriedBytes : blob[o] # NoBytes}
MayChange(o) == o \in Changed \/ Cardinality(Changed) < MaxChanged

-----------------------------------------------------------------------------
(* What the XPUB options do to the policy the peers' subscriptions meet. *)
PolicyLeavesLastValue(o, on) ==   \* mutant: ZMQ_XPUB_MANUAL leaves the other flag
    CASE o = "XPUB_MANUAL" -> [policy EXCEPT !.manual = on]
      [] o = "XPUB_MANUAL_LAST_VALUE" -> [policy EXCEPT !.manual = on, !.manual_last_value = on]
      [] OTHER -> policy

PolicyAfter(o, on) ==
    CASE o = "XPUB_VERBOSE" ->
            [policy EXCEPT !.verbose_subscribe = on, !.verbose_unsubscribe = FALSE]
      [] o = "XPUB_VERBOSER" ->
            [policy EXCEPT !.verbose_subscribe = on, !.verbose_unsubscribe = on]
      [] o = "XPUB_MANUAL" -> [policy EXCEPT !.manual = on, !.manual_last_value = FALSE]
      [] o = "XPUB_MANUAL_LAST_VALUE" ->
            [policy EXCEPT !.manual = on, !.manual_last_value = on]
      [] OTHER -> policy

DisablesFast(o) == o \in {"SNDHWM", "CONFLATE"}

(* set_option_i32; a value that is not taken is EINVAL and changes nothing. *)
SetInt(o, v) ==
    /\ stype # "none" /\ Accepts(o, v) /\ MayChange(o)
    /\ LET also == IF o = "XPUB_MANUAL_LAST_VALUE" THEN {o, "XPUB_MANUAL"} ELSE {o}
       IN  opt' = [p \in Tried |-> IF p \in also THEN Stored(o, v) ELSE opt[p]]
    /\ policy' = PolicyAfter(o, v # 0)
    /\ fast' = (fast /\ ~DisablesFast(o))
    /\ UNCHANGED <<stype, blob, lifecycle>>

-----------------------------------------------------------------------------
CurveKeys == {"CURVE_PUBLICKEY", "CURVE_SECRETKEY", "CURVE_SERVERKEY"}

AcceptsBytes(o, n) ==
    CASE o = "ROUTING_ID" -> n \in 1..255
      [] o = "CONNECT_ROUTING_ID" -> stype \in {"ROUTER", "STREAM"} /\ n > 0
      [] o \in CurveKeys -> n \in {32, 40}
      [] OTHER -> TRUE

(* ZMQ_DISCONNECT_MSG is kept twice: peers get the second when this one goes. *)
Copied(o, b) == IF o = "DISCONNECT_MSG" THEN b ELSE lifecycle

SetBytes(o, b) ==
    /\ stype # "none" /\ AcceptsBytes(o, b.len) /\ MayChange(o)
    /\ blob' = [blob EXCEPT ![o] = b]
    /\ lifecycle' = Copied(o, b)
    /\ UNCHANGED <<stype, opt, fast, policy>>

(* get_option_bytes: C strings come out with a NUL that sets keep. *)
CStrings == {"SOCKS_PROXY", "SOCKS_USERNAME", "SOCKS_PASSWORD", "BINDTODEVICE"}
SetOnly == {"CONNECT_ROUTING_ID", "HELLO_MSG", "DISCONNECT_MSG", "HICCUP_MSG"}
GetBytes(o) ==
    IF o \in CStrings THEN [len |-> blob[o].len + 1, nuls |-> blob[o].nuls + 1] ELSE blob[o]

(* An option is read and set to what was read. *)
Restore(o) ==
    /\ o \notin SetOnly /\ blob[o].nuls < MaxNuls
    /\ SetBytes(o, GetBytes(o))

Next ==
    \/ \E type \in {"PAIR", "ROUTER", "XPUB", "XSUB"} : Open(type)
    \/ \E o \in Tried, v \in IntValues : SetInt(o, v)
    \/ \E o \in TriedBytes :
        \/ Restore(o)
        \/ \E n \in Lengths : SetBytes(o, [len |-> n, nuls |-> 0])

Spec == Init /\ [][Next]_ovars

-----------------------------------------------------------------------------
(* Properties *)

(* The variables have their types. *)
TypeOK ==
    /\ \A o \in Tried : opt[o] \in Int /\ (o \in Flag \cup NaturalFlag => opt[o] \in 0..1)
    /\ fast \in BOOLEAN /\ DOMAIN policy = DOMAIN NoPolicy

(* Options that get_option_i32 has no case for. *)
Unreadable == {"PROBE_ROUTER", "ROUTER_RAW", "STREAM_NOTIFY", "BUSY_POLL", "ONLY_FIRST_SUBSCRIBE",
               "XSUB_VERBOSE_UNSUBSCRIBE", "XPUB_MANUAL_LAST_VALUE"}

(* What zmq_getsockopt returns for an int option can be set again and is kept *)
(* as it is, so an application can save options and restore them.  The        *)
(* exception is the -1 that stands for ZMQ_HEARTBEAT_TIMEOUT until it is set. *)
IntsRestore ==
    \A o \in Tried \ Unreadable : stype # "none" =>
        \/ Accepts(o, opt[o]) /\ Stored(o, opt[o]) = opt[o]
        \/ o = "HEARTBEAT_TIMEOUT" /\ opt[o] = -1

(* However the four XPUB options are set one after the other, the policy is   *)
(* one the notifications know: telling every unsubscribe implies telling      *)
(* every subscribe, last-value delivery implies manual mode, and             *)
(* ZMQ_XPUB_MANUAL reads as what is in force.                                 *)
PolicyConsistent ==
    /\ policy.verbose_unsubscribe => policy.verbose_subscribe
    /\ policy.manual_last_value => policy.manual
    /\ "XPUB_MANUAL" \in Tried => policy.manual = (opt["XPUB_MANUAL"] = 1)

(* The path that appends without a look at the options is only taken as long  *)
(* as the application has set neither a high-water mark nor conflation.       *)
FastPathUnlimited ==
    fast => \A o \in {"SNDHWM", "CONFLATE"} \cap Tried : opt[o] = Default(o)

(* The disconnect message peers are sent is the one the option holds.         *)
DisconnectMsgAgrees ==
    "DISCONNECT_MSG" \in TriedBytes => lifecycle = blob["DISCONNECT_MSG"]
=============================================================================
