----------------------------- MODULE ContextLife ----------------------------
(***************************************************************************)
(* The context of libzmq-core/src/context.rs: its life, the socket ids it  *)
(* hands out, the defaults new sockets take from its options, and          *)
(* ZMQ_THREAD_NAME_PREFIX, which is stored as text but can be set and read *)
(* as a number too (Context::set_option, set_option_bytes and              *)
(* zmq_ctx_set_ext, zmq_ctx_get_ext of the C ABI).  Options that are       *)
(* stored and given back as they are have no part in it.                   *)
(***************************************************************************)
EXTENDS Integers, SequencesExt

CONSTANTS
    CtxThreads,   \* threads that use the context
    MaxInt,       \* the largest i32
    IntSize,      \* bytes of a c_int
    Texts,        \* prefixes an application sets as bytes
    MaxIds        \* bound: socket ids handed out

VARIABLES
    life,      \* ContextShared::state
    ended,     \* whether shutdown or terminate was ever called
    nextId,    \* ContextShared::next_socket_id
    defaults,  \* ContextOptions: ipv6 and blocky
    prefix,    \* ContextOptions: thread_name_prefix
    asked,     \* what was last set as the prefix: <<"int", n>> or <<"text", t>>
    maker,     \* per thread: its call of Context::socket
    made       \* sockets made, transient ones too

ctxVars == <<life, ended, nextId, defaults, prefix, asked, maker, made>>

MinInt == -MaxInt - 1

(* Characters: a digit is its value. *)
Minus == -1
Plus == -2
Space == -3
Letter == -4
IsDigit(c) == c \in 0..9

(* i32::to_string. *)
Decimal(n) ==
    LET size == CHOOSE k \in 1..10 : n < 10^k /\ (k = 1 \/ n >= 10^(k - 1))
    IN [i \in 1..size |-> (n \div 10^(size - i)) % 10]
ToText(n) == IF n < 0 THEN <<Minus>> \o Decimal(-n) ELSE Decimal(n)

Saturated(n) == IF n > MaxInt THEN MaxInt ELSE IF n < MinInt THEN MinInt ELSE n

(* atoi_i32: leading space, a sign, and digits up to the first other one. *)
Without(t, chars) ==
    LET rest == {i \in DOMAIN t : t[i] \notin chars}
    IN IF rest = {} THEN <<>>
       ELSE SubSeq(t, CHOOSE i \in rest : \A j \in rest : i <= j, Len(t))
LeadingDigits(t) ==
    LET rest == {i \in DOMAIN t : ~IsDigit(t[i])}
    IN IF rest = {} THEN t
       ELSE SubSeq(t, 1, (CHOOSE i \in rest : \A j \in rest : i <= j) - 1)

(* Mutant: wrapping_mul and wrapping_add. *)
StepWrapping(n, d) == MinInt + ((n * 10 + d - MinInt) % (MaxInt - MinInt + 1))
Step(n, d) == Saturated(Saturated(n * 10) + d)

Atoi(t) ==
    LET text == Without(t, {Space})
        signed == text # <<>> /\ text[1] \in {Minus, Plus}
        digits == LeadingDigits(IF signed THEN Tail(text) ELSE text)
        value == FoldLeft(Step, 0, digits)
    IN IF signed /\ text[1] = Minus THEN Saturated(-value) ELSE value

-----------------------------------------------------------------------------
Idle == [step |-> "idle"]

Init ==
    /\ life = "running" /\ ended = FALSE /\ nextId = 1
    /\ defaults = [ipv6 |-> FALSE, blocky |-> TRUE]
    /\ prefix = <<>> /\ asked = <<"text", <<>> >>
    /\ maker = [t \in CtxThreads |-> Idle]
    /\ made = {}

(* Both just store: a shutdown after terminate takes the context back. *)
Shutdown ==
    /\ life' = "shutting_down" /\ ended' = TRUE
    /\ UNCHANGED <<nextId, defaults, prefix, asked, maker, made>>

Terminate ==
    /\ life' = "terminated" /\ ended' = TRUE
    /\ UNCHANGED <<nextId, defaults, prefix, asked, maker, made>>

(* Every open call sees the defaults that are set while it runs: history for  *)
(* DefaultsTogether.                                                          *)
Seen(calls, pair) ==
    [t \in CtxThreads |->
        IF calls[t].step = "idle" THEN Idle ELSE [calls[t] EXCEPT !.seen = @ \cup {pair}]]

SetDefault(name, value) ==
    /\ defaults' = [defaults EXCEPT ![name] = value]
    /\ maker' = Seen(maker, defaults')
    /\ UNCHANGED <<life, ended, nextId, prefix, asked, made>>

(* zmq_ctx_set, and zmq_ctx_set_ext with the size of a c_int. *)
SetPrefixInt(n) ==
    /\ prefix' = ToText(n) /\ asked' = <<"int", n>>
    /\ UNCHANGED <<life, ended, nextId, defaults, maker, made>>

(* zmq_ctx_set_ext with another size: the bytes as they are. *)
SetPrefixBytes(t) ==
    /\ Len(t) # IntSize /\ Len(t) \in 1..16
    /\ prefix' = t /\ asked' = <<"text", t>>
    /\ UNCHANGED <<life, ended, nextId, defaults, maker, made>>

(* Mutant: only termination is looked for. *)
NotTerminated == life # "terminated"
EnsureRunning == life = "running"

(* Context::socket: the state, the id and the defaults are read one by one. *)
Socket(t) ==
    /\ maker[t].step = "idle" /\ EnsureRunning
    /\ maker' = [maker EXCEPT ![t] =
                   [step |-> "id", late |-> ended, seen |-> {defaults}, id |-> 0]]
    /\ UNCHANGED <<life, ended, nextId, defaults, prefix, asked, made>>

FetchAdd == nextId + 1

TakeId(t) ==
    /\ maker[t].step = "id" /\ nextId <= MaxIds
    /\ maker' = [maker EXCEPT ![t].step = "defaults", ![t].id = nextId]
    /\ nextId' = FetchAdd
    /\ UNCHANGED <<life, ended, defaults, prefix, asked, made>>

SocketDefaults == defaults

TakeDefaults(t) ==
    /\ maker[t].step = "defaults"
    /\ made' = made \cup {[id |-> maker[t].id, by |-> t, late |-> maker[t].late,
                           apt |-> SocketDefaults \in maker[t].seen]}
    /\ maker' = [maker EXCEPT ![t] = Idle]
    /\ UNCHANGED <<life, ended, nextId, defaults, prefix, asked>>

(* next_transient_socket_id: the sender of a ZAP request. *)
TransientId ==
    /\ nextId <= MaxIds
    /\ nextId' = nextId + 1
    /\ made' = made \cup {[id |-> nextId, by |-> "zap", late |-> FALSE, apt |-> TRUE]}
    /\ UNCHANGED <<life, ended, defaults, prefix, asked, maker>>

(* The prefix and the life of the context do not touch each other, so they    *)
(* can be checked apart.                                                      *)
PrefixNext ==
    \/ \E n \in MinInt..MaxInt : SetPrefixInt(n)
    \/ \E t \in Texts : SetPrefixBytes(t)

LifeNext ==
    \/ Shutdown \/ Terminate \/ TransientId
    \/ \E name \in {"ipv6", "blocky"}, value \in BOOLEAN : SetDefault(name, value)
    \/ \E t \in CtxThreads : Socket(t) \/ TakeId(t) \/ TakeDefaults(t)

Next == LifeNext \/ PrefixNext

Spec == Init /\ [][Next]_ctxVars

-----------------------------------------------------------------------------
(* Properties *)

(* States, ids and calls have their types. *)
TypeOK ==
    /\ life \in {"running", "shutting_down", "terminated"}
    /\ nextId \in 1..MaxIds + 1 /\ ended \in BOOLEAN
    /\ defaults \in [ipv6 : BOOLEAN, blocky : BOOLEAN]
    /\ prefix \in Seq(-4..9) /\ Len(prefix) <= 16
    /\ \A t \in CtxThreads : maker[t].step \in {"idle", "id", "defaults"}

(* No two sockets of a context have the same id, by which the peers of an     *)
(* endpoint are told apart, not even when threads make them at the same time  *)
(* as ZAP requests take ids for their senders (next_socket_id).               *)
IdsDistinct ==
    /\ \A s, r \in made : s.id = r.id => s = r
    /\ \A t \in CtxThreads, s \in made :
         maker[t].step = "defaults" => maker[t].id # s.id
    /\ \A t, u \in CtxThreads :
         t # u /\ maker[t].step = "defaults" /\ maker[u].step = "defaults"
           => maker[t].id # maker[u].id

(* A call of socket that begins after shutdown or terminate makes no socket,  *)
(* also when shutdown comes after terminate and takes the state back          *)
(* (Context::ensure_running).                                                 *)
NoSocketAfterEnd == \A s \in made : ~s.late

(* A socket's ZMQ_IPV6 and its linger default are a pair the context had at   *)
(* one time while the socket was made, never one old and one new              *)
(* (Context::socket_defaults).                                                *)
DefaultsTogether == \A s \in made : s.apt

(* A thread name prefix set as a number is read back as that number and one   *)
(* set as bytes as these bytes, whichever was there before.  The smallest     *)
(* number is not: atoi_i32 saturates before it applies the sign, so that it   *)
(* comes back one too large (set_option, get_option, atoi_i32).               *)
PrefixReadsBack ==
    IF asked[1] = "int"
    THEN Atoi(prefix) = IF asked[2] = MinInt THEN MinInt + 1 ELSE asked[2]
    ELSE prefix = asked[2]
=============================================================================
