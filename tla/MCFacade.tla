------------------------------ MODULE MCFacade ------------------------------
(***************************************************************************)
(* The parts of the C ABI that keep state of their own: messages, timers   *)
(* and pollers, and the context behind its context calls.  They share      *)
(* nothing, so a behaviour is one of one part, chosen in the initial       *)
(* state, while the others rest.                                           *)
(***************************************************************************)
EXTENDS Integers, FiniteSets

CONSTANTS
  Msgs, Buffers, MaxQueue, MaxLeaks,             \* FfiMessage
  MaxTimers, MaxInterval, TicksPerMs, MaxLate, MaxNested,  \* FfiTimers
  PollThreads, PollSockets, PollFds,             \* FfiPoller
  CtxThreads, MaxInt, IntSize, Texts, MaxIds     \* ContextLife

ASSUME FacadeAssumption ==
  /\ IsFiniteSet(Msgs) /\ MaxQueue \in Nat /\ MaxLeaks \in Nat
  /\ MaxInterval \in Nat /\ TicksPerMs \in Nat \ {0} /\ MaxLate \in Nat /\ MaxNested \in Nat
  /\ "nobody" \notin PollThreads
  /\ MaxIds \in Nat

VARIABLES
  part,
  slot, given, arc, freed, leaked, queue,
  timers, walks, asleep, since,
  entries, holder, call, inbox, rose,
  life, ended, nextId, defaults, prefix, asked, maker, made

Message == INSTANCE FfiMessage
Timers == INSTANCE FfiTimers
Poller == INSTANCE FfiPoller
Context == INSTANCE ContextLife

messageVars == <<slot, given, arc, freed, leaked, queue>>
timerVars == <<timers, walks, asleep, since>>
pollerVars == <<entries, holder, call, inbox, rose>>
contextVars == <<life, ended, nextId, defaults, prefix, asked, maker, made>>
facade == <<part, messageVars, timerVars, pollerVars, contextVars>>

(* Prefixes that are digits, too many digits, signed, and no number. *)
SomeTexts == {<<7>>, <<4, 2>>, <<-3, -1, 3>>, <<-2, 5>>, <<-4>>}

FacadeInit ==
  /\ part \in {"message", "timers", "poller", "context", "prefix"}
  /\ Message!Init /\ Timers!Init /\ Poller!Init
  /\ Context!Init

FacadeNext ==
  /\ UNCHANGED part
  /\ \/ /\ part = "message" /\ Message!Next
        /\ UNCHANGED <<timerVars, pollerVars, contextVars>>
     \/ /\ part = "timers" /\ Timers!Next
        /\ UNCHANGED <<messageVars, pollerVars, contextVars>>
     \/ /\ part = "poller" /\ Poller!Next
        /\ UNCHANGED <<messageVars, timerVars, contextVars>>
     \/ /\ \/ part = "context" /\ Context!LifeNext
           \/ part = "prefix" /\ Context!PrefixNext
        /\ UNCHANGED <<messageVars, timerVars, pollerVars>>

FacadeSpec == FacadeInit /\ [][FacadeNext]_facade

-----------------------------------------------------------------------------
(* Messages (FfiMessage): no buffer is freed while a zmq_msg_t refers to   *)
(* it (a queue never does: a send copies the bytes), each is freed once    *)
(* nobody does, unless zmq_msg_move or zmq_msg_copy leaked it, and the     *)
(* routing id in a zmq_msg_t is the one of the message it points to,       *)
(* whatever was copied, moved, sent, received and closed before.           *)
BuffersFreedInTime ==
  part = "message" =>
    /\ Message!TypeOK
    /\ Message!NotFreedInUse /\ Message!FreedAtLast /\ Message!RoutingIdsAgree

(* Timers (FfiTimers): zmq_timers_execute leaves no timer due that was due *)
(* when it began and makes no burst of calls up for lost time, whatever    *)
(* timers its handlers add, change and execute, as long as no walk goes on *)
(* in a Vec that moved or was destroyed under it; and the time             *)
(* zmq_timers_timeout returns is never overslept.                          *)
TimersPunctual ==
  part = "timers" =>
    /\ Timers!TypeOK
    /\ Timers!NoBurst /\ Timers!DueIsServed /\ Timers!NeverOversleeps

(* Pollers (FfiPoller): a look of zmq_poll or zmq_poller_wait_all misses   *)
(* nothing that was ready when it began and reports only what is           *)
(* registered, while another thread changes the entries; nothing is        *)
(* registered twice.                                                       *)
PollerReportsTruly ==
  part = "poller" =>
    /\ Poller!TypeOK
    /\ Poller!ReportedIsRegistered /\ Poller!RegisteredOnce /\ Poller!NothingMissed

(* The context (ContextLife): sockets made by several threads have ids of  *)
(* their own and defaults of one moment, and none is made by a call that   *)
(* began after shutdown or terminate.                                      *)
SocketsMadeRight ==
  part = "context" =>
    /\ Context!TypeOK
    /\ Context!IdsDistinct /\ Context!NoSocketAfterEnd /\ Context!DefaultsTogether

(* The thread name prefix (ContextLife) reads back as it was set, as a     *)
(* number or as text, whatever was set before, with two exceptions: the    *)
(* smallest number comes back one too large, and a text of the size of a   *)
(* c_int is set as a number.                                               *)
PrefixKept == part = "prefix" => Context!TypeOK /\ Context!PrefixReadsBack
=============================================================================
