----------------------------- MODULE FfiTimers ------------------------------
(***************************************************************************)
(* zmq_timers_* of the C ABI (libzmq-ffi/src/lib.rs): timers an            *)
(* application runs from its own loop, which asks for the time to the next *)
(* deadline, sleeps and executes what is due.  The handlers may add,       *)
(* cancel, reset, change, destroy and execute timers while                 *)
(* zmq_timers_execute walks over them, and take time themselves.  Time is  *)
(* kept relative to the present, in ticks finer than the milliseconds of   *)
(* the interface.                                                          *)
(***************************************************************************)
EXTENDS Integers, Sequences, FiniteSets

CONSTANTS
    MaxTimers,    \* bound: timers added
    MaxInterval,  \* bound: intervals, in milliseconds
    TicksPerMs,   \* ticks in a millisecond
    MaxLate,      \* bound: ticks a walk or the application may take
    MaxNested     \* bound: walks under way, one in a handler of the other

VARIABLES
    timers,   \* TimerEntry, in the order added: the id is the position
    walks,    \* the calls of zmq_timers_execute under way, the innermost last
    asleep,   \* ticks the application still sleeps
    since     \* history: per timer, ticks since it was armed and its interval then

tvars == <<timers, walks, asleep, since>>

Ids == 1..Len(timers)
Longest == MaxInterval * TicksPerMs
Oldest == MaxLate + Longest   \* bound: ages are told apart up to here

(* The innermost walk: what it does, at which timer, the last timer its      *)
(* iterator goes to, the ticks since it read the clock, and whether the Vec  *)
(* it iterates was given back to the allocator meanwhile.                    *)
Idle == walks = <<>>
Top == walks[Len(walks)]
Walk(w) == walks' = [walks EXCEPT ![Len(walks)] = w]
WalkAt(at) == ~Idle /\ Top.at = at

Init ==
    /\ timers = <<>>
    /\ walks = <<>>
    /\ asleep = 0
    /\ since = <<>>

(* The application acts between its sleeps, and handlers act inside a walk.  *)
Awake == asleep = 0 /\ (Idle \/ WalkAt("handler"))

(* The walks under way iterate over memory that is no longer the Vec's.      *)
Freed == [i \in 1..Len(walks) |-> [walks[i] EXCEPT !.freed = TRUE]]

-----------------------------------------------------------------------------
(* A push finds room in the Vec or makes it grow, in place or elsewhere: the *)
(* growth is the library's.  Nothing keeps a handler from adding timers to   *)
(* the Vec that is walked over.                                              *)
TimersAdd ==
    /\ Awake /\ Len(timers) < MaxTimers
    /\ \E ms \in 0..MaxInterval, handler \in BOOLEAN :
        LET interval == ms * TicksPerMs IN
        /\ timers' = Append(timers, [interval |-> interval, left |-> interval,
                                     handler |-> handler, active |-> TRUE])
        /\ since' = Append(since, [ticks |-> 0, owed |-> interval])
    /\ walks' \in {walks, Freed}
    /\ UNCHANGED asleep

TimersCancel(t) ==
    /\ Awake
    /\ timers' = [timers EXCEPT ![t].active = FALSE]
    /\ UNCHANGED <<walks, asleep, since>>

(* The deadline stays where it is. *)
TimersSetInterval(t) ==
    /\ Awake
    /\ \E interval \in 0..MaxInterval :
        timers' = [timers EXCEPT ![t].interval = interval * TicksPerMs]
    /\ UNCHANGED <<walks, asleep, since>>

TimersReset(t) ==
    /\ Awake
    /\ timers' = [timers EXCEPT ![t].left = timers[t].interval, ![t].active = TRUE]
    /\ since' = [since EXCEPT ![t] = [ticks |-> 0, owed |-> timers[t].interval]]
    /\ UNCHANGED <<walks, asleep>>

(* zmq_timers_destroy and a new zmq_timers_new. *)
TimersDestroy ==
    /\ Awake
    /\ timers' = <<>> /\ since' = <<>>
    /\ walks' = Freed
    /\ UNCHANGED asleep

-----------------------------------------------------------------------------
MillisUp(ticks) == (ticks + TicksPerMs - 1) \div TicksPerMs   \* mutant: rounded up
(* zmq_timers_timeout cuts the time to the next deadline to milliseconds, and *)
(* the application sleeps for that long (-1, no active timer, is not slept).  *)
(* A handler that asks changes nothing; it is the loop that sleeps.           *)
Millis(ticks) == ticks \div TicksPerMs

Active == {t \in Ids : timers[t].active}
NextLeft == CHOOSE l \in {timers[t].left : t \in Active} :
                \A t \in Active : l <= timers[t].left

TimersTimeout ==
    /\ Awake /\ Idle /\ Active # {}
    /\ asleep' = Millis(IF NextLeft < 0 THEN 0 ELSE NextLeft) * TicksPerMs
    /\ UNCHANGED <<timers, walks, since>>

-----------------------------------------------------------------------------
(* zmq_timers_execute reads the clock and starts at the first timer; its     *)
(* iterator ends at the timer that is the last one now.  A handler may call  *)
(* it as well: its own timer is still due then and is called once more.      *)
TimersExecute ==
    /\ Awake /\ Len(walks) < MaxNested
    /\ walks' = Append(walks, [at |-> "look", timer |-> 1, end |-> Len(timers),
                               elapsed |-> 0, freed |-> FALSE])
    /\ UNCHANGED <<timers, asleep, since>>

(* The filter looks at a timer when the walk gets to it. *)
Due(t) == timers[t].active /\ timers[t].left + Top.elapsed <= 0

Skip ==
    /\ WalkAt("look") /\ Top.timer <= Top.end /\ ~Due(Top.timer)
    /\ Walk([Top EXCEPT !.timer = @ + 1])
    /\ UNCHANGED <<timers, asleep, since>>

CallHandler ==
    /\ WalkAt("look") /\ Top.timer <= Top.end /\ Due(Top.timer)
    /\ Walk([Top EXCEPT !.at = IF timers[Top.timer].handler THEN "handler" ELSE "rearm"])
    /\ UNCHANGED <<timers, asleep, since>>

(* A walk whose Vec is gone reads and writes freed memory when the handler   *)
(* comes back: nothing is known of the program from there on.                *)
HandlerReturns ==
    /\ WalkAt("handler")
    /\ Walk([Top EXCEPT !.at = IF Top.freed THEN "lost" ELSE "rearm"])
    /\ UNCHANGED <<timers, asleep, since>>

Undefined == WalkAt("lost") /\ UNCHANGED tvars

(* The new deadline counts from the clock of the walk, whatever the handler   *)
(* did to its own timer and however late the walk was.                        *)
Rearmed(t) == timers[t].interval - Top.elapsed

Rearm ==
    /\ WalkAt("rearm")
    /\ timers' = [timers EXCEPT ![Top.timer].left = Rearmed(Top.timer)]
    /\ since' = [since EXCEPT ![Top.timer] = [ticks |-> Top.elapsed,
                                              owed |-> timers[Top.timer].interval]]
    /\ Walk([Top EXCEPT !.at = "look", !.timer = @ + 1])
    /\ UNCHANGED asleep

ExecuteReturns ==
    /\ WalkAt("look") /\ Top.timer > Top.end
    /\ walks' = SubSeq(walks, 1, Len(walks) - 1)
    /\ UNCHANGED <<timers, asleep, since>>

(* Time passes while the application sleeps, works or runs a handler.         *)
Tick ==
    /\ Idle \/ (WalkAt("handler") /\ walks[1].elapsed < MaxLate)
    /\ timers' = [t \in Ids |-> [timers[t] EXCEPT !.left = IF @ > -Oldest THEN @ - 1 ELSE @]]
    /\ since' = [t \in Ids |-> [since[t] EXCEPT !.ticks = IF @ < Oldest THEN @ + 1 ELSE @]]
    /\ walks' = [i \in 1..Len(walks) |-> [walks[i] EXCEPT !.elapsed = @ + 1]]
    /\ asleep' = IF asleep > 0 THEN asleep - 1 ELSE 0

Next ==
    \/ TimersAdd \/ TimersDestroy \/ TimersTimeout \/ TimersExecute
    \/ \E t \in Ids : TimersCancel(t) \/ TimersSetInterval(t) \/ TimersReset(t)
    \/ Skip \/ CallHandler \/ HandlerReturns \/ Undefined
    \/ Rearm \/ ExecuteReturns \/ Tick

Spec == Init /\ [][Next]_tvars

-----------------------------------------------------------------------------
(* Properties.  They are silent about a program that has gone on in the       *)
(* memory of a Vec that moved or was destroyed under its walk.                *)

(* The variables have their types, and a walk that works on the Vec is at a   *)
(* timer of it or at its end.                                                 *)
TypeOK ==
    /\ \A t \in Ids : /\ timers[t].left \in -Oldest..Longest
                      /\ timers[t].interval \in 0..Longest
    /\ Len(since) = Len(timers) /\ asleep \in 0..Longest
    /\ \A i \in 1..Len(walks) :
        /\ walks[i].at \in {"look", "handler", "rearm", "lost"}
        /\ walks[i].elapsed \in 0..MaxLate
        /\ walks[i].at \in {"look", "rearm"} => walks[i].end <= Len(timers)
        /\ walks[i].at = "rearm" => walks[i].timer \in Ids

(* When a timer fires, the interval it was armed with has passed since it was *)
(* added, since the walk that fired it last was through with it or since it   *)
(* was reset by anyone but its own handler: a loop that is late does not make *)
(* up for the periods it missed with a burst, and one timer's handler can put *)
(* off another.                                                               *)
NoBurst ==
    WalkAt("look") /\ Top.timer <= Top.end /\ Due(Top.timer)
        => since[Top.timer].ticks - Top.elapsed >= since[Top.timer].owed

(* After a walk nothing that it should have fired is left, whatever its       *)
(* handlers added and changed and whatever walks they made in it: every       *)
(* active timer that was armed with an interval has its deadline after the    *)
(* walk's clock.                                                              *)
DueIsServed ==
    WalkAt("look") /\ Top.timer > Top.end
        => \A t \in Active : since[t].owed > 0 => ~Due(t)

(* An application that sleeps for zmq_timers_timeout wakes up before any      *)
(* deadline has passed, though the answer is cut to whole milliseconds.       *)
NeverOversleeps ==
    asleep > 0 => \A t \in Active : timers[t].left >= asleep
=============================================================================
