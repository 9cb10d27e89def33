--------------------------- MODULE SocketMonitor ----------------------------
(***************************************************************************)
(* The monitor of a socket (libzmq-core/src/socket.rs, monitor,            *)
(* stop_monitor, emit_monitor_event, monitor_pipes_stats): an inproc name  *)
(* bound on the socket's behalf, whose first peer is sent events of one of *)
(* two formats.  The socket's thread starts, replaces and stops monitors   *)
(* and emits events, one lock at a time, while listeners connect to the    *)
(* name and leave it and another socket binds names of its own.            *)
(***************************************************************************)
EXTENDS Integers, SequencesExt

CONSTANTS
    MonNames,     \* inproc names
    Listeners,    \* sockets that listen to monitors
    MaxFrames,    \* bound: frames in a listener's inbox
    MaxMonitors   \* bound: monitors started

VARIABLES
    monitor,   \* MonitorState of the socket
    registry,  \* per name: who bound it, and its peers in order of arrival
    news,      \* per listener: the frames in its inbox
    work,      \* the call the socket's thread is in, and what it read so far
    pipes,     \* peers of the socket itself
    started    \* monitors started so far

snvars == <<monitor, registry, news, work, pipes, started>>

NoMonitor == [name |-> "none"]
Unbound == [owner |-> "nobody", peers |-> <<>>, serial |-> 0]
AtRest == [op |-> "none"]

(* Events of the low 16 bits, and the pipe statistics, which are above them.  *)
LowEvents == {"connected", "closed"}
Stats == "pipes_stats"

Init ==
    /\ monitor = NoMonitor
    /\ registry = [n \in MonNames |-> Unbound]
    /\ news = [l \in Listeners |-> <<>>]
    /\ work = AtRest
    /\ pipes = 0
    /\ started = 0

-----------------------------------------------------------------------------
(* monitor: the arguments are checked, the running monitor is stopped, the    *)
(* name is bound, and the state stored, each under a lock of its own.         *)
ValidMask(version, mask) == version = 1 => Stats \notin mask

KeepRunning == UNCHANGED registry   \* mutant: the old name stays bound
StopRunning ==
    registry' = [n \in MonNames |-> IF n = monitor.name THEN Unbound ELSE registry[n]]

StartMonitor(n, version, mask) ==
    /\ work = AtRest /\ started < MaxMonitors
    /\ ValidMask(version, mask)
    /\ StopRunning
    /\ monitor' = NoMonitor
    /\ started' = started + 1
    /\ work' = [op |-> "bind", name |-> n, version |-> version, mask |-> mask]
    /\ UNCHANGED <<news, pipes>>

(* zmq_socket_monitor is the first version, zmq_socket_monitor_versioned any. *)
Monitor(n, mask) == StartMonitor(n, 1, mask)
MonitorVersioned(n, version, mask) == StartMonitor(n, version, mask)

NameFree(n) == registry[n].owner = "nobody"

MonitorBind ==
    /\ work.op = "bind" /\ NameFree(work.name)
    /\ registry' = [registry EXCEPT ![work.name] =
                      [@ EXCEPT !.owner = "monitor", !.serial = started]]
    /\ monitor' = [name |-> work.name, version |-> work.version, mask |-> work.mask,
                   serial |-> started]
    /\ work' = AtRest
    /\ UNCHANGED <<news, pipes, started>>

(* The name is taken: EINVAL, and the monitor that ran is gone. *)
MonitorBindFails ==
    /\ work.op = "bind" /\ ~NameFree(work.name)
    /\ work' = AtRest
    /\ UNCHANGED <<monitor, registry, news, pipes, started>>

StopMonitor ==
    /\ work = AtRest /\ monitor # NoMonitor
    /\ StopRunning
    /\ monitor' = NoMonitor
    /\ UNCHANGED <<news, work, pipes, started>>

-----------------------------------------------------------------------------
(* emit_monitor_event, at the end of bind, unbind, connect and disconnect:    *)
(* the state is copied, the name looked up, the first peer taken, and the     *)
(* frames pushed into its inbox.                                              *)
Emit(event) ==
    /\ work = AtRest /\ monitor # NoMonitor /\ event \in monitor.mask
    /\ work' = [op |-> "emit", name |-> monitor.name, event |-> event, count |-> 1,
                version |-> monitor.version]
    /\ UNCHANGED <<monitor, registry, news, pipes, started>>

(* monitor_pipes_stats: one event for each peer, in the second format always. *)
PipesStats ==
    /\ work = AtRest /\ monitor # NoMonitor /\ Stats \in monitor.mask /\ pipes > 0
    /\ work' = [op |-> "emit", name |-> monitor.name, event |-> Stats, count |-> pipes,
                version |-> 2]
    /\ UNCHANGED <<monitor, registry, news, pipes, started>>

EmitFindsPeer ==
    /\ work.op = "emit" /\ registry[work.name].peers # <<>>
    /\ work' = [work EXCEPT !.op = "push", !.name = Head(registry[work.name].peers)]
    /\ UNCHANGED <<monitor, registry, news, pipes, started>>

EmitFindsNobody ==
    /\ work.op = "emit" /\ registry[work.name].peers = <<>>
    /\ work' = AtRest
    /\ UNCHANGED <<monitor, registry, news, pipes, started>>

(* The first format is a frame for the event and one for the endpoint; in the *)
(* second there are a count, the values and the local endpoint in between,    *)
(* which are one frame here.                                                  *)
Parts(version) == IF version = 1 THEN 2 ELSE 3

Frames(event, version) ==
    [k \in 1..Parts(version) |-> [event |-> event, version |-> version, place |-> k,
                                  more |-> k < Parts(version)]]

Push ==
    /\ work.op = "push"
    /\ Len(news[work.name]) <= MaxFrames
    /\ news' = [news EXCEPT ![work.name] = @ \o Frames(work.event, work.version)]
    /\ work' = IF work.count > 1 THEN [work EXCEPT !.count = @ - 1] ELSE AtRest
    /\ UNCHANGED <<monitor, registry, pipes, started>>

-----------------------------------------------------------------------------
(* Other threads: listeners, the socket's own peers, and another binder. *)
Peers(n) == {registry[n].peers[i] : i \in 1..Len(registry[n].peers)}
Listening(l) == \E n \in MonNames : l \in Peers(n)

(* A peer of a name nobody has bound yet waits for the bind. *)
ListenerConnects(l, n) ==
    /\ ~Listening(l) /\ news[l] = <<>>
    /\ registry' = [registry EXCEPT ![n].peers = Append(@, l)]
    /\ UNCHANGED <<monitor, news, work, pipes, started>>

(* A listener is a peer once, so it has one place. *)
ListenerLeaves(l, n) ==
    /\ \E i \in 1..Len(registry[n].peers) :
        /\ registry[n].peers[i] = l
        /\ registry' = [registry EXCEPT ![n].peers = RemoveAt(@, i)]
    /\ UNCHANGED <<monitor, news, work, pipes, started>>

ListenerReads(l) ==
    /\ news[l] # <<>>
    /\ news' = [news EXCEPT ![l] = Tail(@)]
    /\ UNCHANGED <<monitor, registry, work, pipes, started>>

StrangerBinds(n) ==
    /\ NameFree(n)
    /\ registry' = [registry EXCEPT ![n].owner = "stranger"]
    /\ UNCHANGED <<monitor, news, work, pipes, started>>

StrangerUnbinds(n) ==
    /\ registry[n].owner = "stranger"
    /\ registry' = [registry EXCEPT ![n] = Unbound]
    /\ UNCHANGED <<monitor, news, work, pipes, started>>

PipesChange ==
    /\ pipes' \in 0..2
    /\ UNCHANGED <<monitor, registry, news, work, started>>

Next ==
    \/ \E n \in MonNames :
        \/ \E mask \in {LowEvents, {"closed", Stats}} :
            Monitor(n, mask) \/ \E version \in 1..2 : MonitorVersioned(n, version, mask)
        \/ StrangerBinds(n) \/ StrangerUnbinds(n)
        \/ \E l \in Listeners : ListenerConnects(l, n) \/ ListenerLeaves(l, n)
    \/ MonitorBind \/ MonitorBindFails \/ StopMonitor
    \/ (\E event \in LowEvents : Emit(event)) \/ PipesStats
    \/ EmitFindsPeer \/ EmitFindsNobody \/ Push
    \/ \E l \in Listeners : ListenerReads(l)
    \/ PipesChange

Spec == Init /\ [][Next]_snvars

-----------------------------------------------------------------------------
(* Properties *)

(* The variables have their types. *)
TypeOK ==
    /\ work.op \in {"none", "bind", "emit", "push"}
    /\ work.op = "push" => work.name \in Listeners
    /\ \A n \in MonNames : registry[n].owner \in {"nobody", "monitor", "stranger"}

(* The name of the running monitor is bound by that monitor and by nobody     *)
(* else: what it emits cannot reach the peers of another socket.              *)
MonitorOwnsName ==
    monitor # NoMonitor =>
        /\ registry[monitor.name].owner = "monitor"
        /\ registry[monitor.name].serial = monitor.serial

(* A name bound for a monitor is given back when the monitor is stopped or    *)
(* replaced, however often and under whatever names: no name is left bound    *)
(* for a monitor that is not there.                                           *)
NoOrphanedName ==
    \A n \in MonNames : registry[n].owner = "monitor" => monitor.name = n

(* What is in a listener's inbox is a run of whole events, the first perhaps  *)
(* partly read: a frame that says that more follows is followed by the next   *)
(* frame of the same event, one that does not is the last of its event and is *)
(* followed by the first of another, whatever monitors, stops and listeners   *)
(* that leave come in between.                                                *)
Follows(f, g) ==
    IF f.more
    THEN g.event = f.event /\ g.version = f.version /\ g.place = f.place + 1
    ELSE g.place = 1
EventsAreWhole ==
    \A l \in Listeners : \A i \in 1..Len(news[l]) :
        /\ i < Len(news[l]) => Follows(news[l][i], news[l][i + 1])
        /\ i = Len(news[l]) => news[l][i].place = Parts(news[l][i].version)

(* A monitor of the first version never sends a frame of the second, though   *)
(* pipe statistics are always sent in the second: its mask cannot ask for     *)
(* them.                                                                      *)
VersionRespected ==
    work.op \in {"emit", "push"} => work.version = monitor.version
=============================================================================
