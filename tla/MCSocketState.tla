---------------------------- MODULE MCSocketState ---------------------------
(***************************************************************************)
(* What one socket keeps for itself: its options, its monitor, its         *)
(* transports other than the ZMTP streams (WebSocket, UDP, NORM), the      *)
(* formats it writes and reads, and the pipe.  They share nothing, so a    *)
(* behaviour is one of one part, chosen in the initial state, while the    *)
(* others rest.                                                            *)
(***************************************************************************)
EXTENDS YPipe

CONSTANTS
  Tried, TriedBytes, IntValues, Lengths, MaxNuls, MaxChanged,  \* SocketOptions
  MonNames, Listeners, MaxFrames, MaxMonitors,                 \* SocketMonitor
  WsSockets, MaxConns, MaxBuffer, MaxCalls,                  \* WebSocket
  UdpSockets, Ports, NoPort, MaxFlight, MaxQueued,           \* UdpDatagram
  NormTopics, MaxTurns, MaxObjects, MaxHandles, MaxChanges,  \* NormSession
  Base, LongBytes, ChunkBase, ChunkBytes, DigitBase, Digits, \* ZmtpCodec
  Bodies, Properties, MaxWritten

ASSUME WebAssumption == MaxConns \in Nat /\ MaxCalls \in Nat

ASSUME UdpAssumption == NoPort \notin Ports

ASSUME NormAssumption ==
  /\ MaxTurns \in Nat \ {0}
  /\ MaxObjects \in Nat /\ MaxHandles \in Nat /\ MaxChanges \in Nat

VARIABLES
  part,
  stype, opt, blob, fast, policy, lifecycle,
  monitor, registry, news, work, pipes, started,
  secure, ws, wire, backlog,
  udp, opening, heard, flight, queued,
  norm, made, live, busy, crashed, interest, sent, here, taken, got, steady,
  format, commandBit, written, stream, received, offset, body, carried, found,
  refused, text

Options == INSTANCE SocketOptions
Monitors == INSTANCE SocketMonitor
Web == INSTANCE WebSocket
Udp == INSTANCE UdpDatagram
Norm == INSTANCE NormSession
Codec == INSTANCE ZmtpCodec WITH sent <- carried

ASSUME OptionsAssumption == Tried \subseteq Options!IntOptions /\ IntValues \subseteq Int

optionVars == <<stype, opt, blob, fast, policy, lifecycle>>
monitorVars == <<monitor, registry, news, work, pipes, started>>
webVars == <<secure, ws, wire, backlog>>
udpVars == <<udp, opening, heard, flight, queued>>
normVars == <<norm, made, live, busy, crashed, interest, sent, here, taken, got,
              steady>>
codecVars == <<format, commandBit, written, stream, received, offset, body, carried,
               found, refused, text>>

(* Below, at and above the limits of the options, the one of heartbeat_ttl *)
(* included.                                                               *)
EdgeValues == {-2, -1, 0, 1, 6553599, 6553600}

(* With bytes of 8 values: bodies around the longest short frame (7), made *)
(* of zeros or of what would be the flag of a long frame; names that fit,  *)
(* one that does not, and one that is cut within a character (6 and 4);    *)
(* values from empty to longer than a byte can say.                        *)
EdgeBodies == {[i \in 1..n |-> b] : n \in {0, 1, 7, 8, 9}, b \in {0, 2}}
EdgeProperties ==
  {<<1>>, [i \in 1..9 |-> 1], <<6, 4, 1, 1, 1, 1, 6, 4>>} \X
    {[i \in 1..n |-> 3] : n \in {0, 2, 9}}

AllInit ==
  /\ part \in {"options", "monitor", "pipe", "web", "udp", "norm", "codec"}
  /\ Options!Init /\ Monitors!Init /\ Init /\ Web!Init /\ Udp!Init /\ Norm!Init
  /\ Codec!Init
  /\ secure => part = "web"
  /\ format # "frames" \/ commandBit => part = "codec"

AllNext ==
  /\ UNCHANGED part
  /\ \/ /\ part = "options" /\ Options!Next
        /\ UNCHANGED <<monitorVars, yvars, webVars, udpVars, normVars,
                       codecVars>>
     \/ /\ part = "monitor" /\ Monitors!Next
        /\ UNCHANGED <<optionVars, yvars, webVars, udpVars, normVars,
                       codecVars>>
     \/ /\ part = "pipe" /\ Next
        /\ UNCHANGED <<optionVars, monitorVars, webVars, udpVars, normVars,
                       codecVars>>
     \/ /\ part = "web" /\ Web!Next
        /\ UNCHANGED <<optionVars, monitorVars, yvars, udpVars, normVars,
                       codecVars>>
     \/ /\ part = "udp" /\ Udp!Next
        /\ UNCHANGED <<optionVars, monitorVars, yvars, webVars, normVars,
                       codecVars>>
     \/ /\ part = "norm" /\ Norm!Next
        /\ UNCHANGED <<optionVars, monitorVars, yvars, webVars, udpVars,
                       codecVars>>
     \/ /\ part = "codec" /\ Codec!Next
        /\ UNCHANGED <<optionVars, monitorVars, yvars, webVars, udpVars, normVars>>

AllSpec ==
  AllInit /\ [][AllNext]_<<part, optionVars, monitorVars, yvars, webVars, udpVars,
                            normVars, codecVars>>

-----------------------------------------------------------------------------
(* Options (SocketOptions): what getsockopt returns can be set again, and  *)
(* what is kept beside the options follows them through every sequence of  *)
(* setsockopt: the XPUB policy, the fast-path flag and the copy of the     *)
(* disconnect message.                                                     *)
OptionsConsistent ==
  part = "options" =>
    /\ Options!TypeOK /\ Options!IntsRestore
    /\ Options!PolicyConsistent /\ Options!FastPathUnlimited
    /\ Options!DisconnectMsgAgrees

(* The monitor (SocketMonitor): through every replacement and failure the  *)
(* name bound for a monitor is the present monitor's and bound by the      *)
(* monitored socket, and a listener finds whole events, of its version.    *)
MonitorConsistent ==
  part = "monitor" =>
    /\ Monitors!TypeOK
    /\ Monitors!NoOrphanedName /\ Monitors!MonitorOwnsName
    /\ Monitors!EventsAreWhole /\ Monitors!VersionRespected

(* WebSocket: through binds, connects and disconnects in every order, what *)
(* a side reads next is what its flags make it expect, it masks as its end *)
(* must, frames arrive once and in order, none missing, and a listening    *)
(* socket never mixes the frames of two connections.                       *)
WebStreamSound ==
  /\ [](part = "web" =>
          /\ Web!TypeOK
          /\ Web!StreamAligned /\ Web!RolesMatchEnds /\ Web!NothingMissing)
  /\ Web!OneStreamPerBind

(* UDP (UdpDatagram): a bound DGRAM socket answers only a peer it has      *)
(* heard through this binding, a connected one sends to its endpoint only. *)
DatagramsAddressed ==
  part = "udp" =>
    Udp!TypeOK /\ Udp!AnswersWhoItHeard /\ Udp!KeepsToItsPeer

(* NORM (NormSession): sessions are destroyed before their instances, and  *)
(* the SUB application gets what it wants of what NORM handed over.        *)
NormSound ==
  part = "norm" =>
    Norm!TypeOK /\ Norm!SessionsDieFirst /\ Norm!WantedAreDelivered

(* Formats (ZmtpCodec): frames come off a stream as they were put on it,   *)
(* metadata is read back or refused when it was cut within a property or   *)
(* when a name was cut within a character, and Z85 accepts exactly what it *)
(* produces.                                                               *)
ReadsBack ==
  part = "codec" =>
    /\ Codec!TypeOK
    /\ Codec!FramesReadBack /\ Codec!MetadataReadsBack /\ Codec!Z85Canonical
=============================================================================
