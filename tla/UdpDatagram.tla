---------------------------- MODULE UdpDatagram -----------------------------
(***************************************************************************)
(* The udp:// transport of DGRAM sockets in libzmq-core/src/socket.rs      *)
(* (bind_udp, unbind_udp, connect_udp, disconnect_udp, send_udp_datagram,  *)
(* recv_udp_datagram).  A socket that is bound has no peer of its own: it  *)
(* answers last_peer, whoever sent the datagram it received last.  A       *)
(* socket that is connected sends to its endpoint.                         *)
(*                                                                         *)
(* The network loses, repeats and reorders datagrams.  connect_udp opens a *)
(* kernel socket first and connects it later, outside the lock: until then *)
(* the kernel lets anybody's datagrams in.  The multicast options are the  *)
(* kernel's affair and left out.                                           *)
(***************************************************************************)
EXTENDS Naturals, Sequences, FiniteSets

CONSTANTS
  UdpSockets,  \* the DGRAM sockets
  Ports,       \* the addresses
  NoPort,      \* stands for None
  MaxFlight,   \* bound on the datagrams under way
  MaxQueued    \* bound on what the kernel keeps for a socket

VARIABLES
  udp,      \* UdpState of each socket
  opening,  \* the port of the kernel socket that connect_udp has opened
  heard,    \* history: who sent the last datagram received through udp[s].port
  flight,   \* the datagrams under way
  queued    \* the kernel's queue of each port

uvars == <<udp, opening, heard, flight, queued>>

OptPort == Ports \cup {NoPort}

(* connected is connected_endpoint, last last_peer, port the socket's own. *)
UdpState == [port : OptPort, bound : BOOLEAN, connected : OptPort,
             last : OptPort]

(* by is who sent it: a bound or a connected socket; about is what its     *)
(* sender had in mind: who it heard last, or its endpoint.                 *)
Datagram == [from : Ports, to : Ports, by : {"bound", "connected"},
             about : OptPort]

TypeOK ==
  /\ udp \in [UdpSockets -> UdpState]
  /\ opening \in [UdpSockets -> OptPort]
  /\ heard \in [UdpSockets -> OptPort]
  /\ flight \subseteq Datagram
  /\ queued \in [Ports -> Seq(Datagram)]

Closed == [port |-> NoPort, bound |-> FALSE, connected |-> NoPort,
           last |-> NoPort]

Init ==
  /\ udp = [s \in UdpSockets |-> Closed]
  /\ opening = [s \in UdpSockets |-> NoPort]
  /\ heard = [s \in UdpSockets |-> NoPort]
  /\ flight = {}
  /\ queued = [p \in Ports |-> <<>>]

Free(p) == \A s \in UdpSockets : udp[s].port # p /\ opening[s] # p

(* The kernel's queues once s has dropped its socket. *)
Dropped(s) == [p \in Ports |-> IF p = udp[s].port THEN <<>> ELSE queued[p]]

-----------------------------------------------------------------------------
(* Mutant: the peer of the binding before stays. *)
AfterBindKeeping(s, p) ==
  [port |-> p, bound |-> TRUE, connected |-> NoPort, last |-> udp[s].last]

AfterBind(s, p) ==
  [port |-> p, bound |-> TRUE, connected |-> NoPort, last |-> NoPort]

(* The new socket is bound before the old one is dropped. *)
Bind(s, p) ==
  /\ Free(p)
  /\ udp' = [udp EXCEPT ![s] = AfterBind(s, p)]
  /\ heard' = [heard EXCEPT ![s] = NoPort]
  /\ queued' = Dropped(s)
  /\ UNCHANGED <<opening, flight>>

(* What unbind_udp and disconnect_udp do with the state. *)
Close(s) ==
  /\ udp' = [udp EXCEPT ![s] = Closed]
  /\ heard' = [heard EXCEPT ![s] = NoPort]
  /\ queued' = Dropped(s)
  /\ UNCHANGED <<opening, flight>>

Unbind(s) == udp[s].bound /\ Close(s)

Disconnect(s) == udp[s].connected # NoPort /\ Close(s)

(* connect_udp: the kernel socket, on a port of the kernel's choice. *)
Open(s, p) ==
  /\ opening[s] = NoPort
  /\ Free(p)
  /\ opening' = [opening EXCEPT ![s] = p]
  /\ UNCHANGED <<udp, heard, flight, queued>>

(* connect_udp: the rest. *)
Connect(s, q) ==
  /\ opening[s] \notin {NoPort, q}
  /\ udp' = [udp EXCEPT ![s] = [port |-> opening[s], bound |-> FALSE,
                                connected |-> q, last |-> NoPort]]
  /\ opening' = [opening EXCEPT ![s] = NoPort]
  /\ heard' = [heard EXCEPT ![s] = NoPort]
  /\ queued' = Dropped(s)
  /\ UNCHANGED flight

(* Where send_udp_datagram sends to. *)
Destination(s) ==
  IF udp[s].connected # NoPort THEN udp[s].connected ELSE udp[s].last

(* Without a destination the call returns EAGAIN. *)
Send(s) ==
  LET d == [from |-> udp[s].port, to |-> Destination(s),
            by |-> IF udp[s].bound THEN "bound" ELSE "connected",
            about |-> IF udp[s].bound THEN heard[s] ELSE udp[s].connected] IN
  /\ udp[s].port # NoPort
  /\ Destination(s) # NoPort
  /\ Cardinality(flight \cup {d}) <= MaxFlight
  /\ flight' = flight \cup {d}
  /\ UNCHANGED <<udp, opening, heard, queued>>

Recv(s) ==
  LET p == udp[s].port IN
  /\ p # NoPort
  /\ queued[p] # <<>>
  /\ udp' = [udp EXCEPT ![s].last = Head(queued[p]).from]
  /\ heard' = [heard EXCEPT ![s] = Head(queued[p]).from]
  /\ queued' = [queued EXCEPT ![p] = Tail(@)]
  /\ UNCHANGED <<opening, flight>>

-----------------------------------------------------------------------------
(* The network: a datagram arrives, and may arrive again, or is lost. *)

(* Whether the kernel takes d for the socket that has d.to. *)
LetsIn(d) ==
  \E s \in UdpSockets :
    \/ opening[s] = d.to
    \/ udp[s].port = d.to /\ udp[s].connected \in {NoPort, d.from}

Arrive(d) ==
  /\ LetsIn(d)
  /\ Len(queued[d.to]) < MaxQueued
  /\ queued' = [queued EXCEPT ![d.to] = Append(@, d)]
  /\ UNCHANGED <<udp, opening, heard, flight>>

Lose(d) ==
  /\ flight' = flight \ {d}
  /\ UNCHANGED <<udp, opening, heard, queued>>

Next ==
  \/ \E s \in UdpSockets :
       \/ Unbind(s) \/ Disconnect(s) \/ Send(s) \/ Recv(s)
       \/ \E p \in Ports : Bind(s, p) \/ Open(s, p) \/ Connect(s, p)
  \/ \E d \in flight : Arrive(d) \/ Lose(d)

Spec == Init /\ [][Next]_uvars

-----------------------------------------------------------------------------
Everywhere == flight \cup UNION {{queued[p][i] : i \in DOMAIN queued[p]} : p \in Ports}

(* A bound socket answers only a peer it has heard through the present     *)
(* binding, and the latest one: no address survives an unbind, another     *)
(* bind or a connect (last_peer in bind_udp, recv_udp_datagram,            *)
(* send_udp_datagram).                                                     *)
AnswersWhoItHeard ==
  \A d \in Everywhere : d.by = "bound" => d.to = d.about

(* A connected socket sends to its endpoint, also after it has received a  *)
(* stranger's datagram that came in between the opening and the connecting *)
(* of its kernel socket (connect_udp, send_udp_datagram).                  *)
KeepsToItsPeer ==
  \A d \in Everywhere : d.by = "connected" => d.to = d.about
=============================================================================
