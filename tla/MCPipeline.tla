----------------------------- MODULE MCPipeline -----------------------------
(***************************************************************************)
(* Setups with up to three PULL sockets at one PUSH, and with two PUSH     *)
(* sockets at one PULL.                                                    *)
(***************************************************************************)
EXTENDS Pipeline, TLC

CONSTANTS p1, p2, q1, q2, q3

(* One PUSH, never tuned, and two PULL sockets, which do not leave. *)
Basic ==
  [push |-> {p1}, pull |-> {q1, q2}, pushBinds |-> TRUE, tuned |-> FALSE,
   conflate |-> FALSE, hwm |-> 2, parts |-> 1, polls |-> FALSE,
   leaves |-> FALSE, diligent |-> {}]

(* Three PULL sockets that come and go. *)
Crowd == [Basic EXCEPT !.pull = {q1, q2, q3}, !.leaves = TRUE]

(* One of two PULL sockets has stopped receiving. *)
Stalled == [Basic EXCEPT !.tuned = TRUE, !.diligent = {q2}]

(* Nobody receives, but the PUSH conflates. *)
Newest == [Basic EXCEPT !.tuned = TRUE, !.conflate = TRUE, !.hwm = 1]

(* Two PUSH sockets fill one queue with messages of one or two frames. *)
FanIn ==
  [Basic EXCEPT !.push = {p1, p2}, !.pull = {q1}, !.pushBinds = FALSE,
                !.tuned = TRUE, !.hwm = 3, !.parts = 2, !.diligent = {q1}]

(* Long messages from one PUSH, which polls, to one PULL, which leaves. *)
OneToOne ==
  [Basic EXCEPT !.pull = {q1}, !.tuned = TRUE, !.hwm = 3, !.parts = 3,
                !.polls = TRUE, !.leaves = TRUE]

Working == {Crowd, Stalled, Newest, FanIn, OneToOne}

(* Two-frame messages to two PULL sockets. *)
TwoFrames == {[Basic EXCEPT !.parts = 2]}
=============================================================================
