----------------------------- MODULE MCTcpStream -----------------------------
(***************************************************************************)
(* One client and one server, over TCP and over IPC.                       *)
(***************************************************************************)
EXTENDS TcpStream, TLC

Home == CHOOSE e \in Endpoint : TRUE

Quiet == [ipc |-> FALSE, at |-> {Home}, hello |-> {}, notice |-> {}, leaves |-> {},
          again |-> {}, msgs |-> 2]

(* Nobody leaves; TCP with a hello of the client, IPC with one of the server. *)
Staying == {[Quiet EXCEPT !.hello = {Client}],
            [Quiet EXCEPT !.hello = {Server}, !.ipc = TRUE]}

(* Everybody leaves, and one has a hello message and a notice. *)
Leaving == {[Quiet EXCEPT !.ipc = i, !.hello = {x}, !.notice = {x}, !.leaves = End, !.msgs = 1] :
              i \in BOOLEAN, x \in End}

(* The server binds when it is bound, the client connects when it is connected. *)
Again == {[Quiet EXCEPT !.ipc = i, !.at = Endpoint, !.hello = {Server}, !.again = End,
                        !.msgs = 1] : i \in BOOLEAN}

Working == Staying \cup Leaving \cup Again

(* The server unbinds and binds again. *)
Restarting == {[Quiet EXCEPT !.leaves = {Server}, !.msgs = 1]}
=============================================================================
