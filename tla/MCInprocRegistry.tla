------------------------- MODULE MCInprocRegistry -------------------------
(***************************************************************************)
(* Servers that compete for names and one client.  Any of them may         *)
(* bind and connect; the servers are the pair of sockets that cannot talk  *)
(* to each other.                                                          *)
(***************************************************************************)
EXTENDS InprocRegistry, TLC

CONSTANT c1

MCSockType == [s \in Socket |-> IF s = c1 THEN "Client" ELSE "Server"]

(* The servers are interchangeable, and so are the names. *)
Alike == Permutations(Socket \ {c1}) \cup Permutations(Name)
=============================================================================
