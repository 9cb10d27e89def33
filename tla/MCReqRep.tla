------------------------------ MODULE MCReqRep ------------------------------
(***************************************************************************)
(* Two REQ sockets at one REP.                                             *)
(***************************************************************************)
EXTENDS ReqRep
=============================================================================
