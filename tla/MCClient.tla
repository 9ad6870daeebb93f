------------------------------ MODULE MCClient ------------------------------
(***************************************************************************)
(* A small instance of a tab and its server.                               *)
(***************************************************************************)
EXTENDS ClientSafety
=============================================================================
