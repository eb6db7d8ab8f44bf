------------------------------ MODULE MCVSock ------------------------------
(***************************************************************************)
(* Instance of VSock for TLC.                                               *)
(***************************************************************************)
EXTENDS VSock
=============================================================================
