------------------------------ MODULE MCVMBlock ------------------------------
(***************************************************************************)
(* Instances of VMBlock for TLC.                                            *)
(***************************************************************************)
EXTENDS VMBlock, TLC

CONSTANTS t1, t2, t3, f1, f2, o1, o2, b1, b2, b3
=============================================================================
