------------------------------ MODULE MCVmSync ------------------------------
(***************************************************************************)
(* Instances of VmSync for TLC.                                             *)
(***************************************************************************)
EXTENDS VmSync, TLC

CONSTANTS c1, c2, f1, f2, d1, d2

\* "a" and "b" are on block devices, "proc" is not, "gone" does not exist.
Where == [p \in {"a", "b", "proc", "gone"} |->
            CASE p = "a" -> d1 [] p = "b" -> d2 [] p = "proc" -> NoDevice [] p = "gone" -> NoPath]
Lists == {<<"a", "b">>, <<"proc", "gone">>}
OnePath == {<<"a">>}

\* Callers are interchangeable, and so are files: the first SYNC_IOC_FREEZE is c1's and for f1.
\* (TLC's symmetry sets are not for liveness.)
FirstFreeze == calls = 0 /\ calls' = 1 => pc'[c1] = "freezeLock" /\ fd'[c1] = f1
MCFairSpec == Init /\ [][Next /\ FirstFreeze]_vars /\ Fairness
=============================================================================
