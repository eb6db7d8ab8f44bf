---------------------------- MODULE MCThreadPool ----------------------------
(***************************************************************************)
(* Instances of ThreadPool for TLC.                                         *)
(***************************************************************************)
EXTENDS ThreadPool, TLC

CONSTANTS t1, t2, t3, d1, d2

TwoTasks == {t1, t2}
ThreeTasks == {t1, t2, t3}
TwoDedicated == {d1, d2}
OneDedicated == {d1}
NoDedicated == {}
Symmetry == Permutations(ThreeTasks) \cup Permutations(TwoDedicated)
=============================================================================
