------------------------------- MODULE Quiesce -------------------------------
(***************************************************************************)
(* What a quiesced-snapshot agent promises to the host and to the guest,    *)
(* without scripts, timers, threads or handles.  A backup freezes, tells    *)
(* the host to take the snapshot (commit), and thaws; it may only end       *)
(* thawed, and a commit the host holds stands for a guest that has not      *)
(* begun to thaw.  VmBackup is shown to implement this specification.       *)
(***************************************************************************)

VARIABLES
    phase,    \* "idle", "freezing", "committed", "thawing"
    fs        \* file systems are frozen

qvars == <<phase, fs>>

QTypeOK ==
    /\ phase \in {"idle", "freezing", "committed", "thawing"}
    /\ fs \in BOOLEAN

Init == phase = "idle" /\ fs = FALSE

Begin == phase = "idle" /\ phase' = "freezing" /\ UNCHANGED fs

Freeze == phase = "freezing" /\ fs' = TRUE /\ UNCHANGED phase

\* A freeze that turns out useless is undone before it is given up.
Unfreeze == phase = "freezing" /\ fs' = FALSE /\ UNCHANGED phase

Commit == phase = "freezing" /\ phase' = "committed" /\ UNCHANGED fs

\* snapshotDone from the host, or an abort.
Thaw == phase = "committed" /\ phase' = "thawing" /\ fs' = FALSE

GiveUp == phase = "freezing" /\ ~fs /\ phase' = "thawing" /\ UNCHANGED fs

End == phase = "thawing" /\ phase' = "idle" /\ UNCHANGED fs

Next == Begin \/ Freeze \/ Unfreeze \/ Commit \/ Thaw \/ GiveUp \/ End

Spec == Init /\ [][Next]_qvars
=============================================================================
