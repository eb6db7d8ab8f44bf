----------------------------- MODULE MCVmBackup -----------------------------
(***************************************************************************)
(* Small instances of VmBackup.                                             *)
(***************************************************************************)
EXTENDS VmBackup

Layout(freeze, thaw, n, other) ==
    [legacyFreeze |-> freeze, legacyThaw |-> thaw, regular |-> n, other |-> other]

\* Installations the script walk handles: no list, regular scripts, a legacy pair.
PlainLayouts == {Layout(FALSE, FALSE, 0, FALSE), Layout(FALSE, FALSE, 2, FALSE),
                 Layout(TRUE, TRUE, 1, FALSE), Layout(FALSE, TRUE, 1, TRUE)}

\* All failures the error paths handle.
HandledFaults == {"execFreeze", "execThaw", "script", "send", "submit"}

\* Aborts once the scripts and the file systems are frozen, not while they are.
LateAborts == MStates \ {"SCRIPT_FREEZE", "SYNC_FREEZE_WAIT"}

\* Installations that exist, but that the script walk does not expect: a
\* legacy freeze script without its counterpart, only a legacy thaw script, only subdirectories.
LegacyFreezeOnly == {Layout(TRUE, FALSE, 1, FALSE)}
LegacyThawOnly == {Layout(FALSE, TRUE, 0, FALSE)}
DirectoriesOnly == {Layout(FALSE, FALSE, 0, TRUE)}
OddLayouts == LegacyFreezeOnly \cup LegacyThawOnly \cup DirectoriesOnly
NoScripts == {Layout(FALSE, FALSE, 0, FALSE)}
=============================================================================
