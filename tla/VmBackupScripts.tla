-------------------------- MODULE VmBackupScripts --------------------------
(***************************************************************************)
(* The custom quiesce scripts of the vmbackup plugin (scriptOps.c): the     *)
(* list of scripts built when freezing, walked upwards to freeze and        *)
(* downwards to thaw (or to report a failed freeze).  This module owns the  *)
(* part of VmBackupState that scriptOps.c works on; VmBackup composes it    *)
(* with the state machine, which is the only caller.                        *)
(*                                                                          *)
(* A script list has slots 0 .. NumPaths - 1 and a NULL terminator at slot  *)
(* NumPaths.  Slot 0 is reserved for the legacy script when either legacy   *)
(* file exists: its path is the legacy freeze script until the first thaw   *)
(* or fail operation renames it to the legacy thaw script.                  *)
(***************************************************************************)
EXTENDS Integers, FiniteSets

CONSTANTS
    Layouts,      \* the script installations a backup may find
    MaxScripts,   \* bound on the number of slots of a list
    Faults        \* the calls that may fail, a subset of AllFaults

AllFaults == {"installPath", "execFreeze", "execThaw", "execFail", "script",
              "send", "submit", "thaw"}

(***************************************************************************)
(* What is installed: the two legacy scripts, a number of regular files in  *)
(* backupScripts.d, and whether that directory also has entries that are    *)
(* not regular files.                                                       *)
(***************************************************************************)
LayoutType == [legacyFreeze : BOOLEAN, legacyThaw : BOOLEAN,
               regular : 0 .. MaxScripts, other : BOOLEAN]

Legacy(l) == l.legacyFreeze \/ l.legacyThaw

NumPaths(l) == l.regular + (IF Legacy(l) THEN 1 ELSE 0)

\* numFiles + legacy > 0: a list is allocated even if it ends up without paths.
HasList(l) == Legacy(l) \/ l.regular > 0 \/ l.other

ASSUME ScriptsAssumption ==
    /\ MaxScripts \in Nat
    /\ Layouts \subseteq LayoutType
    /\ \A l \in Layouts : NumPaths(l) <= MaxScripts
    /\ Faults \subseteq AllFaults

Slots == 0 .. MaxScripts
ScriptTypes == {"FREEZE", "FREEZE_FAIL", "THAW"}
ProcStates == {"none", "running", "ok", "failed"}
NoProcs == [i \in Slots |-> "none"]

VARIABLES
    layout,         \* the installation found by this backup
    scripts,        \* state->scripts # NULL
    currentScript,  \* state->currentScript
    proc,           \* scripts[i].proc
    renamed,        \* slot 0 has been renamed to the legacy thaw script
    opType,         \* type of the script operation created last
    thawFailed,     \* op->thawFailed
    freezeDone,     \* history: slots whose freeze script exited with 0
    undone          \* history: slots whose thaw or fail script was tried

scriptVars == <<layout, scripts, currentScript, proc, renamed, opType,
                thawFailed, freezeDone, undone>>

ScriptsTypeOK ==
    /\ layout \in Layouts
    /\ scripts \in BOOLEAN
    /\ currentScript \in -1 .. MaxScripts
    /\ proc \in [Slots -> ProcStates]
    /\ renamed \in BOOLEAN
    /\ opType \in ScriptTypes
    /\ thawFailed \in BOOLEAN
    /\ freezeDone \subseteq Slots
    /\ undone \subseteq Slots

ScriptsInit ==
    /\ layout \in Layouts
    /\ scripts = FALSE
    /\ currentScript = 0
    /\ proc = NoProcs
    /\ renamed = FALSE
    /\ opType = "FREEZE"
    /\ thawFailed = FALSE
    /\ freezeDone = {}
    /\ undone = {}

(***************************************************************************)
(* File_IsFile(scripts[i].path)                                             *)
(***************************************************************************)
IsFile(l, r, i) ==
    IF i = 0 /\ Legacy(l)
    THEN IF r THEN l.legacyThaw ELSE l.legacyFreeze
    ELSE i \in 0 .. NumPaths(l) - 1

\* Where the upward walk stops: the terminating entry.
EndOfList(l) == NumPaths(l)

(***************************************************************************)
(* VmBackupRunNextScript, as the set of its outcomes.  An outcome has the   *)
(* new index, the new processes, whether some script failed to start, the   *)
(* slots tried and the return value: 1 a script was started, 0 no more      *)
(* scripts, -1 error.                                                       *)
(***************************************************************************)
RunForward(l, r, p, from) ==
    LET up == {i \in Slots : from < i /\ IsFile(l, r, i)}
        first == {i \in up : \A k \in up : i <= k}
        started == {[cur |-> i, proc |-> [p EXCEPT ![i] = "running"],
                     failed |-> FALSE, tried |-> {i}, ret |-> 1] : i \in first}
        refused == {[cur |-> i, proc |-> [p EXCEPT ![i] = "none"],
                     failed |-> FALSE, tried |-> {i}, ret |-> -1] : i \in first}
    IN  IF up = {}
        THEN {[cur |-> EndOfList(l), proc |-> p, failed |-> FALSE, tried |-> {}, ret |-> 0]}
        ELSE started \cup (IF "execFreeze" \in Faults THEN refused ELSE {})

\* The downward walk starts below the current slot.
BelowSkipping(l, r, from) == {i \in Slots : i < from - 1 /\ IsFile(l, r, i)}
Below(l, r, from) == {i \in Slots : i < from /\ IsFile(l, r, i)}

\* The walk entered its loop, fell off the list, and the first entry that can
\* run has no process: "all thaw/fail scripts failed to start".
AllFailedAnyWalk(l, r, p, from) ==
    LET failIdx == IF IsFile(l, r, 0) THEN 0 ELSE 1
    IN  failIdx < NumPaths(l) /\ p[failIdx] = "none"

AllFailed(l, r, p, from) ==
    LET failIdx == IF IsFile(l, r, 0) THEN 0 ELSE 1
    IN  from > 0 /\ failIdx < NumPaths(l) /\ p[failIdx] = "none"

(***************************************************************************)
(* Downwards, a script that does not start is skipped and remembered.       *)
(***************************************************************************)
RunBackward(l, r, p, from, fault) ==
    LET down == Below(l, r, from)
        Skip(S) == [i \in Slots |-> IF i \in S THEN "none" ELSE p[i]]
        started == {[cur |-> i, proc |-> [Skip({j \in down : j > i}) EXCEPT ![i] = "running"],
                     failed |-> {j \in down : j > i} # {},
                     tried |-> {j \in down : j >= i}, ret |-> 1] :
                       i \in {j \in down : fault \in Faults \/ \A k \in down : k <= j}}
        fellOff == [cur |-> -1, proc |-> Skip(down), failed |-> down # {},
                    tried |-> down,
                    ret |-> IF AllFailed(l, r, Skip(down), from) THEN -1 ELSE 0]
    IN  started \cup (IF down = {} \/ fault \in Faults THEN {fellOff} ELSE {})

RunNextScript(type, l, r, p, from) ==
    CASE type = "FREEZE"      -> RunForward(l, r, p, from)
      [] type = "THAW"        -> RunBackward(l, r, p, from, "execThaw")
      [] type = "FREEZE_FAIL" -> RunBackward(l, r, p, from, "execFail")

-----------------------------------------------------------------------------
(***************************************************************************)
(* VmBackupScriptOpRelease: the list survives the freeze operation, and is  *)
(* freed with the thaw or fail operation.                                   *)
(***************************************************************************)
FreeScripts ==
    /\ scripts' = FALSE
    /\ currentScript' = 0
    /\ proc' = NoProcs

ScriptOpRelease(type) ==
    IF type = "FREEZE"
    THEN UNCHANGED <<scripts, currentScript, proc>>
    ELSE FreeScripts

(***************************************************************************)
(* VmBackup_NewScriptOp(FREEZE): builds the list and starts the first       *)
(* script.  `ok' tells whether an operation is returned.                    *)
(***************************************************************************)
NewFreezeOp(l, ok) ==
    /\ layout' = l
    /\ opType' = "FREEZE"
    /\ thawFailed' = FALSE
    /\ renamed' = FALSE
    /\ freezeDone' = {}
    /\ undone' = {}
    /\ IF HasList(l)
       THEN \E o \in RunNextScript("FREEZE", l, FALSE, NoProcs, -1) :
               /\ ok = (o.ret # -1)
               /\ scripts' = TRUE
               /\ currentScript' = o.cur
               /\ proc' = o.proc
       ELSE /\ ok = TRUE
            /\ scripts' = FALSE
            /\ currentScript' = 0
            /\ proc' = NoProcs

(***************************************************************************)
(* VmBackup_NewScriptOp(THAW or FREEZE_FAIL) on an existing list.  The      *)
(* comparison strcmp(scripts[0].path, ...) needs a first path: a list       *)
(* without any is a NULL dereference, see BadList.                          *)
(***************************************************************************)
BadList == scripts /\ NumPaths(layout) = 0

NewUndoOp(type, ok) ==
    /\ ~BadList
    /\ opType' = type
    /\ UNCHANGED <<layout, freezeDone>>
    /\ IF scripts
       THEN /\ renamed' = Legacy(layout)
            /\ \E o \in RunNextScript(type, layout, renamed', proc, currentScript) :
                  /\ ok = (o.ret # -1)
                  /\ thawFailed' = o.failed
                  /\ undone' = undone \cup o.tried
                  /\ IF ok
                     THEN /\ scripts' = TRUE
                          /\ currentScript' = o.cur
                          /\ proc' = o.proc
                     ELSE FreeScripts
       ELSE /\ ok = TRUE
            /\ thawFailed' = FALSE
            /\ UNCHANGED <<renamed, undone, scripts, currentScript, proc>>

\* A new backup state that does not run scripts.
NoScriptsWanted ==
    /\ FreeScripts
    /\ UNCHANGED <<layout, renamed, opType, thawFailed, freezeDone, undone>>

\* scriptDir == NULL: no operation, nothing changed.
NoScriptDir == "installPath" \in Faults /\ UNCHANGED scriptVars

(***************************************************************************)
(* VmBackupScriptOpQuery followed by what VmBackupPostProcessCurrentOp does *)
(* with the operation: `status' is PENDING, or the operation is released    *)
(* with FINISHED or ERROR.  Query never sees a cancelled operation, because *)
(* both callers of Cancel release the operation at once.                    *)
(***************************************************************************)
CurrentProc == IF scripts /\ currentScript \in Slots THEN proc[currentScript] ELSE "none"

ScriptOpQuery(status) ==
    /\ UNCHANGED <<layout, renamed, opType, freezeDone>>
    /\ IF CurrentProc = "none"
       THEN /\ status = "FINISHED"
            /\ ScriptOpRelease(opType)
            /\ UNCHANGED <<thawFailed, undone>>
       ELSE IF CurrentProc = "running"
       THEN /\ status = "PENDING"
            /\ UNCHANGED <<scripts, currentScript, proc, thawFailed, undone>>
       ELSE LET reaped == [proc EXCEPT ![currentScript] = "none"]
                failed == CurrentProc = "failed"
            IN  IF failed /\ opType = "FREEZE"
                THEN /\ status = "ERROR"
                     /\ proc' = reaped
                     /\ UNCHANGED <<scripts, currentScript, thawFailed, undone>>
                ELSE \E o \in RunNextScript(opType, layout, renamed, reaped, currentScript) :
                       /\ thawFailed' = (thawFailed \/ o.failed \/ (failed /\ opType = "THAW"))
                       /\ undone' = IF opType = "FREEZE" THEN undone ELSE undone \cup o.tried
                       /\ status = CASE o.ret = 1  -> "PENDING"
                                     [] o.ret = 0  -> IF thawFailed' THEN "ERROR" ELSE "FINISHED"
                                     [] o.ret = -1 -> "ERROR"
                       /\ IF status = "PENDING" \/ opType = "FREEZE"
                          THEN /\ scripts' = TRUE
                               /\ currentScript' = o.cur
                               /\ proc' = o.proc
                          ELSE FreeScripts

(***************************************************************************)
(* VmBackupScriptOpCancel followed by VmBackup_Release, as both its callers *)
(* do.  With a list it kills the process of the current slot, which must    *)
(* exist: see CancelCrashes.                                                *)
(***************************************************************************)
CancelCrashes == scripts /\ CurrentProc = "none"

ScriptOpCancelRelease ==
    /\ ~CancelCrashes
    /\ UNCHANGED <<layout, renamed, opType, thawFailed, freezeDone, undone>>
    /\ IF opType = "FREEZE"
       THEN /\ proc' = IF CurrentProc = "running"
                       THEN [proc EXCEPT ![currentScript] = "failed"] ELSE proc
            /\ UNCHANGED <<scripts, currentScript>>
       ELSE FreeScripts

(***************************************************************************)
(* The running script exits (the external process).                         *)
(***************************************************************************)
ScriptExits ==
    \E i \in Slots, res \in {"ok"} \cup (IF "script" \in Faults THEN {"failed"} ELSE {}) :
       /\ proc[i] = "running"
       /\ proc' = [proc EXCEPT ![i] = res]
       /\ freezeDone' = IF res = "ok" /\ opType = "FREEZE"
                        THEN freezeDone \cup {i} ELSE freezeDone
       /\ UNCHANGED <<layout, scripts, currentScript, renamed, opType,
                      thawFailed, undone>>
=============================================================================
