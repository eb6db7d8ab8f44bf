------------------------------ MODULE VmBackup ------------------------------
(***************************************************************************)
(* The quiesced-snapshot state machine of vmtoolsd on Linux: the vmbackup   *)
(* plugin (stateMachine.c) with its sync providers (syncDriverOps.c,        *)
(* nullProvider.c), composed with the script operations (VmBackupScripts).  *)
(*                                                                          *)
(* Two kinds of threads run this code.  The main thread dispatches RPCs     *)
(* and timers, one handler at a time; the freeze itself (FIFREEZE can take  *)
(* very long) runs in a thread of the shared pool and publishes its result  *)
(* in the backup state.  `mainPc' is the main thread's place inside a       *)
(* handler: the code releases opLock there, so a pool thread may interleave.*)
(* A pool thread keeps the pointer of the backup state it was submitted     *)
(* with; `session' names the backup states to tell such pointers apart.     *)
(***************************************************************************)
EXTENDS VmBackupScripts

CONSTANTS
    MaxSessions,     \* bound on the backup states that pool threads may point to
    Providers,       \* sync providers a backup may select
    FreezeResults,   \* results SyncDriver_Freeze may have
    AbortStates,     \* machine states in which an abort may arrive
    ShutdownStates,  \* machine states in which the service may be stopped
    Timeout          \* TRUE: a timeout is configured (gBackupState->timeout # 0)

MStates == {"IDLE", "SCRIPT_FREEZE", "SYNC_FREEZE_WAIT", "SYNC_FREEZE",
            "SYNC_THAW", "SCRIPT_THAW", "SCRIPT_ERROR", "SYNC_ERROR"}
Sessions == 1 .. MaxSessions
ProviderKinds == {"syncDriver", "null"}

(***************************************************************************)
(* What SyncDriver_Freeze may do: fail and leave everything thawed; freeze; *)
(* succeed without freezing anything (null driver, or every mount already   *)
(* frozen); or return a true value with an invalid handle (no path found).  *)
(***************************************************************************)
FreezeKinds == {"fail", "freeze", "nothing", "noPaths"}

ASSUME VmBackupAssumption ==
    /\ MaxSessions \in Nat \ {0}
    /\ Providers \subseteq ProviderKinds
    /\ FreezeResults \subseteq FreezeKinds
    /\ AbortStates \subseteq MStates
    /\ ShutdownStates \subseteq MStates
    /\ Timeout \in BOOLEAN

VARIABLES
    session,       \* name of the current (or last) backup state, 0 before the first
    active,        \* gBackupState # NULL
    machineState, freezeStatus, provider, execScripts,   \* fields of it
    currentOp,     \* kind of the operation in currentOp, and its handle cell
    callback,      \* gBackupState->callback
    clientData,    \* the handle cell gBackupState->clientData points to, or 0
    timerEvent, abortTimer, keepAlive,   \* these sources are attached
    mainPc,        \* place of the main thread
    caller,        \* handler that called VmBackupOnError
    worker,        \* per session: place of the pool thread running start()
    cell,          \* per session: the SyncDriverHandle cell of the freeze op
    frozen,        \* some file system is frozen
    ioFrozen,      \* argument of the last IO_FREEZE signal
    committed      \* the host holds an unanswered snapshot-commit event

vmVars == <<session, active, machineState, freezeStatus, provider, execScripts,
            currentOp, callback, clientData, timerEvent, abortTimer, keepAlive,
            mainPc, caller, worker, cell, frozen, ioFrozen, committed>>
vars == <<vmVars, scriptVars>>

NoOp == [kind |-> "none", cell |-> 0]
OpType == [kind : {"none", "script", "freeze", "thaw", "null"}, cell : 0 .. MaxSessions]
Callbacks == {"none", "SyncDriverReady", "NullReady"}
CellStates == {"unused", "invalid", "frozen", "empty", "freed"}
WorkerPcs == {"none", "queued", "queuedNull", "freezing", "publish", "setOp", "setNoOp"}
MainPcs == {"loop", "abortThaw", "switch", "onError", "exit", "crashed", "stopped"}

VmTypeOK ==
    /\ session \in 0 .. MaxSessions
    /\ active \in BOOLEAN
    /\ machineState \in MStates
    /\ freezeStatus \in {"PENDING", "FINISHED", "ERROR"}
    /\ provider \in ProviderKinds
    /\ execScripts \in BOOLEAN
    /\ currentOp \in OpType
    /\ callback \in Callbacks
    /\ clientData \in 0 .. MaxSessions
    /\ timerEvent \in BOOLEAN /\ abortTimer \in BOOLEAN /\ keepAlive \in BOOLEAN
    /\ mainPc \in MainPcs
    /\ caller \in {"poll", "rpc"}
    /\ worker \in [Sessions -> WorkerPcs]
    /\ cell \in [Sessions -> CellStates]
    /\ frozen \in BOOLEAN /\ ioFrozen \in BOOLEAN /\ committed \in BOOLEAN

(***************************************************************************)
(* Type correctness of the whole backup state.                              *)
(***************************************************************************)
TypeOK == VmTypeOK /\ ScriptsTypeOK

Init ==
    /\ session = 0 /\ active = FALSE
    /\ machineState = "IDLE" /\ freezeStatus = "FINISHED"
    /\ provider = "null" /\ execScripts = FALSE
    /\ currentOp = NoOp /\ callback = "none" /\ clientData = 0
    /\ timerEvent = FALSE /\ abortTimer = FALSE /\ keepAlive = FALSE
    /\ mainPc = "loop" /\ caller = "poll"
    /\ worker = [s \in Sessions |-> "none"]
    /\ cell = [s \in Sessions |-> "unused"]
    /\ frozen = FALSE /\ ioFrozen = FALSE /\ committed = FALSE
    /\ ScriptsInit

-----------------------------------------------------------------------------
(***************************************************************************)
(* Operations on handles.  SyncDriver_Thaw of a handle that froze nothing   *)
(* changes nothing; a thaw that fails leaves the file systems frozen and    *)
(* still closes the handle.                                                 *)
(***************************************************************************)
ValidHandle(c) == c # 0 /\ cell[c] \in {"frozen", "empty"}
DanglingHandle(c) == c # 0 /\ cell[c] = "freed"

DriverThawNothing(c, ok) == ok /\ c # 0 /\ UNCHANGED frozen

DriverThaw(c, ok) ==
    /\ ok \/ "thaw" \in Faults
    /\ frozen' = (frozen /\ ~(ok /\ cell[c] = "frozen"))

(***************************************************************************)
(* VmBackup_Release(currentOp) for operations other than scripts: only the  *)
(* freeze operation that was never queried still owns its handle cell.      *)
(***************************************************************************)
ReleaseDriverOp ==
    cell' = IF currentOp.kind = "freeze"
            THEN [cell EXCEPT ![currentOp.cell] = "freed"] ELSE cell

(***************************************************************************)
(* VmBackup_Cancel and VmBackup_Release of currentOp.  Cancelling a driver  *)
(* operation only marks it, and it is gone before anybody queries it.       *)
(***************************************************************************)
CancelAndRelease ==
    IF currentOp.kind = "script"
    THEN ScriptOpCancelRelease /\ UNCHANGED cell
    ELSE ReleaseDriverOp /\ UNCHANGED scriptVars

CancelMayCrash == currentOp.kind = "script" /\ CancelCrashes

(***************************************************************************)
(* VmBackupStartScripts(THAW or FREEZE_FAIL); `ok' is its return value.     *)
(***************************************************************************)
StartScripts(type, ok) ==
    IF ~execScripts
    THEN ok = TRUE /\ UNCHANGED <<scriptVars, currentOp, callback>>
    ELSE /\ \/ NewUndoOp(type, ok)
            \/ ok = FALSE /\ NoScriptDir
         /\ currentOp' = IF ok THEN [kind |-> "script", cell |-> 0] ELSE NoOp
         /\ callback' = "none"

StartScriptsCrashes == execScripts /\ BadList

-----------------------------------------------------------------------------
(***************************************************************************)
(* VmBackupStart, VmBackupStartWithOpts and VmBackupStartCommon.  While a   *)
(* backup is active they return an error and change nothing.  The new       *)
(* backup state takes a name no pool thread refers to.                      *)
(***************************************************************************)
StartCommon(s, l, p, exec) ==
    /\ mainPc = "loop" /\ ~active
    /\ worker[s] = "none" /\ \A t \in Sessions : t < s => worker[t] # "none"
    /\ session' = s
    /\ cell' = [cell EXCEPT ![s] = "unused"]
    /\ provider' = p
    /\ execScripts' = exec
    /\ freezeStatus' = "FINISHED"
    /\ callback' = "none" /\ clientData' = 0
    /\ \E ok \in BOOLEAN :
          /\ IF exec
             THEN NewFreezeOp(l, ok) \/ (ok = FALSE /\ NoScriptDir)
             ELSE ok = TRUE /\ NoScriptsWanted
          /\ active' = ok
          /\ machineState' = IF ok THEN "SCRIPT_FREEZE" ELSE "IDLE"
          /\ currentOp' = IF ok /\ exec THEN [kind |-> "script", cell |-> 0] ELSE NoOp
          /\ timerEvent' = ok
          /\ abortTimer' = (ok /\ Timeout)
          /\ keepAlive' = ok
    /\ UNCHANGED <<mainPc, caller, worker, frozen, ioFrozen, committed>>

Start ==
    \E s \in Sessions, l \in Layouts, p \in Providers, exec \in BOOLEAN :
       StartCommon(s, l, p, exec)

DestroySourcesButAbort ==
    timerEvent' = FALSE /\ keepAlive' = FALSE /\ UNCHANGED abortTimer

DestroySources ==
    timerEvent' = FALSE /\ keepAlive' = FALSE /\ abortTimer' = FALSE

(***************************************************************************)
(* VmBackupFinalize: the caller has made sure that cancelling cannot crash. *)
(* The done event re-arms the keep-alive timer, which is then destroyed.    *)
(***************************************************************************)
Finalize ==
    /\ ~CancelMayCrash
    /\ CancelAndRelease
    /\ active' = FALSE
    /\ machineState' = "IDLE"
    /\ currentOp' = NoOp /\ callback' = "none" /\ clientData' = 0
    /\ DestroySources
    /\ committed' = FALSE

(***************************************************************************)
(* The ready-for-snapshot callbacks, run by VmBackupPostProcessCurrentOp    *)
(* under opLock once the operation has finished: they send the              *)
(* snapshot-commit event.  A handle cell that has been freed is read all    *)
(* the same, and may look valid or not.                                     *)
(***************************************************************************)
CommitSent ==
    /\ committed' = TRUE /\ freezeStatus' = "FINISHED" /\ mainPc' = "switch"
    /\ UNCHANGED <<cell, frozen>>

SyncDriverReadyUnchecked == CommitSent

SyncDriverReadyForSnapshot ==
    \/ /\ ValidHandle(clientData) \/ DanglingHandle(clientData)
       /\ CommitSent
    \/ /\ ValidHandle(clientData) /\ "send" \in Faults
       /\ \E ok \in BOOLEAN : DriverThaw(clientData, ok)
       /\ cell' = [cell EXCEPT ![clientData] = "invalid"]
       /\ freezeStatus' = "ERROR" /\ mainPc' = "onError"
       /\ UNCHANGED committed
    \/ /\ ~ValidHandle(clientData)
       /\ freezeStatus' = "ERROR" /\ mainPc' = "switch"
       /\ UNCHANGED <<cell, frozen, committed>>

NullReadyForSnapshot ==
    \/ CommitSent
    \/ /\ "send" \in Faults
       /\ freezeStatus' = "ERROR" /\ mainPc' = "onError"
       /\ UNCHANGED <<cell, frozen, committed>>

RunCallback ==
    /\ callback' = "none"
    /\ CASE callback = "SyncDriverReady" -> SyncDriverReadyForSnapshot
         [] callback = "NullReady"       -> NullReadyForSnapshot
         [] callback = "none"            -> /\ mainPc' = "switch"
                                            /\ UNCHANGED <<cell, frozen, committed, freezeStatus>>

(***************************************************************************)
(* VmBackupAsyncCallback, first part: VmBackupPostProcessCurrentOp under    *)
(* opLock.  forceRequeue only ends the callback loop early, and no callback *)
(* installs another one on Linux, so the loop runs one callback.            *)
(***************************************************************************)
PollStarts ==
    /\ mainPc = "loop" /\ active /\ timerEvent
    /\ timerEvent' = FALSE
    /\ caller' = "poll"
    /\ UNCHANGED <<session, active, machineState, provider, execScripts,
                   clientData, abortTimer, keepAlive, worker, ioFrozen>>

PollPending ==
    /\ PollStarts
    /\ currentOp.kind = "script" /\ ScriptOpQuery("PENDING")
    /\ mainPc' = "exit"
    /\ UNCHANGED <<currentOp, callback, cell, frozen, committed, freezeStatus>>

PollError ==
    /\ PollStarts
    /\ currentOp.kind = "script" /\ ScriptOpQuery("ERROR")
    /\ currentOp' = NoOp
    /\ mainPc' = "onError"
    /\ UNCHANGED <<callback, cell, frozen, committed, freezeStatus>>

PollFinished ==
    /\ PollStarts
    /\ IF currentOp.kind = "script" THEN ScriptOpQuery("FINISHED") ELSE UNCHANGED scriptVars
    /\ currentOp' = NoOp
    /\ RunCallback

-----------------------------------------------------------------------------
(***************************************************************************)
(* VmBackupAsyncCallback, the switch on the machine state.                  *)
(***************************************************************************)
InSwitch(state) ==
    /\ mainPc = "switch" /\ machineState = state
    /\ UNCHANGED <<session, active, provider, execScripts, clientData, timerEvent,
                   abortTimer, keepAlive, caller, cell, frozen, committed>>

EnableSyncWait ==
    /\ InSwitch("SCRIPT_FREEZE")
    /\ freezeStatus' = "PENDING"
    /\ \/ /\ ioFrozen' = TRUE
          /\ worker' = [worker EXCEPT ![session] = IF provider = "null" THEN "queuedNull" ELSE "queued"]
          /\ machineState' = "SYNC_FREEZE_WAIT"
          /\ mainPc' = "exit"
       \/ /\ "submit" \in Faults
          /\ ioFrozen' = FALSE
          /\ mainPc' = "onError"
          /\ UNCHANGED <<worker, machineState>>
    /\ UNCHANGED <<currentOp, callback, scriptVars>>

AfterFreezeWaitEarly == IF freezeStatus # "ERROR" THEN "SYNC_FREEZE" ELSE machineState
AfterFreezeWait == IF freezeStatus = "FINISHED" THEN "SYNC_FREEZE" ELSE machineState

EnableSync ==
    /\ InSwitch("SYNC_FREEZE_WAIT")
    /\ mainPc' = IF freezeStatus = "ERROR" THEN "onError" ELSE "exit"
    /\ ioFrozen' = (ioFrozen /\ freezeStatus # "ERROR")
    /\ machineState' = AfterFreezeWait
    /\ UNCHANGED <<freezeStatus, worker, currentOp, callback, scriptVars>>

StayFrozen ==
    /\ InSwitch("SYNC_FREEZE")
    /\ mainPc' = "exit"
    /\ UNCHANGED <<machineState, freezeStatus, ioFrozen, worker, currentOp, callback, scriptVars>>

StartThawScripts ==
    /\ InSwitch("SYNC_THAW")
    /\ ioFrozen' = FALSE
    /\ \E ok \in BOOLEAN :
          /\ StartScripts("THAW", ok)
          /\ machineState' = IF ok THEN "SCRIPT_THAW" ELSE machineState
          /\ mainPc' = IF ok THEN "exit" ELSE "onError"
    /\ UNCHANGED <<freezeStatus, worker>>

StartFailScripts ==
    /\ InSwitch("SYNC_ERROR")
    /\ \E ok \in BOOLEAN :
          /\ StartScripts("FREEZE_FAIL", ok)
          /\ machineState' = IF ok THEN "SCRIPT_ERROR" ELSE machineState
          /\ mainPc' = IF ok THEN "exit" ELSE "onError"
    /\ UNCHANGED <<freezeStatus, ioFrozen, worker>>

\* EnableCompleteWait without a completer (there is none on Linux), and the
\* end of the error scripts.
BackToIdle ==
    /\ InSwitch("SCRIPT_THAW") \/ InSwitch("SCRIPT_ERROR")
    /\ machineState' = "IDLE"
    /\ mainPc' = "exit"
    /\ UNCHANGED <<freezeStatus, ioFrozen, worker, currentOp, callback, scriptVars>>

(***************************************************************************)
(* VmBackupOnError.  In any other state it calls g_error, which aborts the  *)
(* process.                                                                 *)
(***************************************************************************)
InOnError(states) ==
    /\ mainPc = "onError" /\ machineState \in states
    /\ UNCHANGED <<session, active, freezeStatus, provider, execScripts, clientData,
                   timerEvent, abortTimer, keepAlive, caller, worker, cell, frozen, committed>>

OnErrorRunScripts ==
    /\ InOnError({"SCRIPT_FREEZE", "SYNC_ERROR"})
    /\ \E ok \in BOOLEAN :
          /\ StartScripts("FREEZE_FAIL", ok)
          /\ machineState' = IF ok THEN "SCRIPT_ERROR" ELSE "IDLE"
    /\ mainPc' = "exit"
    /\ UNCHANGED ioFrozen

OnErrorSyncSilent ==
    /\ InOnError({"SYNC_FREEZE_WAIT", "SYNC_FREEZE", "SYNC_THAW"})
    /\ machineState' = "SYNC_ERROR"
    /\ mainPc' = "exit"
    /\ UNCHANGED <<ioFrozen, currentOp, callback, scriptVars>>

OnErrorSync ==
    /\ InOnError({"SYNC_FREEZE_WAIT", "SYNC_FREEZE", "SYNC_THAW"})
    /\ machineState' = "SYNC_ERROR"
    /\ ioFrozen' = FALSE
    /\ mainPc' = "exit"
    /\ UNCHANGED <<currentOp, callback, scriptVars>>

OnErrorThaw ==
    /\ InOnError({"SCRIPT_THAW"})
    /\ machineState' = "IDLE"
    /\ mainPc' = "exit"
    /\ UNCHANGED <<ioFrozen, currentOp, callback, scriptVars>>

\* The poll callback requeues itself; its source was consumed by the dispatch.
RequeueNever == timerEvent
Requeue == timerEvent \/ caller = "poll"

(***************************************************************************)
(* The end of a handler: back in IDLE the backup is finalized; otherwise    *)
(* the poll callback queues its next run, and an RPC just returns.          *)
(***************************************************************************)
Exit ==
    /\ mainPc = "exit"
    /\ mainPc' = "loop"
    /\ IF machineState = "IDLE"
       THEN Finalize
       ELSE /\ timerEvent' = Requeue
            /\ UNCHANGED <<active, machineState, currentOp, callback, clientData,
                           abortTimer, keepAlive, committed, cell, scriptVars>>
    /\ UNCHANGED <<session, freezeStatus, provider, execScripts, caller, worker, frozen, ioFrozen>>

-----------------------------------------------------------------------------
(***************************************************************************)
(* provider->snapshotDone: thaws with the handle of clientData, whose cell  *)
(* is freed, and installs the thaw operation (none if the thaw failed).     *)
(***************************************************************************)
ProviderSnapshotDone(ok) ==
    /\ callback' = "none"
    /\ IF provider = "null"
       THEN /\ ok = TRUE
            /\ currentOp' = [kind |-> "null", cell |-> 0]
            /\ UNCHANGED <<frozen, cell, clientData>>
       ELSE /\ ValidHandle(clientData)
            /\ DriverThaw(clientData, ok)
            /\ currentOp' = IF ok THEN [kind |-> "thaw", cell |-> 0] ELSE NoOp
            /\ cell' = [cell EXCEPT ![clientData] = "freed"]
            /\ clientData' = 0

AcceptsSnapshotDoneEarly == machineState \in {"SYNC_FREEZE_WAIT", "SYNC_FREEZE"}
AcceptsSnapshotDone == machineState = "SYNC_FREEZE"

(***************************************************************************)
(* VmBackupSnapshotDone, accepted in SYNC_FREEZE only.                      *)
(***************************************************************************)
SnapshotDone ==
    /\ mainPc = "loop" /\ active /\ AcceptsSnapshotDone
    /\ committed' = FALSE
    /\ caller' = "rpc"
    /\ \E ok \in BOOLEAN :
          /\ ProviderSnapshotDone(ok)
          /\ machineState' = IF ok THEN "SYNC_THAW" ELSE machineState
          /\ mainPc' = IF ok THEN "loop" ELSE "onError"
    /\ UNCHANGED <<session, active, freezeStatus, provider, execScripts, timerEvent,
                   abortTimer, keepAlive, worker, ioFrozen, scriptVars>>

\* An abort during error handling is ignored, and one while frozen thaws.
AbortIgnoredLess == machineState = "SYNC_ERROR"
AbortIgnored == machineState \in {"SYNC_ERROR", "SCRIPT_ERROR"}

AfterCancelNoThaw == "onError"
AfterCancel == IF machineState = "SYNC_FREEZE" THEN "abortThaw" ELSE "onError"

(***************************************************************************)
(* VmBackupDoAbort up to its call of VmBackupOnError, run by the            *)
(* vmbackup.abort RPC and by the abort timer; a no-op in the error states.  *)
(* The abort releases currentOp but leaves the callback installed.          *)
(***************************************************************************)
DoAbort ==
    /\ mainPc = "loop" /\ active
    /\ machineState \in AbortStates /\ ~AbortIgnored
    /\ ~CancelMayCrash
    /\ CancelAndRelease
    /\ currentOp' = NoOp
    /\ caller' = "rpc"
    /\ mainPc' = AfterCancel
    /\ committed' = (committed /\ machineState = "SYNC_FREEZE")
    /\ UNCHANGED <<session, active, machineState, freezeStatus, provider, execScripts,
                   callback, clientData, timerEvent, keepAlive, worker, frozen, ioFrozen>>

Abort == DoAbort /\ UNCHANGED abortTimer

AbortTimer ==
    /\ abortTimer
    /\ abortTimer' = FALSE
    /\ \/ DoAbort
       \/ /\ mainPc = "loop" /\ AbortIgnored
          /\ UNCHANGED <<session, active, machineState, freezeStatus, provider, execScripts,
                         currentOp, callback, clientData, timerEvent, keepAlive, mainPc, caller,
                         worker, cell, frozen, ioFrozen, committed, scriptVars>>

\* "Thaw the guest if already quiesced": the rest of VmBackupDoAbort in SYNC_FREEZE.
AbortThaw ==
    /\ mainPc = "abortThaw"
    /\ \E ok \in BOOLEAN : ProviderSnapshotDone(ok)
    /\ committed' = FALSE
    /\ mainPc' = "onError"
    /\ UNCHANGED <<session, active, machineState, freezeStatus, provider, execScripts,
                   timerEvent, abortTimer, keepAlive, caller, worker, ioFrozen, scriptVars>>

(***************************************************************************)
(* Service shutdown: ToolsCoreCleanup first shuts the thread pool down      *)
(* (which waits for running tasks and drops queued ones), then emits the    *)
(* shutdown signal, on which the plugin finalizes the backup.               *)
(***************************************************************************)
Shutdown ==
    /\ mainPc = "loop" /\ active /\ machineState \in ShutdownStates
    /\ \A s \in Sessions : worker[s] \in {"none", "queued", "queuedNull"}
    /\ worker' = [s \in Sessions |-> "none"]
    /\ Finalize
    /\ mainPc' = "stopped"
    /\ UNCHANGED <<session, freezeStatus, provider, execScripts, caller, frozen, ioFrozen>>

(***************************************************************************)
(* The process dies: g_error in VmBackupOnError, or a NULL dereference in    *)
(* the script code or in a thaw without handle.  Nothing runs any more.     *)
(***************************************************************************)
GError == mainPc = "onError" /\ machineState \in {"IDLE", "SCRIPT_ERROR"}

NullDereference ==
    \/ mainPc = "switch" /\ machineState \in {"SYNC_THAW", "SYNC_ERROR"} /\ StartScriptsCrashes
    \/ mainPc = "onError" /\ machineState \in {"SCRIPT_FREEZE", "SYNC_ERROR"} /\ StartScriptsCrashes
    \/ mainPc = "exit" /\ machineState = "IDLE" /\ CancelMayCrash
    \/ /\ mainPc = "abortThaw" \/ (mainPc = "loop" /\ active /\ machineState = "SYNC_FREEZE")
       /\ provider = "syncDriver" /\ ~ValidHandle(clientData)
    \/ /\ mainPc = "loop" /\ active /\ CancelMayCrash
       /\ machineState \in ShutdownStates \/ (machineState \in AbortStates /\ ~AbortIgnored)

Crash ==
    /\ GError \/ NullDereference
    /\ mainPc' = "crashed"
    /\ UNCHANGED <<session, active, machineState, freezeStatus, provider, execScripts,
                   currentOp, callback, clientData, timerEvent, abortTimer, keepAlive, caller,
                   worker, cell, frozen, ioFrozen, committed, scriptVars>>

-----------------------------------------------------------------------------
(***************************************************************************)
(* provider->start in a pool thread: VmBackupSyncDriverStart (and the       *)
(* variant without null driver) or VmBackupNullStart.                       *)
(***************************************************************************)
Running == mainPc \notin {"crashed", "stopped"}

WorkerMoves(s, from) ==
    /\ Running /\ worker[s] = from
    /\ UNCHANGED <<session, active, machineState, freezeStatus, provider, execScripts,
                   timerEvent, abortTimer, keepAlive, mainPc, caller, ioFrozen, committed,
                   scriptVars>>

WorkerStarts(s) ==
    /\ WorkerMoves(s, "queued")
    /\ worker' = [worker EXCEPT ![s] = "freezing"]
    /\ UNCHANGED <<currentOp, callback, clientData, cell, frozen>>

\* VmBackupNewDriverOp(freeze): SyncDriver_Freeze, outside any lock.
WorkerFreezes(s, result) ==
    /\ WorkerMoves(s, "freezing")
    /\ worker' = [worker EXCEPT ![s] = IF result = "fail" THEN "setNoOp" ELSE "publish"]
    /\ cell' = [cell EXCEPT ![s] = CASE result = "fail"    -> "freed"
                                     [] result = "noPaths" -> "invalid"
                                     [] result = "nothing" -> "empty"
                                     [] result = "freeze"  -> IF frozen THEN "empty" ELSE "frozen"]
    /\ frozen' = (frozen \/ result = "freeze")
    /\ UNCHANGED <<currentOp, callback, clientData>>

(***************************************************************************)
(* The pool thread writes into the backup state it was given.  If that      *)
(* state is gone the write hits freed memory: it is lost, or lands in the   *)
(* state of a later backup allocated at the same address.                   *)
(***************************************************************************)
StateLive(s) == active /\ s = session

WorkerPublishes(s) ==
    /\ WorkerMoves(s, "publish")
    /\ worker' = [worker EXCEPT ![s] = "setOp"]
    /\ \/ active /\ clientData' = s
       \/ ~StateLive(s) /\ UNCHANGED clientData
    /\ UNCHANGED <<currentOp, callback, cell, frozen>>

\* VmBackup_SetCurrentOp under opLock, the last statement of start().
WorkerSetsOp(s, from, op, cb) ==
    /\ WorkerMoves(s, from)
    /\ worker' = [worker EXCEPT ![s] = "none"]
    /\ \/ active /\ currentOp' = op /\ callback' = cb
       \/ ~StateLive(s) /\ UNCHANGED <<currentOp, callback>>
    /\ UNCHANGED <<clientData, cell, frozen>>

Worker(s) ==
    \/ WorkerStarts(s)
    \/ \E result \in FreezeResults : WorkerFreezes(s, result)
    \/ WorkerPublishes(s)
    \/ WorkerSetsOp(s, "setOp", [kind |-> "freeze", cell |-> s], "SyncDriverReady")
    \/ WorkerSetsOp(s, "setNoOp", NoOp, "SyncDriverReady")
    \/ WorkerSetsOp(s, "queuedNull", [kind |-> "null", cell |-> 0], "NullReady")

ScriptProcess == Running /\ ScriptExits /\ UNCHANGED vmVars

Poll == PollPending \/ PollError \/ PollFinished
Switch == EnableSyncWait \/ EnableSync \/ StayFrozen \/ StartThawScripts \/ StartFailScripts
          \/ BackToIdle
OnError == OnErrorRunScripts \/ OnErrorSync \/ OnErrorThaw
MainThread == Poll \/ Switch \/ AbortThaw \/ OnError \/ Exit

Next ==
    \/ Start \/ Abort \/ AbortTimer \/ SnapshotDone \/ Shutdown
    \/ MainThread \/ Crash
    \/ \E s \in Sessions : Worker(s)
    \/ ScriptProcess

(***************************************************************************)
(* The main loop keeps running, pool threads and scripts finish.  A source  *)
(* that has become ready stays so until the main loop, which serves all     *)
(* ready sources of one priority in turn, dispatches it: hence strong       *)
(* fairness for the abort timer, which competes with the poll timer.        *)
(* Nothing is assumed of the host: it may never answer.                     *)
(***************************************************************************)
Fairness ==
    /\ WF_vars(MainThread)
    /\ SF_vars(AbortTimer)
    /\ \A s \in Sessions : WF_vars(Worker(s))
    /\ WF_vars(ScriptProcess)

Spec == Init /\ [][Next]_vars
FairSpec == Spec /\ Fairness
-----------------------------------------------------------------------------
(***************************************************************************)
(* Frozen file systems always have somebody who will thaw them: the handle  *)
(* is on its way from the pool thread to the live backup state, or in that  *)
(* state's clientData (syncDriverOps.c).  Otherwise the guest stays frozen. *)
(***************************************************************************)
FrozenHasOwner ==
    frozen => \E s \in Sessions : /\ cell[s] = "frozen"
                                  /\ StateLive(s)
                                  /\ worker[s] = "publish" \/ clientData = s

(***************************************************************************)
(* While the host holds a snapshot-commit event it may rely on it: the      *)
(* state machine is in SYNC_FREEZE, waiting for snapshotDone, and the sync  *)
(* driver provider has the handle to thaw with (VmBackupSnapshotDone).      *)
(***************************************************************************)
CommitMeansQuiesced ==
    committed /\ mainPc = "loop" =>
        /\ machineState = "SYNC_FREEZE"
        /\ provider = "syncDriver" => ValidHandle(clientData)

(***************************************************************************)
(* A pool thread in start() works on the live backup state, which waits for *)
(* it in SYNC_FREEZE_WAIT, and finds currentOp free: the assertion          *)
(* currentOp == NULL of VmBackup_SetCurrentOp.                              *)
(***************************************************************************)
WorkerStateLive ==
    \A s \in Sessions : worker[s] # "none" =>
        /\ StateLive(s)
        /\ machineState = "SYNC_FREEZE_WAIT"
        /\ currentOp = NoOp

(***************************************************************************)
(* The main loop never calls back into a freed backup state (the assertion  *)
(* gBackupState != NULL of the three timer callbacks), and an active backup *)
(* always has its poll and keep-alive timers attached.                      *)
(***************************************************************************)
SourcesOwned ==
    /\ ~active => ~timerEvent /\ ~abortTimer /\ ~keepAlive
    /\ active /\ mainPc = "loop" => timerEvent /\ keepAlive

(***************************************************************************)
(* The last IO_FREEZE signal tells the truth between handlers: log I/O and  *)
(* config checks are suspended exactly while a freeze is under way          *)
(* (ToolsCoreIOFreezeCb stops them for good if the FALSE signal is missed). *)
(***************************************************************************)
IoSignalMatchesState ==
    mainPc = "loop" =>
        (ioFrozen <=> machineState \in {"SYNC_FREEZE_WAIT", "SYNC_FREEZE", "SYNC_THAW"})

(***************************************************************************)
(* Scripts are undone in the reverse of the order they were frozen in, and  *)
(* only scripts that got their freeze (or the legacy slot) are undone       *)
(* (VmBackupRunNextScript).  When the poll callback ends a backup, none of  *)
(* them has been left out: "the caller has to make sure that thaw (or fail) *)
(* scripts are run every time the freeze scripts are run"                   *)
(* (VmBackup_NewScriptOp).                                                  *)
(***************************************************************************)
FreezeScriptsUndone ==
    /\ \A i \in undone :
         /\ i \in freezeDone \/ (i = 0 /\ Legacy(layout))
         /\ \A j \in freezeDone : j > i /\ IsFile(layout, TRUE, j) => j \in undone
    /\ mainPc = "exit" /\ machineState = "IDLE" /\ caller = "poll" /\ execScripts =>
         \A i \in freezeDone : IsFile(layout, TRUE, i) => i \in undone

(***************************************************************************)
(* The thaw scripts are reported as failed only if one of them failed or    *)
(* could not be started (VmBackupRunNextScript).                            *)
(***************************************************************************)
ThawErrorMeansFailure ==
    mainPc = "onError" /\ machineState = "SCRIPT_THAW" /\ caller = "poll" => thawFailed

(***************************************************************************)
(* The service does not die in a backup handler.                            *)
(***************************************************************************)
NoCrash == mainPc # "crashed"

(***************************************************************************)
(* The transitions of the README's diagram, seen between handlers.          *)
(***************************************************************************)
DocumentedTransition ==
    <<machineState, machineState'>> \in
        {<<"IDLE", "SCRIPT_FREEZE">>,
         <<"SCRIPT_FREEZE", "SYNC_FREEZE_WAIT">>, <<"SCRIPT_FREEZE", "SCRIPT_ERROR">>,
         <<"SYNC_FREEZE_WAIT", "SYNC_FREEZE">>, <<"SYNC_FREEZE_WAIT", "SYNC_ERROR">>,
         <<"SYNC_FREEZE", "SYNC_THAW">>, <<"SYNC_FREEZE", "SYNC_ERROR">>,
         <<"SYNC_THAW", "SCRIPT_THAW">>, <<"SYNC_THAW", "SYNC_ERROR">>,
         <<"SYNC_ERROR", "SCRIPT_ERROR">>,
         <<"SCRIPT_THAW", "IDLE">>, <<"SCRIPT_ERROR", "IDLE">>}

DocumentedTransitions == [][DocumentedTransition]_machineState

(***************************************************************************)
(* With a timeout configured, every backup ends, whatever the host does.    *)
(***************************************************************************)
BackupEnds == active ~> ~active

(***************************************************************************)
(* The backup implements the abstract quiesce protocol.                     *)
(***************************************************************************)
QuiescePhase ==
    IF ~active THEN "idle"
    ELSE IF committed THEN "committed"
    ELSE IF machineState \in {"SCRIPT_FREEZE", "SYNC_FREEZE_WAIT"} THEN "freezing"
    ELSE "thawing"

Abstract == INSTANCE Quiesce WITH phase <- QuiescePhase, fs <- frozen

ImplementsQuiesce == Abstract!Spec
=============================================================================
