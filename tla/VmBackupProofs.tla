--------------------------- MODULE VmBackupProofs ---------------------------
(***************************************************************************)
(* Proofs about VmBackup for every set of script installations, every       *)
(* number of backup states that pool threads may hold, and every choice of  *)
(* faults: types, timers, the I/O signal, and the freeze, that is who owns  *)
(* the frozen file systems, what a commit means, what a pool thread finds.  *)
(***************************************************************************)
EXTENDS VmBackup, VmBackupScriptsProofs

-----------------------------------------------------------------------------
(***************************************************************************)
(* The timers, for every choice of the constants: strengthened by where the *)
(* main thread is when the poll timer is consumed and not yet requeued.     *)
(***************************************************************************)
SourcesInv ==
    /\ ~active => /\ ~timerEvent /\ ~abortTimer /\ ~keepAlive
                  /\ mainPc \in {"loop", "stopped"}
    /\ active => keepAlive
    /\ active /\ (mainPc = "loop" \/ caller = "rpc") => timerEvent
    /\ mainPc = "switch" => caller = "poll"

(***************************************************************************)
(* The I/O signal, for every choice of the constants.                       *)
(***************************************************************************)
IoStates == {"SYNC_FREEZE_WAIT", "SYNC_FREEZE", "SYNC_THAW"}

IoInv ==
    /\ ~active => machineState = "IDLE"
    /\ mainPc = "abortThaw" => machineState = "SYNC_FREEZE"
    /\ ioFrozen /\ mainPc # "stopped" => machineState \in IoStates
    /\ machineState \in IoStates /\ mainPc \notin {"onError", "crashed"} => ioFrozen


-----------------------------------------------------------------------------
(***************************************************************************)
(* Type correctness.                                                        *)
(***************************************************************************)
LEMMA OpsTyped ==
    /\ NoOp \in OpType
    /\ \A k \in {"none", "script", "freeze", "thaw", "null"}, c \in 0 .. MaxSessions :
          [kind |-> k, cell |-> c] \in OpType
    /\ [kind |-> "script", cell |-> 0] \in OpType
    /\ [kind |-> "thaw", cell |-> 0] \in OpType
    /\ [kind |-> "null", cell |-> 0] \in OpType
    /\ \A s \in Sessions : s \in 0 .. MaxSessions
<1>1. MaxSessions \in Nat /\ 0 \in 0 .. MaxSessions BY VmBackupAssumption
<1> QED BY <1>1 DEF NoOp, OpType, Sessions

LEMMA CellTyped ==
    ASSUME cell \in [Sessions -> CellStates], NEW c, NEW v \in CellStates
    PROVE  [cell EXCEPT ![c] = v] \in [Sessions -> CellStates]
  BY Zenon

LEMMA InitTyped == Init => TypeOK
<1> SUFFICES ASSUME Init PROVE TypeOK OBVIOUS
<1>1. ScriptsTypeOK
  BY Zenon, NoProcsTyped, Bounds DEF Init, ScriptsInit, ScriptsTypeOK, ScriptTypes
<1>2. 0 \in 0 .. MaxSessions BY VmBackupAssumption
<1>3. worker \in [Sessions -> WorkerPcs] /\ cell \in [Sessions -> CellStates]
  BY DEF Init, WorkerPcs, CellStates
<1>4. VmTypeOK
  BY Zenon, <1>2, <1>3, OpsTyped DEF Init, VmTypeOK, MStates, ProviderKinds, Callbacks, MainPcs
<1> QED BY <1>1, <1>4 DEF TypeOK

LEMMA CancelReleaseTyped ==
    ASSUME TypeOK, CancelAndRelease
    PROVE  ScriptsTypeOK' /\ cell' \in [Sessions -> CellStates]
<1>1. CASE currentOp.kind = "script"
  BY <1>1, CancelTyped DEF CancelAndRelease, TypeOK, VmTypeOK
<1>2. CASE currentOp.kind # "script"
  <2>1. ScriptsTypeOK' BY <1>2, UnchangedScriptsTyped DEF CancelAndRelease, TypeOK
  <2>2. "freed" \in CellStates BY DEF CellStates
  <2>3. cell' \in [Sessions -> CellStates]
    BY <1>2, <2>2, CellTyped DEF CancelAndRelease, ReleaseDriverOp, TypeOK, VmTypeOK
  <2> QED BY <2>1, <2>3
<1> QED BY <1>1, <1>2

LEMMA StartScriptsTyped ==
    ASSUME TypeOK, NEW type \in {"THAW", "FREEZE_FAIL"}, NEW ok \in BOOLEAN,
           StartScripts(type, ok)
    PROVE  ScriptsTypeOK' /\ currentOp' \in OpType /\ callback' \in Callbacks
<1>1. CASE ~execScripts
  BY <1>1, UnchangedScriptsTyped DEF StartScripts, TypeOK, VmTypeOK
<1>2. CASE execScripts
  <2>1. NewUndoOp(type, ok) \/ NoScriptDir
    BY <1>2 DEF StartScripts
  <2>2. ScriptsTypeOK'
    BY <2>1, NewUndoTyped, UnchangedScriptsTyped DEF NoScriptDir, TypeOK
  <2>3. currentOp' \in OpType /\ callback' \in Callbacks
    BY <1>2, OpsTyped DEF StartScripts, Callbacks
  <2> QED BY <2>2, <2>3
<1> QED BY <1>1, <1>2

LEMMA FinalizeTyped ==
    ASSUME TypeOK, Finalize
    PROVE  /\ ScriptsTypeOK' /\ cell' \in [Sessions -> CellStates]
           /\ active' \in BOOLEAN /\ machineState' \in MStates /\ currentOp' \in OpType
           /\ callback' \in Callbacks /\ clientData' \in 0 .. MaxSessions
           /\ timerEvent' \in BOOLEAN /\ abortTimer' \in BOOLEAN /\ keepAlive' \in BOOLEAN
           /\ committed' \in BOOLEAN
<1>1. 0 \in 0 .. MaxSessions BY VmBackupAssumption
<1>2. ScriptsTypeOK' /\ cell' \in [Sessions -> CellStates]
  BY CancelReleaseTyped DEF Finalize
<1>3. currentOp' \in OpType BY OpsTyped DEF Finalize
<1> QED BY Zenon, <1>1, <1>2, <1>3 DEF Finalize, DestroySources, MStates, Callbacks

LEMMA StartTyped == ASSUME TypeOK, Start PROVE TypeOK'
<1>1. PICK s \in Sessions, l \in Layouts, p \in Providers, exec \in BOOLEAN :
         StartCommon(s, l, p, exec)
  BY DEF Start
<1>2. PICK ok \in BOOLEAN :
         /\ IF exec THEN NewFreezeOp(l, ok) \/ NoScriptDir ELSE NoScriptsWanted
         /\ active' = ok
         /\ machineState' = IF ok THEN "SCRIPT_FREEZE" ELSE "IDLE"
         /\ currentOp' = IF ok /\ exec THEN [kind |-> "script", cell |-> 0] ELSE NoOp
         /\ timerEvent' = ok
         /\ abortTimer' = (ok /\ Timeout)
         /\ keepAlive' = ok
  BY <1>1 DEF StartCommon
<1>3. ScriptsTypeOK'
  <2>1. NoScriptsWanted => ScriptsTypeOK'
    BY FreeScriptsTyped DEF NoScriptsWanted, TypeOK, ScriptsTypeOK
  <2> QED BY <1>2, <2>1, NewFreezeTyped, UnchangedScriptsTyped DEF NoScriptDir, TypeOK
<1>4. p \in ProviderKinds /\ 0 \in 0 .. MaxSessions BY SMTT(60), VmBackupAssumption
<1>5. cell' \in [Sessions -> CellStates]
  BY Zenon, <1>1, CellTyped DEF StartCommon, CellStates, TypeOK, VmTypeOK
<1>6. /\ session' \in 0 .. MaxSessions /\ provider' \in ProviderKinds /\ execScripts' \in BOOLEAN
      /\ freezeStatus' \in {"PENDING", "FINISHED", "ERROR"}
      /\ callback' \in Callbacks /\ clientData' \in 0 .. MaxSessions
  BY <1>1, <1>4, OpsTyped DEF StartCommon, Callbacks
<1>7. /\ active' \in BOOLEAN /\ machineState' \in MStates /\ currentOp' \in OpType
      /\ timerEvent' \in BOOLEAN /\ abortTimer' \in BOOLEAN /\ keepAlive' \in BOOLEAN
  BY <1>2, OpsTyped DEF MStates
<1>8. UNCHANGED <<mainPc, caller, worker, frozen, ioFrozen, committed>>
  BY <1>1 DEF StartCommon
<1> QED BY <1>3, <1>5, <1>6, <1>7, <1>8 DEF TypeOK, VmTypeOK

LEMMA RunCallbackTyped ==
    ASSUME TypeOK, RunCallback
    PROVE  /\ callback' \in Callbacks /\ cell' \in [Sessions -> CellStates]
           /\ frozen' \in BOOLEAN /\ committed' \in BOOLEAN /\ mainPc' \in MainPcs
           /\ freezeStatus' \in {"PENDING", "FINISHED", "ERROR"}
<1>1. callback' \in Callbacks BY DEF RunCallback, Callbacks
<1>2. CommitSent => /\ cell' \in [Sessions -> CellStates] /\ frozen' \in BOOLEAN
                    /\ committed' \in BOOLEAN /\ mainPc' \in MainPcs
                    /\ freezeStatus' \in {"PENDING", "FINISHED", "ERROR"}
  BY DEF CommitSent, MainPcs, TypeOK, VmTypeOK
<1>3. CASE SyncDriverReadyForSnapshot
  <2>1. [cell EXCEPT ![clientData] = "invalid"] \in [Sessions -> CellStates]
    BY CellTyped DEF CellStates, TypeOK, VmTypeOK
  <2> QED BY Zenon, <1>1, <1>2, <1>3, <2>1 DEF SyncDriverReadyForSnapshot, DriverThaw, MainPcs,
                                               TypeOK, VmTypeOK
<1>4. CASE NullReadyForSnapshot
  BY <1>1, <1>2, <1>4 DEF NullReadyForSnapshot, MainPcs, TypeOK, VmTypeOK
<1>5. CASE callback = "none"
  BY <1>1, <1>5 DEF RunCallback, MainPcs, TypeOK, VmTypeOK
<1>6. callback \in {"none", "SyncDriverReady", "NullReady"} BY DEF TypeOK, VmTypeOK, Callbacks
<1> QED BY Zenon, <1>3, <1>4, <1>5, <1>6 DEF RunCallback

LEMMA PollTyped == ASSUME TypeOK, Poll PROVE TypeOK'
<1>1. PollStarts BY DEF Poll, PollPending, PollError, PollFinished
<1>2. /\ timerEvent' = FALSE /\ caller' = "poll"
      /\ UNCHANGED <<session, active, machineState, provider, execScripts,
                     clientData, abortTimer, keepAlive, worker, ioFrozen>>
  BY <1>1 DEF PollStarts
<1>3. CASE PollPending
  <2>1. ScriptsTypeOK' BY <1>3, QueryTyped DEF PollPending, TypeOK
  <2>2. mainPc' \in MainPcs /\ UNCHANGED <<currentOp, callback, cell, frozen, committed, freezeStatus>>
    BY <1>3 DEF PollPending, MainPcs
  <2> QED BY ZenonT(60), <1>2, <2>1, <2>2 DEF TypeOK, VmTypeOK
<1>4. CASE PollError
  <2>1. ScriptsTypeOK' BY <1>4, QueryTyped DEF PollError, TypeOK
  <2>2. /\ mainPc' \in MainPcs /\ currentOp' \in OpType
        /\ UNCHANGED <<callback, cell, frozen, committed, freezeStatus>>
    BY <1>4, OpsTyped DEF PollError, MainPcs
  <2> QED BY ZenonT(60), <1>2, <2>1, <2>2 DEF TypeOK, VmTypeOK
<1>5. CASE PollFinished
  <2>1. ScriptsTypeOK' BY <1>5, QueryTyped, UnchangedScriptsTyped DEF PollFinished, TypeOK
  <2>2. currentOp' \in OpType BY <1>5, OpsTyped DEF PollFinished
  <2>3. RunCallback BY <1>5 DEF PollFinished
  <2> QED BY Zenon, <1>2, <2>1, <2>2, <2>3, RunCallbackTyped DEF TypeOK, VmTypeOK
<1> QED BY <1>3, <1>4, <1>5 DEF Poll

LEMMA SwitchTyped == ASSUME TypeOK, Switch PROVE TypeOK'
<1>1. UNCHANGED <<session, active, provider, execScripts, clientData, timerEvent,
                  abortTimer, keepAlive, caller, cell, frozen, committed>>
  BY DEF Switch, EnableSyncWait, EnableSync, StayFrozen, StartThawScripts, StartFailScripts,
         BackToIdle, InSwitch
<1>2. CASE EnableSyncWait
  <2>1. ScriptsTypeOK' BY <1>2, UnchangedScriptsTyped DEF EnableSyncWait, TypeOK
  <2>2. worker' \in [Sessions -> WorkerPcs]
    BY <1>2 DEF EnableSyncWait, WorkerPcs, TypeOK, VmTypeOK
  <2>3. /\ freezeStatus' = "PENDING" /\ ioFrozen' \in BOOLEAN /\ mainPc' \in MainPcs
        /\ machineState' \in MStates /\ UNCHANGED <<currentOp, callback>>
    BY Zenon, <1>2 DEF EnableSyncWait, MainPcs, MStates, TypeOK, VmTypeOK
  <2> QED BY <1>1, <2>1, <2>2, <2>3 DEF TypeOK, VmTypeOK
<1>3. CASE EnableSync
  <2>1. ScriptsTypeOK' BY <1>3, UnchangedScriptsTyped DEF EnableSync, TypeOK
  <2> QED BY <1>1, <1>3, <2>1 DEF EnableSync, AfterFreezeWait, MainPcs, MStates, TypeOK, VmTypeOK
<1>4. CASE StayFrozen
  <2>1. ScriptsTypeOK' BY <1>4, UnchangedScriptsTyped DEF StayFrozen, TypeOK
  <2> QED BY <1>1, <1>4, <2>1 DEF StayFrozen, MainPcs, TypeOK, VmTypeOK
<1>5. CASE StartThawScripts
  <2>1. PICK ok \in BOOLEAN : /\ StartScripts("THAW", ok)
                              /\ machineState' = IF ok THEN "SCRIPT_THAW" ELSE machineState
                              /\ mainPc' = IF ok THEN "exit" ELSE "onError"
    BY <1>5 DEF StartThawScripts
  <2>2. ScriptsTypeOK' /\ currentOp' \in OpType /\ callback' \in Callbacks
    BY <2>1, StartScriptsTyped
  <2>3. machineState' \in MStates /\ mainPc' \in MainPcs BY <2>1 DEF MStates, MainPcs, TypeOK,
                                                                VmTypeOK
  <2>4. ioFrozen' \in BOOLEAN /\ UNCHANGED <<freezeStatus, worker>> BY Zenon, <1>5
                                                                       DEF StartThawScripts
  <2> QED BY <1>1, <2>2, <2>3, <2>4 DEF TypeOK, VmTypeOK
<1>6. CASE StartFailScripts
  <2>1. PICK ok \in BOOLEAN : /\ StartScripts("FREEZE_FAIL", ok)
                              /\ machineState' = IF ok THEN "SCRIPT_ERROR" ELSE machineState
                              /\ mainPc' = IF ok THEN "exit" ELSE "onError"
    BY <1>6 DEF StartFailScripts
  <2>2. ScriptsTypeOK' /\ currentOp' \in OpType /\ callback' \in Callbacks
    BY <2>1, StartScriptsTyped
  <2>3. machineState' \in MStates /\ mainPc' \in MainPcs BY <2>1 DEF MStates, MainPcs, TypeOK,
                                                                VmTypeOK
  <2>4. UNCHANGED <<freezeStatus, ioFrozen, worker>> BY <1>6 DEF StartFailScripts
  <2> QED BY <1>1, <2>2, <2>3, <2>4 DEF TypeOK, VmTypeOK
<1>7. CASE BackToIdle
  <2>1. ScriptsTypeOK' BY SMTT(60), <1>7, UnchangedScriptsTyped DEF BackToIdle, TypeOK
  <2> QED BY <1>1, <1>7, <2>1 DEF BackToIdle, MainPcs, MStates, TypeOK, VmTypeOK
<1> QED BY Zenon, <1>2, <1>3, <1>4, <1>5, <1>6, <1>7 DEF Switch

LEMMA OnErrorTyped == ASSUME TypeOK, OnError PROVE TypeOK'
<1>1. UNCHANGED <<session, active, freezeStatus, provider, execScripts, clientData,
                  timerEvent, abortTimer, keepAlive, caller, worker, cell, frozen, committed>>
  BY DEF OnError, OnErrorRunScripts, OnErrorSync, OnErrorThaw, InOnError
<1>2. CASE OnErrorRunScripts
  <2>1. PICK ok \in BOOLEAN : /\ StartScripts("FREEZE_FAIL", ok)
                              /\ machineState' = IF ok THEN "SCRIPT_ERROR" ELSE "IDLE"
    BY <1>2 DEF OnErrorRunScripts
  <2>2. ScriptsTypeOK' /\ currentOp' \in OpType /\ callback' \in Callbacks
    BY <2>1, StartScriptsTyped
  <2>3. machineState' \in MStates BY <2>1 DEF MStates
  <2>4. mainPc' \in MainPcs /\ UNCHANGED ioFrozen BY <1>2 DEF OnErrorRunScripts, MainPcs
  <2> QED BY <1>1, <2>2, <2>3, <2>4 DEF TypeOK, VmTypeOK
<1>3. CASE OnErrorSync
  <2>1. ScriptsTypeOK' BY <1>3, UnchangedScriptsTyped DEF OnErrorSync, TypeOK
  <2> QED BY ZenonT(60), <1>1, <1>3, <2>1 DEF OnErrorSync, MainPcs, MStates, TypeOK, VmTypeOK
<1>4. CASE OnErrorThaw
  <2>1. ScriptsTypeOK' BY <1>4, UnchangedScriptsTyped DEF OnErrorThaw, TypeOK
  <2> QED BY <1>1, <1>4, <2>1 DEF OnErrorThaw, MainPcs, MStates, TypeOK, VmTypeOK
<1> QED BY <1>2, <1>3, <1>4 DEF OnError

LEMMA ExitTyped == ASSUME TypeOK, Exit PROVE TypeOK'
<1>1. mainPc' \in MainPcs BY DEF Exit, MainPcs
<1>2. UNCHANGED <<session, freezeStatus, provider, execScripts, caller, worker, frozen, ioFrozen>>
  BY DEF Exit
<1>3. CASE machineState = "IDLE"
  <2>1. Finalize BY Zenon, <1>3 DEF Exit
  <2> QED BY <1>1, <1>2, <2>1, FinalizeTyped DEF TypeOK, VmTypeOK
<1>4. CASE machineState # "IDLE"
  <2>1. /\ timerEvent' \in BOOLEAN
        /\ UNCHANGED <<active, machineState, currentOp, callback, clientData,
                       abortTimer, keepAlive, committed, cell, scriptVars>>
    BY <1>4 DEF Exit, Requeue, TypeOK, VmTypeOK
  <2>2. ScriptsTypeOK' BY <2>1, UnchangedScriptsTyped DEF TypeOK
  <2> QED BY SMTT(60), <1>1, <1>2, <2>1, <2>2 DEF TypeOK, VmTypeOK
<1> QED BY <1>3, <1>4

LEMMA SnapshotDoneTyped ==
    ASSUME TypeOK, NEW ok \in BOOLEAN, ProviderSnapshotDone(ok)
    PROVE  /\ callback' \in Callbacks /\ currentOp' \in OpType /\ frozen' \in BOOLEAN
           /\ cell' \in [Sessions -> CellStates] /\ clientData' \in 0 .. MaxSessions
<1>1. callback' \in Callbacks BY SMTT(60) DEF ProviderSnapshotDone, Callbacks
<1>2. CASE provider = "null"
  BY <1>1, <1>2, OpsTyped DEF ProviderSnapshotDone, TypeOK, VmTypeOK
<1>3. CASE provider # "null"
  <2>1. cell' \in [Sessions -> CellStates]
    BY <1>3, CellTyped DEF ProviderSnapshotDone, CellStates, TypeOK, VmTypeOK
  <2>2. frozen' \in BOOLEAN BY <1>3 DEF ProviderSnapshotDone, DriverThaw
  <2>3. 0 \in 0 .. MaxSessions BY VmBackupAssumption
  <2>4. currentOp' \in OpType /\ clientData' \in 0 .. MaxSessions
    BY <1>3, <2>3, OpsTyped DEF ProviderSnapshotDone
  <2> QED BY SMTT(60), <1>1, <2>1, <2>2, <2>4
<1> QED BY <1>2, <1>3

LEMMA RequestTyped ==
    ASSUME TypeOK, SnapshotDone \/ Abort \/ AbortTimer \/ AbortThaw \/ Shutdown \/ Crash
    PROVE  TypeOK'
<1>1. CASE SnapshotDone
  <2>1. PICK ok \in BOOLEAN : /\ ProviderSnapshotDone(ok)
                              /\ machineState' = IF ok THEN "SYNC_THAW" ELSE machineState
                              /\ mainPc' = IF ok THEN "loop" ELSE "onError"
    BY <1>1 DEF SnapshotDone
  <2>2. machineState' \in MStates /\ mainPc' \in MainPcs BY <2>1 DEF MStates, MainPcs, TypeOK,
                                                                VmTypeOK
  <2>3. /\ committed' = FALSE /\ caller' = "rpc"
        /\ UNCHANGED <<session, active, freezeStatus, provider, execScripts, timerEvent,
                       abortTimer, keepAlive, worker, ioFrozen, scriptVars>>
    BY <1>1 DEF SnapshotDone
  <2>4. ScriptsTypeOK' BY <2>3, UnchangedScriptsTyped DEF TypeOK
  <2> QED BY ZenonT(60), <2>1, <2>2, <2>3, <2>4, SnapshotDoneTyped DEF TypeOK, VmTypeOK
<1>2. ASSUME DoAbort, abortTimer' \in BOOLEAN PROVE TypeOK'
  <2>1. ScriptsTypeOK' /\ cell' \in [Sessions -> CellStates]
    BY Zenon, <1>2, CancelReleaseTyped DEF DoAbort
  <2>2. currentOp' \in OpType /\ caller' = "rpc" /\ mainPc' \in MainPcs /\ committed' \in BOOLEAN
    BY <1>2, OpsTyped DEF DoAbort, AfterCancel, MainPcs
  <2>3. UNCHANGED <<session, active, machineState, freezeStatus, provider, execScripts,
                    callback, clientData, timerEvent, keepAlive, worker, frozen, ioFrozen>>
    BY Zenon, <1>2 DEF DoAbort
  <2> QED BY <1>2, <2>1, <2>2, <2>3 DEF TypeOK, VmTypeOK
<1>3. CASE Abort
  BY Zenon, <1>2, <1>3 DEF Abort, TypeOK, VmTypeOK
<1>4. CASE AbortTimer
  <2>1. abortTimer' = FALSE BY <1>4 DEF AbortTimer
  <2>2. CASE DoAbort BY Zenon, <1>2, <2>1, <2>2
  <2>3. CASE UNCHANGED <<session, active, machineState, freezeStatus, provider, execScripts,
                         currentOp, callback, clientData, timerEvent, keepAlive, mainPc, caller,
                         worker, cell, frozen, ioFrozen, committed, scriptVars>>
    <3>1. ScriptsTypeOK' BY <2>3, UnchangedScriptsTyped DEF TypeOK
    <3> QED BY ZenonT(60), <2>1, <2>3, <3>1 DEF TypeOK, VmTypeOK
  <2> QED BY SMTT(60), <1>4, <2>2, <2>3 DEF AbortTimer
<1>5. CASE AbortThaw
  <2>1. PICK ok \in BOOLEAN : ProviderSnapshotDone(ok) BY Zenon, <1>5 DEF AbortThaw
  <2>2. /\ committed' = FALSE /\ mainPc' \in MainPcs
        /\ UNCHANGED <<session, active, machineState, freezeStatus, provider, execScripts,
                       timerEvent, abortTimer, keepAlive, caller, worker, ioFrozen, scriptVars>>
    BY <1>5 DEF AbortThaw, MainPcs
  <2>3. ScriptsTypeOK' BY ZenonT(60), <2>2, UnchangedScriptsTyped DEF TypeOK
  <2> QED BY ZenonT(60), <2>1, <2>2, <2>3, SnapshotDoneTyped DEF TypeOK, VmTypeOK
<1>6. CASE Shutdown
  <2>1. Finalize BY <1>6 DEF Shutdown
  <2>2. worker' \in [Sessions -> WorkerPcs] BY <1>6 DEF Shutdown, WorkerPcs
  <2>3. mainPc' \in MainPcs /\ UNCHANGED <<session, freezeStatus, provider, execScripts, caller,
                                           frozen, ioFrozen>>
    BY ZenonT(60), <1>6 DEF Shutdown, MainPcs
  <2> QED BY <2>1, <2>2, <2>3, FinalizeTyped DEF TypeOK, VmTypeOK
<1>7. CASE Crash
  <2>1. ScriptsTypeOK' BY Zenon, <1>7, UnchangedScriptsTyped DEF Crash, TypeOK
  <2> QED BY SMTT(60), <1>7, <2>1 DEF Crash, MainPcs, TypeOK, VmTypeOK
<1> QED BY <1>1, <1>3, <1>4, <1>5, <1>6, <1>7

LEMMA WorkerTyped == ASSUME TypeOK, NEW s \in Sessions, Worker(s) PROVE TypeOK'
<1> DEFINE Frame == UNCHANGED <<session, active, machineState, freezeStatus, provider, execScripts,
                                timerEvent, abortTimer, keepAlive, mainPc, caller, ioFrozen, committed>>
<1>1. ASSUME NEW from, WorkerMoves(s, from) PROVE Frame /\ ScriptsTypeOK'
  BY Zenon, <1>1, UnchangedScriptsTyped DEF WorkerMoves, TypeOK
<1>2. \A w \in WorkerPcs : [worker EXCEPT ![s] = w] \in [Sessions -> WorkerPcs]
  BY Zenon DEF TypeOK, VmTypeOK
<1>3. s \in 0 .. MaxSessions BY OpsTyped
<1>4. CASE WorkerStarts(s)
  BY SMTT(60), <1>1, <1>2, <1>4 DEF WorkerStarts, WorkerPcs, TypeOK, VmTypeOK
<1>5. ASSUME NEW result \in FreezeResults, WorkerFreezes(s, result) PROVE TypeOK'
  <2>1. worker' \in [Sessions -> WorkerPcs] BY <1>2, <1>5 DEF WorkerFreezes, WorkerPcs
  <2>2. result \in FreezeKinds BY VmBackupAssumption
  <2>3. cell' \in [Sessions -> CellStates]
    BY <1>5, <2>2, CellTyped DEF WorkerFreezes, CellStates, FreezeKinds, TypeOK, VmTypeOK
  <2>4. frozen' \in BOOLEAN /\ UNCHANGED <<currentOp, callback, clientData>>
    BY <1>5 DEF WorkerFreezes
  <2>5. Frame /\ ScriptsTypeOK' BY <1>1, <1>5 DEF WorkerFreezes
  <2> QED BY <2>1, <2>3, <2>4, <2>5 DEF TypeOK, VmTypeOK
<1>6. CASE WorkerPublishes(s)
  <2>1. worker' \in [Sessions -> WorkerPcs] BY Zenon, <1>2, <1>6 DEF WorkerPublishes, WorkerPcs
  <2>2. clientData' \in 0 .. MaxSessions /\ UNCHANGED <<currentOp, callback, cell, frozen>>
    BY Zenon, <1>3, <1>6 DEF WorkerPublishes, TypeOK, VmTypeOK
  <2>3. Frame /\ ScriptsTypeOK' BY ZenonT(60), <1>1, <1>6 DEF WorkerPublishes
  <2> QED BY SMTT(60), <2>1, <2>2, <2>3 DEF TypeOK, VmTypeOK
<1>7. ASSUME NEW from, NEW op \in OpType, NEW cb \in Callbacks, WorkerSetsOp(s, from, op, cb)
      PROVE  TypeOK'
  <2>1. worker' \in [Sessions -> WorkerPcs] BY Zenon, <1>2, <1>7 DEF WorkerSetsOp, WorkerPcs
  <2>2. /\ currentOp' \in OpType /\ callback' \in Callbacks
        /\ UNCHANGED <<clientData, cell, frozen>>
    BY <1>7 DEF WorkerSetsOp, TypeOK, VmTypeOK
  <2>3. Frame /\ ScriptsTypeOK' BY <1>1, <1>7 DEF WorkerSetsOp
  <2> QED BY SMTT(60), <2>1, <2>2, <2>3 DEF TypeOK, VmTypeOK
<1>8. "SyncDriverReady" \in Callbacks /\ "NullReady" \in Callbacks BY DEF Callbacks
<1>9. [kind |-> "freeze", cell |-> s] \in OpType BY ZenonT(60), <1>3, OpsTyped
<1> QED BY Zenon, <1>4, <1>5, <1>6, <1>7, <1>8, <1>9, OpsTyped DEF Worker

LEMMA ScriptProcessTyped == ASSUME TypeOK, ScriptProcess PROVE TypeOK'
<1>1. ScriptsTypeOK' BY ScriptExitsTyped DEF ScriptProcess, TypeOK
<1> QED BY <1>1 DEF ScriptProcess, vmVars, TypeOK, VmTypeOK

LEMMA TypeStep == TypeOK /\ [Next]_vars => TypeOK'
<1> SUFFICES ASSUME TypeOK, [Next]_vars PROVE TypeOK' BY ZenonT(60)
<1>1. CASE UNCHANGED vars
  <2>1. ScriptsTypeOK' BY <1>1, UnchangedScriptsTyped DEF vars, TypeOK
  <2> QED BY <1>1, <2>1 DEF vars, vmVars, TypeOK, VmTypeOK
<1>2. CASE Next
  BY <1>2, StartTyped, PollTyped, SwitchTyped, OnErrorTyped, ExitTyped, RequestTyped, WorkerTyped,
     ScriptProcessTyped DEF Next, MainThread
<1> QED BY <1>1, <1>2

(***************************************************************************)
(* The backup state stays well typed, whatever fails, and whatever pool     *)
(* threads write into it: in particular currentScript never leaves          *)
(* -1 .. MaxScripts, the range VmBackupRunNextScript indexes the list with. *)
(***************************************************************************)
THEOREM TypeCorrect == Spec => []TypeOK
  BY InitTyped, TypeStep, PTL DEF Spec

-----------------------------------------------------------------------------
(***************************************************************************)
(* The timers.                                                              *)
(***************************************************************************)
LEMMA SourcesStep == TypeOK /\ SourcesInv /\ [Next]_vars => SourcesInv'
<1> SUFFICES ASSUME TypeOK, SourcesInv, [Next]_vars PROVE SourcesInv' OBVIOUS
<1> USE DEF SourcesInv
<1>1. CASE UNCHANGED vars BY SMTT(60), <1>1 DEF vars, vmVars
<1>2. CASE Start
  <2>1. PICK s \in Sessions, l \in Layouts, p \in Providers, exec \in BOOLEAN :
           StartCommon(s, l, p, exec)
    BY ZenonT(60), <1>2 DEF Start
  <2>2. /\ active' \in BOOLEAN /\ timerEvent' = active' /\ keepAlive' = active'
        /\ (~active' => ~abortTimer') /\ mainPc' = "loop"
    BY <2>1 DEF StartCommon
  <2> QED BY <2>2
<1>3. CASE Poll
  <2>1. PollStarts /\ mainPc' \in {"switch", "exit", "onError"}
    BY ZenonT(60), <1>3 DEF Poll, PollPending, PollError, PollFinished, RunCallback, CommitSent,
       SyncDriverReadyForSnapshot, NullReadyForSnapshot, TypeOK, VmTypeOK, Callbacks
  <2> QED BY <2>1 DEF PollStarts
<1>4. CASE Switch
  <2>1. /\ mainPc = "switch" /\ mainPc' \in {"exit", "onError"}
        /\ UNCHANGED <<active, timerEvent, abortTimer, keepAlive, caller>>
    BY <1>4 DEF Switch, EnableSyncWait, EnableSync, StayFrozen, StartThawScripts,
       StartFailScripts, BackToIdle, InSwitch
  <2> QED BY Zenon, <2>1
<1>5. CASE OnError
  <2>1. /\ mainPc = "onError" /\ mainPc' = "exit"
        /\ UNCHANGED <<active, timerEvent, abortTimer, keepAlive, caller>>
    BY <1>5 DEF OnError, OnErrorRunScripts, OnErrorSync, OnErrorThaw, InOnError
  <2> QED BY Zenon, <2>1
<1>6. CASE Exit
  <2>1. CASE machineState = "IDLE"
    BY <1>6, <2>1 DEF Exit, Finalize, DestroySources
  <2>2. CASE machineState # "IDLE"
    <3>1. caller \in {"poll", "rpc"} BY Zenon DEF TypeOK, VmTypeOK
    <3> QED BY Zenon, <1>6, <2>2, <3>1 DEF Exit, Requeue
  <2> QED BY Zenon, <2>1, <2>2
<1>7. CASE SnapshotDone
  BY <1>7 DEF SnapshotDone
<1>8. CASE Abort \/ AbortTimer
  <2>1. CASE DoAbort
    <3>1. mainPc' \in {"abortThaw", "onError"} BY <2>1 DEF DoAbort, AfterCancel
    <3> QED BY <1>8, <2>1, <3>1 DEF Abort, AbortTimer, DoAbort
  <2>2. CASE ~DoAbort
    BY Zenon, <1>8, <2>2 DEF Abort, AbortTimer
  <2> QED BY ZenonT(60), <2>1, <2>2
<1>9. CASE AbortThaw
  BY Zenon, <1>9 DEF AbortThaw
<1>10. CASE Shutdown
  BY Zenon, <1>10 DEF Shutdown, Finalize, DestroySources
<1>11. CASE Crash
  <2>1. active BY Zenon, <1>11 DEF Crash, GError, NullDereference
  <2> QED BY Zenon, <1>11, <2>1 DEF Crash
<1>12. ASSUME NEW s \in Sessions, Worker(s) PROVE SourcesInv'
  <2>1. UNCHANGED <<active, timerEvent, abortTimer, keepAlive, mainPc, caller>>
    BY <1>12 DEF Worker, WorkerStarts, WorkerFreezes, WorkerPublishes, WorkerSetsOp, WorkerMoves
  <2> QED BY ZenonT(60), <2>1
<1>13. CASE ScriptProcess BY <1>13 DEF ScriptProcess, vmVars
<1> QED BY ZenonT(60), <1>1, <1>2, <1>3, <1>4, <1>5, <1>6, <1>7, <1>8, <1>9, <1>10, <1>11, <1>12,
           <1>13
        DEF Next, MainThread

(***************************************************************************)
(* No timer callback ever runs without a backup state, and a live backup    *)
(* always has its poll timer: whatever fails, whenever it is aborted or     *)
(* shut down.                                                               *)
(***************************************************************************)
THEOREM SourcesCorrect == Spec => []SourcesOwned
<1>1. Init => SourcesInv BY DEF Init, SourcesInv
<1>2. SourcesInv => SourcesOwned BY DEF SourcesInv, SourcesOwned
<1> QED BY <1>1, <1>2, InitTyped, TypeStep, SourcesStep, PTL DEF Spec

-----------------------------------------------------------------------------
(***************************************************************************)
(* The I/O signal.                                                          *)
(***************************************************************************)
LEMMA IoStep == TypeOK /\ IoInv /\ SourcesInv /\ [Next]_vars => IoInv'
<1> SUFFICES ASSUME TypeOK, IoInv, SourcesInv, [Next]_vars PROVE IoInv' BY ZenonT(60)
<1> USE DEF IoInv, IoStates
<1>1. CASE UNCHANGED vars BY <1>1 DEF vars, vmVars
<1>2. CASE Start
  <2>1. /\ machineState' \in {"IDLE", "SCRIPT_FREEZE"} /\ mainPc = "loop"
        /\ UNCHANGED <<mainPc, ioFrozen>> /\ ~active /\ (~active' => machineState' = "IDLE")
    BY <1>2 DEF Start, StartCommon
  <2> QED BY ZenonT(60), <2>1
<1>3. CASE Poll
  <2>1. /\ mainPc = "loop" /\ mainPc' \in {"switch", "exit", "onError"}
        /\ UNCHANGED <<machineState, ioFrozen, active>>
    BY ZenonT(60), <1>3 DEF Poll, PollPending, PollError, PollFinished, PollStarts, RunCallback,
                       CommitSent,
       SyncDriverReadyForSnapshot, NullReadyForSnapshot, TypeOK, VmTypeOK, Callbacks
  <2> QED BY <2>1
<1>4. CASE Switch
  <2>1. CASE EnableSyncWait BY <2>1 DEF EnableSyncWait, InSwitch
  <2>2. CASE EnableSync BY ZenonT(60), <2>2 DEF EnableSync, AfterFreezeWait, InSwitch
  <2>3. CASE StayFrozen BY Zenon, <2>3 DEF StayFrozen, InSwitch
  <2>4. CASE StartThawScripts BY Zenon, <2>4 DEF StartThawScripts, InSwitch
  <2>5. CASE StartFailScripts BY Zenon, <2>5 DEF StartFailScripts, InSwitch
  <2>6. CASE BackToIdle BY Zenon, <2>6 DEF BackToIdle, InSwitch
  <2> QED BY ZenonT(60), <1>4, <2>1, <2>2, <2>3, <2>4, <2>5, <2>6 DEF Switch
<1>5. CASE OnError
  <2>1. CASE OnErrorRunScripts BY Zenon, <2>1 DEF OnErrorRunScripts, InOnError
  <2>2. CASE OnErrorSync BY Zenon, <2>2 DEF OnErrorSync, InOnError
  <2>3. CASE OnErrorThaw BY Zenon, <2>3 DEF OnErrorThaw, InOnError
  <2> QED BY Zenon, <1>5, <2>1, <2>2, <2>3 DEF OnError
<1>6. CASE Exit
  <2>1. machineState' = machineState /\ (active' = active \/ machineState = "IDLE")
    BY Zenon, <1>6 DEF Exit, Finalize
  <2> QED BY Zenon, <1>6, <2>1 DEF Exit
<1>7. CASE SnapshotDone
  BY Zenon, <1>7 DEF SnapshotDone, AcceptsSnapshotDone
<1>8. CASE Abort \/ AbortTimer
  <2>1. CASE DoAbort BY ZenonT(60), <2>1 DEF DoAbort, AfterCancel
  <2>2. CASE ~DoAbort BY SMTT(60), <1>8, <2>2 DEF Abort, AbortTimer
  <2> QED BY Zenon, <2>1, <2>2
<1>9. CASE AbortThaw BY Zenon, <1>9 DEF AbortThaw
<1>10. CASE Shutdown BY Zenon, <1>10 DEF Shutdown, Finalize
<1>11. CASE Crash
  <2>1. mainPc \in {"loop", "switch", "onError", "exit", "abortThaw"}
    BY Zenon, <1>11 DEF Crash, GError, NullDereference
  <2> QED BY Zenon, <1>11, <2>1 DEF Crash
<1>12. ASSUME NEW s \in Sessions, Worker(s) PROVE IoInv'
  <2>1. UNCHANGED <<machineState, mainPc, ioFrozen, active>>
    BY SMTT(60), <1>12 DEF Worker, WorkerStarts, WorkerFreezes, WorkerPublishes, WorkerSetsOp,
                           WorkerMoves
  <2> QED BY ZenonT(60), <2>1
<1>13. CASE ScriptProcess BY <1>13 DEF ScriptProcess, vmVars
<1> QED BY ZenonT(60), <1>1, <1>2, <1>3, <1>4, <1>5, <1>6, <1>7, <1>8, <1>9, <1>10, <1>11, <1>12,
           <1>13
        DEF Next, MainThread

(***************************************************************************)
(* Between handlers the I/O signal tells the truth: logging and config      *)
(* checks are never left suspended after a backup, whatever fails and       *)
(* whenever it is aborted.                                                  *)
(***************************************************************************)
THEOREM IoSignalCorrect == Spec => []IoSignalMatchesState
<1>1. Init => SourcesInv BY DEF Init, SourcesInv
<1>2. Init => IoInv BY DEF Init, IoInv, IoStates
<1>3. IoInv => IoSignalMatchesState
  BY DEF IoInv, IoStates, IoSignalMatchesState
<1> QED BY <1>1, <1>2, <1>3, InitTyped, TypeStep, SourcesStep, IoStep, PTL DEF Spec

-----------------------------------------------------------------------------

(***************************************************************************)
(* The freeze.  An abort or a shutdown during the freeze, and a thaw that   *)
(* fails, are excluded: they do leave file systems frozen.                  *)
(***************************************************************************)
OrderlyEnvironment ==
    /\ "SYNC_FREEZE_WAIT" \notin AbortStates
    /\ ShutdownStates \cap {"SCRIPT_FREEZE", "SYNC_FREEZE_WAIT", "SYNC_FREEZE"} = {}
    /\ "thaw" \notin Faults

FreezingPcs == {"loop", "switch", "exit"}

ActiveInv ==
    /\ ~active => /\ machineState = "IDLE" /\ mainPc \in {"loop", "stopped"}
                  /\ currentOp = NoOp /\ callback = "none" /\ clientData = 0
    /\ mainPc = "abortThaw" => machineState = "SYNC_FREEZE"

HandleInv ==
    /\ clientData \in {0, session}
    /\ clientData # 0 => cell[clientData] \in {"invalid", "frozen", "empty"}
    /\ machineState = "SCRIPT_FREEZE" => clientData = 0

WorkerInv ==
    \A s \in Sessions : worker[s] # "none" =>
        /\ active /\ s = session /\ machineState = "SYNC_FREEZE_WAIT"
        /\ mainPc \in FreezingPcs
        /\ currentOp = NoOp /\ callback = "none" /\ freezeStatus = "PENDING"
        /\ worker[s] = "queuedNull" <=> provider = "null"
        /\ worker[s] = "setOp" <=> clientData # 0
        /\ worker[s] = "publish" => cell[s] \in {"invalid", "frozen", "empty"}

CurrentOpInv ==
    /\ currentOp.kind = "freeze" => machineState = "SYNC_FREEZE_WAIT" /\ freezeStatus = "PENDING"
    /\ currentOp.kind = "script" =>
          machineState \in {"SCRIPT_FREEZE", "SCRIPT_THAW", "SCRIPT_ERROR", "IDLE"}
    /\ mainPc = "switch" /\ machineState # "SYNC_FREEZE_WAIT" => currentOp = NoOp

CallbackInv ==
    callback # "none" =>
        /\ machineState = "SYNC_FREEZE_WAIT" /\ mainPc \in FreezingPcs
        /\ freezeStatus = "PENDING"
        /\ callback = "SyncDriverReady" <=> provider = "syncDriver"

FrozenInv ==
    frozen =>
        /\ active /\ provider = "syncDriver" /\ session # 0 /\ cell[session] = "frozen"
        /\ worker[session] = "publish" \/ clientData = session
        /\ machineState \in {"SYNC_FREEZE_WAIT", "SYNC_FREEZE"}
        /\ machineState = "SYNC_FREEZE_WAIT" => freezeStatus # "ERROR"
        /\ mainPc # "onError"

CommitInv ==
    /\ committed =>
          /\ freezeStatus = "FINISHED" /\ mainPc # "onError"
          /\ machineState = "SYNC_FREEZE" \/ (machineState = "SYNC_FREEZE_WAIT" /\ mainPc = "switch")
          /\ provider = "syncDriver" => ValidHandle(clientData)
    /\ machineState = "SYNC_FREEZE_WAIT" /\ freezeStatus = "FINISHED" => committed
    /\ machineState = "SYNC_FREEZE" /\ mainPc # "onError" => committed
    /\ machineState = "SYNC_FREEZE_WAIT" /\ mainPc = "onError" => freezeStatus = "ERROR"

FreezeInv == ActiveInv /\ HandleInv /\ WorkerInv /\ CurrentOpInv /\ CallbackInv /\ FrozenInv
             /\ CommitInv

-----------------------------------------------------------------------------
(***************************************************************************)
(* The freeze.                                                              *)
(***************************************************************************)
LEMMA StartScriptsOp ==
    ASSUME NEW type, NEW ok \in BOOLEAN, StartScripts(type, ok)
    PROVE  /\ currentOp' \in {currentOp, NoOp} \/ (currentOp'.kind = "script" /\ ok)
           /\ callback' \in {callback, "none"}
  BY DEF StartScripts

LEMMA ScriptOpNotOthers == /\ NoOp.kind = "none"
                           /\ \A k, c : [kind |-> k, cell |-> c].kind = k
  BY DEF NoOp

LEMMA CellUpdate ==
    ASSUME TypeOK, NEW c, NEW v
    PROVE  \A d \in Sessions : [cell EXCEPT ![c] = v][d] = IF d = c THEN v ELSE cell[d]
  BY DEF TypeOK, VmTypeOK

LEMMA FreezeInvStart == ASSUME TypeOK, FreezeInv, Start PROVE FreezeInv'
<1> USE DEF FreezeInv
<1>1. PICK s \in Sessions, l \in Layouts, p \in Providers, exec \in BOOLEAN :
         StartCommon(s, l, p, exec)
  BY Zenon DEF Start
<1>2. /\ mainPc = "loop" /\ ~active /\ UNCHANGED <<mainPc, worker, frozen, committed>>
      /\ clientData' = 0 /\ callback' = "none"
      /\ machineState' \in {"IDLE", "SCRIPT_FREEZE"}
      /\ active' \in BOOLEAN /\ (~active' => machineState' = "IDLE" /\ currentOp' = NoOp)
      /\ currentOp' = NoOp \/ (currentOp'.kind = "script" /\ machineState' = "SCRIPT_FREEZE")
  BY <1>1, ScriptOpNotOthers DEF StartCommon
<1>3. ~frozen /\ ~committed /\ \A t \in Sessions : worker[t] = "none"
  BY <1>2 DEF FrozenInv, CommitInv, WorkerInv, ActiveInv
<1>4. ActiveInv' BY <1>2 DEF ActiveInv
<1>5. HandleInv' BY Zenon, <1>2 DEF HandleInv
<1>6. WorkerInv' BY Zenon, <1>2, <1>3 DEF WorkerInv
<1>7. CurrentOpInv' BY ZenonT(60), <1>2, ScriptOpNotOthers DEF CurrentOpInv
<1>8. CallbackInv' BY <1>2 DEF CallbackInv
<1>9. FrozenInv' BY Zenon, <1>2, <1>3 DEF FrozenInv
<1>10. CommitInv' BY Zenon, <1>2, <1>3 DEF CommitInv
<1> QED BY ZenonT(60), <1>4, <1>5, <1>6, <1>7, <1>8, <1>9, <1>10

(***************************************************************************)
(* The ready callbacks run in SYNC_FREEZE_WAIT, after the pool thread is    *)
(* done: they commit with a valid handle, or thaw.                          *)
(***************************************************************************)
LEMMA FreezeInvPoll ==
    ASSUME TypeOK, FreezeInv, OrderlyEnvironment, Poll
    PROVE  FreezeInv'
<1> USE DEF FreezeInv
<1>1. /\ mainPc = "loop" /\ active
      /\ UNCHANGED <<session, active, machineState, provider, clientData, worker>>
  BY DEF Poll, PollPending, PollError, PollFinished, PollStarts
<1>2. CASE PollPending \/ PollError
  <2>1. /\ currentOp.kind = "script" /\ currentOp' \in {currentOp, NoOp}
        /\ mainPc' \in {"exit", "onError"}
        /\ UNCHANGED <<callback, cell, frozen, committed, freezeStatus>>
    BY <1>2 DEF PollPending, PollError
  <2>2. machineState \in {"SCRIPT_FREEZE", "SCRIPT_THAW", "SCRIPT_ERROR", "IDLE"}
    BY <2>1 DEF CurrentOpInv
  <2>3. ~frozen /\ ~committed /\ callback = "none" /\ \A t \in Sessions : worker[t] = "none"
    BY <2>2 DEF FrozenInv, CommitInv, CallbackInv, WorkerInv
  <2>4. ActiveInv' BY <1>1, <2>1 DEF ActiveInv
  <2>5. HandleInv' BY Zenon, <1>1, <2>1 DEF HandleInv
  <2>6. WorkerInv' BY Zenon, <1>1, <2>3 DEF WorkerInv
  <2>7. CurrentOpInv' BY Zenon, <1>1, <2>1, <2>2, ScriptOpNotOthers DEF CurrentOpInv
  <2>8. CallbackInv' BY Zenon, <2>1, <2>3 DEF CallbackInv
  <2>9. FrozenInv' BY Zenon, <2>1, <2>3 DEF FrozenInv
  <2>10. CommitInv' BY ZenonT(60), <1>1, <2>1, <2>2, <2>3 DEF CommitInv
  <2> QED BY ZenonT(60), <2>4, <2>5, <2>6, <2>7, <2>8, <2>9, <2>10
<1>3. CASE PollFinished
  <2>1. currentOp' = NoOp /\ callback' = "none" /\ RunCallback
    BY ZenonT(60), <1>3 DEF PollFinished, RunCallback
  <2>2. CASE callback = "none"
    <3>1. mainPc' = "switch" /\ UNCHANGED <<cell, frozen, committed, freezeStatus>>
      BY Zenon, <2>1, <2>2 DEF RunCallback
    <3>2. ActiveInv' BY Zenon, <1>1, <3>1 DEF ActiveInv
    <3>3. HandleInv' BY Zenon, <1>1, <3>1 DEF HandleInv
    <3>4. WorkerInv' BY Zenon, <1>1, <2>1, <3>1 DEF WorkerInv, FreezingPcs
    <3>5. CurrentOpInv' BY Zenon, <2>1, ScriptOpNotOthers DEF CurrentOpInv
    <3>6. CallbackInv' BY Zenon, <2>1 DEF CallbackInv
    <3>7. FrozenInv' BY Zenon, <1>1, <3>1 DEF FrozenInv
    <3>8. ValidHandle(clientData)' = ValidHandle(clientData)
      BY Zenon, <1>1, <3>1 DEF ValidHandle
    <3>9. CommitInv' BY ZenonT(60), <1>1, <3>1, <3>8 DEF CommitInv
    <3> QED BY ZenonT(60), <3>2, <3>3, <3>4, <3>5, <3>6, <3>7, <3>9
  <2>3. CASE callback # "none"
    <3>1. machineState = "SYNC_FREEZE_WAIT" /\ freezeStatus = "PENDING" /\ ~committed
      BY ZenonT(60), <1>1, <2>3 DEF CallbackInv, CommitInv
    <3>2. \A t \in Sessions : worker[t] = "none"
      BY <2>3 DEF WorkerInv
    <3>3. frozen => ValidHandle(clientData) /\ cell[clientData] = "frozen"
      <4>1. session \in 0 .. MaxSessions BY DEF TypeOK, VmTypeOK
      <4> QED BY <3>2, <4>1 DEF FrozenInv, ValidHandle, Sessions
    <3>4. ~DanglingHandle(clientData)
      BY DEF HandleInv, DanglingHandle
    <3>5. callback = "SyncDriverReady" <=> provider = "syncDriver"
      BY ZenonT(60), <2>3 DEF CallbackInv
    <3>6. \/ /\ CommitSent /\ (provider = "syncDriver" => ValidHandle(clientData))
          \/ /\ freezeStatus' = "ERROR" /\ mainPc' \in {"onError", "switch"} /\ ~frozen'
             /\ UNCHANGED committed /\ (cell' = cell \/ cell' = [cell EXCEPT ![clientData] = "invalid"])
      <4>1. CASE callback = "SyncDriverReady"
        BY Zenon, <2>1, <3>3, <3>4, <4>1 DEF RunCallback, SyncDriverReadyForSnapshot, DriverThaw,
           OrderlyEnvironment
      <4>2. CASE callback = "NullReady"
        <5>1. ~frozen BY <3>5, <4>2 DEF FrozenInv
        <5> QED BY <2>1, <3>5, <4>2, <5>1 DEF RunCallback, NullReadyForSnapshot
      <4> QED BY <2>3, <4>1, <4>2 DEF TypeOK, VmTypeOK, Callbacks
    <3>7. mainPc' \in {"switch", "onError"} BY <3>6 DEF CommitSent
    <3>8. ActiveInv' BY <1>1, <3>7 DEF ActiveInv
    <3>9. HandleInv'
      <4>1. clientData # 0 => clientData \in Sessions
        <5>1. clientData \in 0 .. MaxSessions /\ MaxSessions \in Nat
          BY VmBackupAssumption DEF TypeOK, VmTypeOK
        <5> QED BY <5>1 DEF Sessions
      <4>2. clientData # 0 => [cell EXCEPT ![clientData] = "invalid"][clientData] = "invalid"
        BY <4>1, CellUpdate
      <4>3. cell' = cell \/ cell' = [cell EXCEPT ![clientData] = "invalid"]
        BY Zenon, <3>6 DEF CommitSent
      <4> QED BY Zenon, <1>1, <4>2, <4>3 DEF HandleInv
    <3>10. WorkerInv' BY <1>1, <3>2 DEF WorkerInv
    <3>11. CurrentOpInv' BY <2>1, ScriptOpNotOthers DEF CurrentOpInv
    <3>12. CallbackInv' BY <2>1 DEF CallbackInv
    <3>13. FrozenInv' BY ZenonT(60), <1>1, <3>6 DEF CommitSent, FrozenInv
    <3>14. CommitSent => (ValidHandle(clientData)' <=> ValidHandle(clientData))
      BY Zenon, <1>1 DEF ValidHandle, CommitSent
    <3>15. CommitInv' BY <1>1, <3>1, <3>6, <3>14 DEF CommitSent, CommitInv
    <3> QED BY <3>8, <3>9, <3>10, <3>11, <3>12, <3>13, <3>15
  <2> QED BY <2>2, <2>3
<1> QED BY Zenon, <1>2, <1>3 DEF Poll

\* Outside the freeze nothing is frozen, committed or left to a pool thread.
LEMMA Quiet ==
    FreezeInv /\ machineState \notin {"SYNC_FREEZE_WAIT", "SYNC_FREEZE"} =>
        /\ ~frozen /\ ~committed /\ callback = "none"
        /\ \A t \in Sessions : worker[t] = "none"
  BY Zenon DEF FreezeInv, FrozenInv, CommitInv, CallbackInv, WorkerInv

LEMMA QuietStep ==
    ASSUME machineState' \notin {"SYNC_FREEZE_WAIT", "SYNC_FREEZE"}, ~frozen', ~committed',
           callback' = "none", \A t \in Sessions : worker'[t] = "none",
           ActiveInv', HandleInv', CurrentOpInv'
    PROVE  FreezeInv'
  BY Zenon DEF FreezeInv, FrozenInv, CommitInv, CallbackInv, WorkerInv

LEMMA FreezeInvSwitch == ASSUME TypeOK, FreezeInv, Switch PROVE FreezeInv'
<1> USE DEF FreezeInv
<1>1. /\ mainPc = "switch" /\ active
      /\ UNCHANGED <<session, active, provider, clientData, cell, frozen, committed>>
  BY DEF Switch, EnableSyncWait, EnableSync, StayFrozen, StartThawScripts, StartFailScripts,
         BackToIdle, InSwitch, ActiveInv
<1>2. machineState' # "SCRIPT_FREEZE" \/ machineState' = machineState => HandleInv'
  BY Zenon, <1>1 DEF HandleInv
<1>3. CASE EnableSyncWait
  <2>1. machineState = "SCRIPT_FREEZE" BY <1>3 DEF EnableSyncWait, InSwitch
  <2>2. currentOp = NoOp BY <1>1, <2>1 DEF CurrentOpInv
  <2>3. /\ ~frozen /\ ~committed /\ callback = "none"
        /\ \A t \in Sessions : worker[t] = "none"
    BY Zenon, <2>1, Quiet
  <2>4. /\ freezeStatus' = "PENDING" /\ UNCHANGED <<currentOp, callback>>
        /\ \/ /\ machineState' = "SYNC_FREEZE_WAIT" /\ mainPc' = "exit"
              /\ worker' = [worker EXCEPT ![session] = IF provider = "null" THEN "queuedNull" ELSE "queued"]
           \/ mainPc' = "onError" /\ UNCHANGED <<worker, machineState>>
    BY <1>3 DEF EnableSyncWait
  <2>5. clientData = 0 BY Zenon, <2>1 DEF HandleInv
  <2>6. CASE mainPc' = "onError"
    BY Zenon, <1>1, <1>2, <2>1, <2>2, <2>3, <2>4, <2>6, QuietStep, ScriptOpNotOthers
       DEF ActiveInv, CurrentOpInv
  <2>7. CASE mainPc' = "exit"
    <3>1. ActiveInv' BY Zenon, <1>1, <2>4, <2>7 DEF ActiveInv
    <3>2. WorkerInv'
      BY ZenonT(60), <1>1, <2>2, <2>3, <2>4, <2>5, <2>7 DEF WorkerInv, FreezingPcs, TypeOK,
             VmTypeOK
    <3>3. CurrentOpInv' BY Zenon, <2>2, <2>4, ScriptOpNotOthers DEF CurrentOpInv
    <3>4. CallbackInv' BY Zenon, <2>3, <2>4 DEF CallbackInv
    <3>5. FrozenInv' BY Zenon, <1>1, <2>3 DEF FrozenInv
    <3>6. CommitInv' BY Zenon, <1>1, <2>3, <2>4, <2>7 DEF CommitInv
    <3>7. HandleInv' BY ZenonT(60), <1>2, <2>1, <2>4, <2>7
    <3> QED BY Zenon, <3>1, <3>2, <3>3, <3>4, <3>5, <3>6, <3>7
  <2> QED BY ZenonT(60), <2>4, <2>6, <2>7
<1>4. CASE EnableSync
  <2>1. /\ machineState = "SYNC_FREEZE_WAIT" /\ UNCHANGED <<freezeStatus, worker, currentOp, callback>>
        /\ mainPc' = IF freezeStatus = "ERROR" THEN "onError" ELSE "exit"
        /\ machineState' = IF freezeStatus = "FINISHED" THEN "SYNC_FREEZE" ELSE machineState
    BY Zenon, <1>4 DEF EnableSync, InSwitch, AfterFreezeWait
  <2>2. ActiveInv' BY Zenon, <1>1, <2>1 DEF ActiveInv
  <2>3. WorkerInv' BY Zenon, <1>1, <2>1 DEF WorkerInv, FreezingPcs
  <2>5. CurrentOpInv' BY Zenon, <2>1 DEF CurrentOpInv
  <2>6. CallbackInv' BY Zenon, <1>1, <2>1 DEF CallbackInv, FreezingPcs
  <2>7. FrozenInv' BY Zenon, <1>1, <2>1 DEF FrozenInv
  <2>8. ValidHandle(clientData)' = ValidHandle(clientData) BY Zenon, <1>1 DEF ValidHandle
  <2>9. CommitInv' BY Zenon, <1>1, <2>1, <2>8 DEF CommitInv
  <2>10. HandleInv' BY Zenon, <1>2, <2>1
  <2> QED BY <2>2, <2>3, <2>5, <2>6, <2>7, <2>9, <2>10
<1>5. CASE StayFrozen
  <2>1. /\ machineState = "SYNC_FREEZE" /\ mainPc' = "exit"
        /\ UNCHANGED <<machineState, freezeStatus, worker, currentOp, callback>>
    BY Zenon, <1>5 DEF StayFrozen, InSwitch
  <2>2. ValidHandle(clientData)' = ValidHandle(clientData) BY <1>1 DEF ValidHandle
  <2> QED BY Zenon, <1>1, <1>2, <2>1, <2>2
          DEF ActiveInv, WorkerInv, CurrentOpInv, CallbackInv, FrozenInv, CommitInv
<1>6. CASE StartThawScripts \/ StartFailScripts \/ BackToIdle
  <2>1. /\ machineState \notin {"SYNC_FREEZE_WAIT", "SYNC_FREEZE"}
        /\ machineState' \in {"SYNC_THAW", "SYNC_ERROR", "SCRIPT_THAW", "SCRIPT_ERROR", "IDLE"}
        /\ mainPc' \in {"exit", "onError"} /\ UNCHANGED worker
    BY Zenon, <1>6 DEF StartThawScripts, StartFailScripts, BackToIdle, InSwitch
  <2>2. currentOp = NoOp BY Zenon, <1>1, <2>1 DEF CurrentOpInv
  <2>3. /\ callback' \in {callback, "none"}
        /\ currentOp' = NoOp \/ (currentOp'.kind = "script" /\ machineState' \in {"SCRIPT_THAW", "SCRIPT_ERROR"})
    BY Zenon, <1>6, <2>2, StartScriptsOp DEF StartThawScripts, StartFailScripts, BackToIdle
  <2>4. CurrentOpInv' BY Zenon, <2>1, <2>3, ScriptOpNotOthers DEF CurrentOpInv
  <2>5. ActiveInv' BY Zenon, <1>1, <2>1 DEF ActiveInv
  <2>6. HandleInv' BY Zenon, <1>1, <2>1 DEF HandleInv
  <2>7. /\ ~frozen /\ ~committed /\ callback = "none"
        /\ \A t \in Sessions : worker[t] = "none"
    BY <2>1, Quiet
  <2>8. machineState' \notin {"SYNC_FREEZE_WAIT", "SYNC_FREEZE"} BY Zenon, <2>1
  <2> QED BY ZenonT(60), <1>1, <2>1, <2>3, <2>4, <2>5, <2>6, <2>7, <2>8, QuietStep
<1> QED BY ZenonT(60), <1>3, <1>4, <1>5, <1>6 DEF Switch

LEMMA FreezeInvOnError == ASSUME TypeOK, FreezeInv, OnError PROVE FreezeInv'
<1> USE DEF FreezeInv
<1>1. /\ mainPc = "onError" /\ mainPc' = "exit" /\ active
      /\ UNCHANGED <<session, active, freezeStatus, provider, clientData, worker, cell, frozen, committed>>
  BY Zenon DEF OnError, OnErrorRunScripts, OnErrorSync, OnErrorThaw, InOnError, ActiveInv
<1>2. ~frozen /\ ~committed /\ callback = "none" /\ \A t \in Sessions : worker[t] = "none"
  BY Zenon, <1>1 DEF FrozenInv, CommitInv, CallbackInv, WorkerInv, FreezingPcs
<1>3. machineState' \in {"SCRIPT_ERROR", "IDLE", "SYNC_ERROR"}
  BY Zenon DEF OnError, OnErrorRunScripts, OnErrorSync, OnErrorThaw
<1>4. ActiveInv' BY <1>1 DEF ActiveInv
<1>5. HandleInv' BY <1>1, <1>3 DEF HandleInv
<1>6. CurrentOpInv' /\ callback' = "none"
  <2>1. CASE OnErrorRunScripts
    <3>1. PICK ok \in BOOLEAN : /\ StartScripts("FREEZE_FAIL", ok)
                                /\ machineState' = IF ok THEN "SCRIPT_ERROR" ELSE "IDLE"
      BY Zenon, <2>1 DEF OnErrorRunScripts
    <3>2. machineState \in {"SCRIPT_FREEZE", "SYNC_ERROR"} BY Zenon, <2>1 DEF OnErrorRunScripts,
                                                                  InOnError
    <3>3. currentOp'.kind = "freeze" => FALSE
      BY Zenon, <3>1, <3>2, StartScriptsOp, ScriptOpNotOthers DEF CurrentOpInv
    <3>4. callback' = "none" BY Zenon, <1>2, <3>1, StartScriptsOp
    <3> QED BY Zenon, <1>1, <1>3, <3>1, <3>3, <3>4 DEF CurrentOpInv
  <2>2. CASE OnErrorSync
    BY Zenon, <1>1, <1>2, <2>2 DEF OnErrorSync, InOnError, CurrentOpInv, CommitInv
  <2>3. CASE OnErrorThaw
    BY Zenon, <1>1, <1>2, <2>3 DEF OnErrorThaw, InOnError, CurrentOpInv
  <2> QED BY Zenon, <2>1, <2>2, <2>3 DEF OnError
<1>7. machineState' \notin {"SYNC_FREEZE_WAIT", "SYNC_FREEZE"} BY Zenon, <1>3
<1> QED BY Zenon, <1>1, <1>2, <1>4, <1>5, <1>6, <1>7, QuietStep

LEMMA FreezeInvFinalize ==
    ASSUME TypeOK, FreezeInv, Finalize, mainPc' \in {"loop", "stopped"}, UNCHANGED frozen,
           machineState \notin {"SYNC_FREEZE_WAIT", "SYNC_FREEZE"},
           \A t \in Sessions : worker'[t] = "none"
    PROVE  FreezeInv'
<1>1. ~frozen BY Zenon, Quiet
<1>2. /\ ~active' /\ machineState' = "IDLE" /\ currentOp' = NoOp /\ callback' = "none"
      /\ clientData' = 0 /\ ~committed'
  BY ZenonT(60) DEF Finalize
<1>3. ActiveInv' /\ HandleInv' /\ CurrentOpInv'
  BY <1>2, ScriptOpNotOthers DEF ActiveInv, HandleInv, CurrentOpInv
<1> QED BY Zenon, <1>1, <1>2, <1>3, QuietStep

LEMMA FreezeInvExit == ASSUME TypeOK, FreezeInv, Exit PROVE FreezeInv'
<1>1. /\ mainPc = "exit" /\ mainPc' = "loop"
      /\ UNCHANGED <<session, freezeStatus, provider, worker, frozen>>
  BY Zenon DEF Exit
<1>2. CASE machineState = "IDLE"
  BY Zenon, <1>1, <1>2, Quiet, FreezeInvFinalize DEF Exit
<1>3. CASE machineState # "IDLE"
  <2>1. UNCHANGED <<active, machineState, currentOp, callback, clientData, committed, cell>>
    BY <1>3 DEF Exit
  <2>2. ValidHandle(clientData)' = ValidHandle(clientData) BY Zenon, <2>1 DEF ValidHandle
  <2> QED BY ZenonT(60), <1>1, <2>1, <2>2
          DEF FreezeInv, ActiveInv, HandleInv, WorkerInv, CurrentOpInv, CallbackInv, FrozenInv,
              CommitInv, FreezingPcs
<1> QED BY Zenon, <1>2, <1>3

(***************************************************************************)
(* provider->snapshotDone with the handle of a committed freeze thaws it.   *)
(***************************************************************************)
LEMMA SnapshotDoneThaws ==
    ASSUME TypeOK, FreezeInv, OrderlyEnvironment, machineState = "SYNC_FREEZE", mainPc # "onError",
           NEW ok \in BOOLEAN, ProviderSnapshotDone(ok), UNCHANGED session
    PROVE  /\ ok /\ ~frozen' /\ callback' = "none"
           /\ clientData' \in {0, session} /\ (clientData' # 0 => cell'[clientData'] \in {"invalid", "frozen", "empty"})
           /\ currentOp'.kind \in {"thaw", "null"}
<1> USE DEF FreezeInv
<1>1. \A t \in Sessions : worker[t] = "none" BY Zenon DEF WorkerInv
<1>2. CASE provider = "null"
  <2>1. ~frozen BY Zenon, <1>2 DEF FrozenInv
  <2> QED BY Zenon, <1>2, <2>1, ScriptOpNotOthers DEF ProviderSnapshotDone, HandleInv
<1>3. CASE provider # "null"
  <2>1. ok BY <1>3 DEF ProviderSnapshotDone, DriverThaw, OrderlyEnvironment
  <2>2. frozen => clientData = session /\ cell[session] = "frozen"
    <3>1. session \in 0 .. MaxSessions BY DEF TypeOK, VmTypeOK
    <3> QED BY <1>1, <3>1 DEF FrozenInv, Sessions
  <2>3. ~frozen' BY ZenonT(60), <1>3, <2>1, <2>2 DEF ProviderSnapshotDone, DriverThaw
  <2> QED BY ZenonT(60), <1>3, <2>1, <2>3, ScriptOpNotOthers DEF ProviderSnapshotDone
<1> QED BY Zenon, <1>2, <1>3

LEMMA FreezeInvSnapshotDone ==
    ASSUME TypeOK, FreezeInv, OrderlyEnvironment, SnapshotDone
    PROVE  FreezeInv'
<1>1. /\ mainPc = "loop" /\ active /\ machineState = "SYNC_FREEZE"
      /\ ~committed' /\ UNCHANGED <<session, active, freezeStatus, provider, worker>>
  BY DEF SnapshotDone, AcceptsSnapshotDone
<1>2. PICK ok \in BOOLEAN : /\ ProviderSnapshotDone(ok)
                            /\ machineState' = IF ok THEN "SYNC_THAW" ELSE machineState
                            /\ mainPc' = IF ok THEN "loop" ELSE "onError"
  BY Zenon DEF SnapshotDone
<1>3. /\ ok /\ ~frozen' /\ callback' = "none"
      /\ clientData' \in {0, session} /\ (clientData' # 0 => cell'[clientData'] \in {"invalid", "frozen", "empty"})
      /\ currentOp'.kind \in {"thaw", "null"}
  BY Zenon, <1>1, <1>2, SnapshotDoneThaws
<1>4. \A t \in Sessions : worker[t] = "none" BY Zenon, <1>1 DEF FreezeInv, WorkerInv
<1>5. ActiveInv' BY <1>1, <1>2, <1>3 DEF ActiveInv
<1>6. HandleInv' BY <1>1, <1>2, <1>3 DEF HandleInv
<1>7. CurrentOpInv' BY <1>2, <1>3 DEF CurrentOpInv
<1>8. machineState' \notin {"SYNC_FREEZE_WAIT", "SYNC_FREEZE"} BY Zenon, <1>2, <1>3
<1> QED BY Zenon, <1>1, <1>3, <1>4, <1>5, <1>6, <1>7, <1>8, QuietStep

LEMMA FreezeInvAbortThaw ==
    ASSUME TypeOK, FreezeInv, OrderlyEnvironment, AbortThaw
    PROVE  FreezeInv'
<1>1. /\ mainPc = "abortThaw" /\ machineState = "SYNC_FREEZE" /\ mainPc' = "onError" /\ ~committed'
      /\ UNCHANGED <<session, active, machineState, freezeStatus, provider, worker>>
  BY DEF AbortThaw, FreezeInv, ActiveInv
<1>2. active BY Zenon, <1>1 DEF FreezeInv, ActiveInv
<1>3. /\ ~frozen' /\ callback' = "none"
      /\ clientData' \in {0, session} /\ (clientData' # 0 => cell'[clientData'] \in {"invalid", "frozen", "empty"})
      /\ currentOp'.kind \in {"thaw", "null"}
  BY Zenon, <1>1, SnapshotDoneThaws DEF AbortThaw
<1>4. \A t \in Sessions : worker[t] = "none" BY ZenonT(60), <1>1 DEF FreezeInv, WorkerInv
<1> QED BY ZenonT(60), <1>1, <1>2, <1>3, <1>4
        DEF FreezeInv, ActiveInv, HandleInv, WorkerInv, CurrentOpInv, CallbackInv, FrozenInv, CommitInv

LEMMA FreezeInvAbort ==
    ASSUME TypeOK, FreezeInv, OrderlyEnvironment, DoAbort
    PROVE  FreezeInv'
<1> USE DEF FreezeInv
<1>1. /\ mainPc = "loop" /\ active /\ machineState # "SYNC_FREEZE_WAIT"
      /\ currentOp' = NoOp
      /\ mainPc' = IF machineState = "SYNC_FREEZE" THEN "abortThaw" ELSE "onError"
      /\ committed' = (committed /\ machineState = "SYNC_FREEZE")
      /\ UNCHANGED <<session, active, machineState, freezeStatus, provider, callback, clientData,
                     worker, frozen>>
  BY Zenon DEF DoAbort, AfterCancel, OrderlyEnvironment
<1>2. cell' = cell
  BY ZenonT(60), <1>1 DEF DoAbort, CancelAndRelease, ReleaseDriverOp, CurrentOpInv
<1>3. \A t \in Sessions : worker[t] = "none" BY <1>1 DEF WorkerInv
<1>4. callback = "none" BY <1>1 DEF CallbackInv
<1>5. ActiveInv' BY Zenon, <1>1 DEF ActiveInv
<1>6. HandleInv' BY Zenon, <1>1, <1>2 DEF HandleInv
<1>7. WorkerInv' BY Zenon, <1>1, <1>3 DEF WorkerInv
<1>8. CurrentOpInv' BY Zenon, <1>1, ScriptOpNotOthers DEF CurrentOpInv
<1>9. CallbackInv' BY Zenon, <1>1, <1>4 DEF CallbackInv
<1>10. FrozenInv' BY ZenonT(60), <1>1, <1>2 DEF FrozenInv
<1>11. ValidHandle(clientData)' = ValidHandle(clientData) BY <1>1, <1>2 DEF ValidHandle
<1>12. CommitInv' BY ZenonT(60), <1>1, <1>11 DEF CommitInv
<1> QED BY <1>5, <1>6, <1>7, <1>8, <1>9, <1>10, <1>12

LEMMA FreezeInvFrame ==
    ASSUME FreezeInv, UNCHANGED <<session, active, machineState, freezeStatus, provider, currentOp,
                                  callback, clientData, mainPc, worker, cell, frozen, committed>>
    PROVE  FreezeInv'
<1>1. ValidHandle(clientData)' = ValidHandle(clientData) BY DEF ValidHandle
<1> QED BY <1>1 DEF FreezeInv, ActiveInv, HandleInv, WorkerInv, CurrentOpInv, CallbackInv,
                    FrozenInv,
                    CommitInv

LEMMA FreezeInvShutdown ==
    ASSUME TypeOK, FreezeInv, OrderlyEnvironment, Shutdown
    PROVE  FreezeInv'
<1>1. machineState \notin {"SYNC_FREEZE_WAIT", "SYNC_FREEZE"} BY DEF Shutdown, OrderlyEnvironment
<1>2. Finalize /\ mainPc' = "stopped" /\ UNCHANGED frozen /\ \A t \in Sessions : worker'[t] = "none"
  BY DEF Shutdown
<1> QED BY <1>1, <1>2, FreezeInvFinalize

(***************************************************************************)
(* The process dies only outside the freeze, or with everything thawed or   *)
(* still owned by the (dead) backup state.                                  *)
(***************************************************************************)
LEMMA FreezeInvCrash == ASSUME TypeOK, FreezeInv, Crash PROVE FreezeInv'
<1> USE DEF FreezeInv
<1>1. /\ mainPc' = "crashed" /\ active
      /\ UNCHANGED <<session, active, machineState, freezeStatus, provider, currentOp, callback,
                     clientData, worker, cell, frozen, committed>>
  BY Zenon DEF Crash, GError, NullDereference, ActiveInv
<1>2. machineState # "SYNC_FREEZE_WAIT"
  BY ZenonT(60) DEF Crash, GError, NullDereference, CancelMayCrash, CurrentOpInv, ActiveInv
<1>3. mainPc = "onError" => machineState # "SYNC_FREEZE"
  BY DEF Crash, GError, NullDereference
<1>4. ValidHandle(clientData)' = ValidHandle(clientData) BY Zenon, <1>1 DEF ValidHandle
<1>5. ActiveInv' BY Zenon, <1>1 DEF ActiveInv
<1>6. HandleInv' BY Zenon, <1>1 DEF HandleInv
<1>7. WorkerInv' BY Zenon, <1>1, <1>2 DEF WorkerInv
<1>8. CurrentOpInv' BY Zenon, <1>1 DEF CurrentOpInv
<1>9. CallbackInv' BY Zenon, <1>1, <1>2 DEF CallbackInv
<1>10. FrozenInv' BY Zenon, <1>1 DEF FrozenInv
<1>11. CommitInv' BY ZenonT(60), <1>1, <1>2, <1>3, <1>4 DEF CommitInv
<1> QED BY Zenon, <1>5, <1>6, <1>7, <1>8, <1>9, <1>10, <1>11

(***************************************************************************)
(* A pool thread freezes, publishes the handle in the state that waits for  *)
(* it, and then installs the operation and its callback.                    *)
(***************************************************************************)
SetterCase(s, from, op, cb) ==
    \/ from = "setOp" /\ op = [kind |-> "freeze", cell |-> s] /\ cb = "SyncDriverReady"
    \/ from = "setNoOp" /\ op = NoOp /\ cb = "SyncDriverReady"
    \/ from = "queuedNull" /\ op = [kind |-> "null", cell |-> 0] /\ cb = "NullReady"

LEMMA FreezeInvWorker ==
    ASSUME TypeOK, FreezeInv, NEW s \in Sessions, Worker(s)
    PROVE  FreezeInv'
<1> USE DEF FreezeInv
<1>1. /\ worker[s] # "none"
      /\ UNCHANGED <<session, active, machineState, freezeStatus, provider, mainPc, committed>>
  BY Zenon DEF Worker, WorkerStarts, WorkerFreezes, WorkerPublishes, WorkerSetsOp, WorkerMoves
<1>2. /\ active /\ s = session /\ machineState = "SYNC_FREEZE_WAIT" /\ mainPc \in FreezingPcs
      /\ currentOp = NoOp /\ callback = "none" /\ freezeStatus = "PENDING"
      /\ StateLive(s) /\ ~committed
  BY ZenonT(60), <1>1 DEF WorkerInv, StateLive, CommitInv
<1>3. \A t \in Sessions : t # s => worker[t] = "none"
  BY <1>2 DEF WorkerInv
<1>4. s # 0 BY VmBackupAssumption DEF Sessions
<1>5. \A v : worker' = [worker EXCEPT ![s] = v] =>
               worker'[s] = v /\ \A t \in Sessions : t # s => worker'[t] = "none"
  BY <1>3 DEF TypeOK, VmTypeOK
<1>6. ActiveInv' BY Zenon, <1>1, <1>2 DEF ActiveInv
<1>7. CommitInv' BY <1>1, <1>2 DEF CommitInv, FreezingPcs
<1>8. CASE WorkerStarts(s)
  <2>1. /\ worker[s] = "queued" /\ worker' = [worker EXCEPT ![s] = "freezing"]
        /\ UNCHANGED <<currentOp, callback, clientData, cell, frozen>>
    BY Zenon, <1>8 DEF WorkerStarts, WorkerMoves
  <2>2. HandleInv' BY Zenon, <1>1, <2>1 DEF HandleInv
  <2>3. WorkerInv'
    <3>1. worker'[s] = "freezing" /\ \A t \in Sessions : t # s => worker'[t] = "none"
      BY Zenon, <1>5, <2>1
    <3> QED BY Zenon, <1>1, <1>2, <2>1, <3>1 DEF WorkerInv
  <2>4. CurrentOpInv' /\ CallbackInv' BY Zenon, <1>1, <2>1 DEF CurrentOpInv, CallbackInv
  <2>5. FrozenInv' BY Zenon, <1>1, <1>2, <1>5, <2>1 DEF FrozenInv
  <2> QED BY ZenonT(60), <1>6, <1>7, <2>2, <2>3, <2>4, <2>5
<1>9. ASSUME NEW result \in FreezeResults, WorkerFreezes(s, result) PROVE FreezeInv'
  <2>1. /\ worker[s] = "freezing"
        /\ worker' = [worker EXCEPT ![s] = IF result = "fail" THEN "setNoOp" ELSE "publish"]
        /\ frozen' = (frozen \/ result = "freeze")
        /\ UNCHANGED <<currentOp, callback, clientData>>
    BY ZenonT(60), <1>9 DEF WorkerFreezes, WorkerMoves
  <2>2. clientData = 0 /\ ~frozen /\ provider = "syncDriver"
    BY <1>1, <1>2, <2>1 DEF WorkerInv, FrozenInv, TypeOK, VmTypeOK, ProviderKinds
  <2>3. result \in FreezeKinds BY VmBackupAssumption
  <2>4. /\ result = "freeze" => cell'[s] = "frozen"
        /\ result # "fail" => cell'[s] \in {"invalid", "frozen", "empty"}
    BY ZenonT(60), <1>9, <2>2, <2>3 DEF WorkerFreezes, FreezeKinds, TypeOK, VmTypeOK
  <2>5. worker'[s] = IF result = "fail" THEN "setNoOp" ELSE "publish"
    BY Zenon, <1>5, <2>1
  <2>6. HandleInv' BY Zenon, <1>1, <1>2, <2>1, <2>2 DEF HandleInv
  <2>7. \A t \in Sessions : t # s => worker'[t] = "none" BY Zenon, <1>5, <2>1
  <2>8. WorkerInv'
    <3>1. /\ worker'[s] # "queuedNull" /\ worker'[s] # "setOp"
          /\ worker'[s] = "publish" => cell'[s] \in {"invalid", "frozen", "empty"}
      BY Zenon, <2>4, <2>5
    <3>2. provider' # "null" /\ clientData' = 0 BY Zenon, <1>1, <2>1, <2>2
    <3> QED BY Zenon, <1>1, <1>2, <2>1, <2>7, <3>1, <3>2 DEF WorkerInv
  <2>9. CurrentOpInv' /\ CallbackInv' BY <1>1, <2>1 DEF CurrentOpInv, CallbackInv
  <2>10. FrozenInv' BY ZenonT(60), <1>1, <1>2, <1>4, <2>1, <2>2, <2>4, <2>5
                       DEF FrozenInv, FreezingPcs
  <2> QED BY <1>6, <1>7, <2>6, <2>8, <2>9, <2>10
<1>10. CASE WorkerPublishes(s)
  <2>1. /\ worker[s] = "publish" /\ worker' = [worker EXCEPT ![s] = "setOp"] /\ clientData' = s
        /\ UNCHANGED <<currentOp, callback, cell, frozen>>
    BY Zenon, <1>2, <1>10 DEF WorkerPublishes, WorkerMoves
  <2>2. cell[s] \in {"invalid", "frozen", "empty"} BY Zenon, <2>1 DEF WorkerInv
  <2>3. HandleInv' BY Zenon, <1>1, <1>2, <2>1, <2>2 DEF HandleInv
  <2>4. provider # "null" BY Zenon, <2>1 DEF WorkerInv
  <2>5. WorkerInv'
    <3>1. worker'[s] = "setOp" /\ \A t \in Sessions : t # s => worker'[t] = "none"
      BY Zenon, <1>5, <2>1
    <3> QED BY ZenonT(60), <1>1, <1>2, <1>4, <2>1, <2>4, <3>1 DEF WorkerInv
  <2>6. CurrentOpInv' /\ CallbackInv' BY Zenon, <1>1, <2>1 DEF CurrentOpInv, CallbackInv
  <2>7. FrozenInv' BY Zenon, <1>1, <1>2, <2>1 DEF FrozenInv
  <2> QED BY <1>6, <1>7, <2>3, <2>5, <2>6, <2>7
<1>11. ASSUME NEW from, NEW op, NEW cb, WorkerSetsOp(s, from, op, cb), SetterCase(s, from, op, cb)
       PROVE  FreezeInv'
  <2>1. /\ worker[s] = from /\ worker' = [worker EXCEPT ![s] = "none"]
        /\ currentOp' = op /\ callback' = cb /\ UNCHANGED <<clientData, cell, frozen>>
    BY SMTT(30), <1>2, <1>11 DEF WorkerSetsOp, WorkerMoves
  <2>2. \A t \in Sessions : worker'[t] = "none" BY Zenon, <1>5, <2>1
  <2>3. op.kind \in {"freeze", "none", "null"} BY ZenonT(60), <1>11, ScriptOpNotOthers
                                                  DEF SetterCase
  <2>4. cb = "SyncDriverReady" <=> provider = "syncDriver"
    BY ZenonT(60), <1>11, <2>1 DEF SetterCase, WorkerInv, TypeOK, VmTypeOK, ProviderKinds
  <2>5. HandleInv' BY Zenon, <1>1, <2>1 DEF HandleInv
  <2>6. WorkerInv' BY Zenon, <2>2 DEF WorkerInv
  <2>7. CurrentOpInv' BY ZenonT(60), <1>1, <1>2, <2>1, <2>3 DEF CurrentOpInv
  <2>8. CallbackInv' BY ZenonT(60), <1>1, <1>2, <2>1, <2>4 DEF CallbackInv
  <2>9. frozen => clientData = session
    BY Zenon, <1>2, <1>11, <2>1 DEF FrozenInv, SetterCase
  <2>10. FrozenInv' BY Zenon, <1>1, <2>1, <2>9 DEF FrozenInv
  <2> QED BY ZenonT(60), <1>6, <1>7, <2>5, <2>6, <2>7, <2>8, <2>10
<1>12. \A from, op, cb : WorkerSetsOp(s, from, op, cb) /\ SetterCase(s, from, op, cb) => FreezeInv'
  BY Zenon, <1>11
<1> QED BY ZenonT(60), <1>8, <1>9, <1>10, <1>12 DEF Worker, SetterCase

LEMMA FreezeInvInit == Init => FreezeInv
  BY Zenon, ScriptOpNotOthers DEF Init, FreezeInv, ActiveInv, HandleInv, WorkerInv, CurrentOpInv,
                           CallbackInv, FrozenInv,
     CommitInv

LEMMA FreezeInvStep ==
    ASSUME OrderlyEnvironment
    PROVE  TypeOK /\ FreezeInv /\ [Next]_vars => FreezeInv'
<1> SUFFICES ASSUME TypeOK, FreezeInv, [Next]_vars PROVE FreezeInv' BY Zenon
<1>1. CASE UNCHANGED vars BY Zenon, <1>1, FreezeInvFrame DEF vars, vmVars
<1>2. CASE AbortTimer /\ ~DoAbort BY Zenon, <1>2, FreezeInvFrame DEF AbortTimer
<1>3. CASE ScriptProcess BY Zenon, <1>3, FreezeInvFrame DEF ScriptProcess, vmVars
<1>4. CASE MainThread
  BY ZenonT(60), <1>4, FreezeInvPoll, FreezeInvSwitch, FreezeInvAbortThaw, FreezeInvOnError,
     FreezeInvExit
     DEF MainThread
<1>5. CASE Start \/ SnapshotDone \/ Shutdown \/ Crash
  BY Zenon, <1>5, FreezeInvStart, FreezeInvSnapshotDone, FreezeInvShutdown, FreezeInvCrash
<1>6. CASE DoAbort BY <1>6, FreezeInvAbort
<1>7. ASSUME NEW s \in Sessions, Worker(s) PROVE FreezeInv' BY <1>7, FreezeInvWorker
<1> QED BY ZenonT(60), <1>1, <1>2, <1>3, <1>4, <1>5, <1>6, <1>7 DEF Next, Abort

LEMMA FreezeInvariant == ASSUME OrderlyEnvironment PROVE Spec => [](TypeOK /\ FreezeInv)
  BY InitTyped, TypeStep, FreezeInvInit, FreezeInvStep, PTL DEF Spec

(***************************************************************************)
(* Unless a freeze is aborted or shut down half way, or a thaw fails, no    *)
(* file system stays frozen without a backup that will thaw it.             *)
(***************************************************************************)
THEOREM FrozenCorrect == ASSUME OrderlyEnvironment PROVE Spec => []FrozenHasOwner
<1>1. TypeOK /\ FreezeInv => FrozenHasOwner
  <2> SUFFICES ASSUME TypeOK, FreezeInv, frozen
               PROVE  \E s \in Sessions : /\ cell[s] = "frozen" /\ StateLive(s)
                                          /\ worker[s] = "publish" \/ clientData = s
    BY ZenonT(60) DEF FrozenHasOwner
  <2>1. session \in Sessions
    BY VmBackupAssumption DEF TypeOK, VmTypeOK, Sessions, FreezeInv, FrozenInv
  <2> QED BY Zenon, <2>1 DEF FreezeInv, FrozenInv, StateLive
<1> QED BY <1>1, FreezeInvariant, PTL

(***************************************************************************)
(* Under the same assumption a snapshot commit is only outstanding while    *)
(* the guest is quiesced and its handle is there to thaw with.              *)
(***************************************************************************)
THEOREM CommitCorrect == ASSUME OrderlyEnvironment PROVE Spec => []CommitMeansQuiesced
<1>1. FreezeInv => CommitMeansQuiesced BY ZenonT(60) DEF FreezeInv, CommitInv, CommitMeansQuiesced
<1> QED BY <1>1, FreezeInvariant, PTL

(***************************************************************************)
(* Under the same assumption no pool thread writes into a freed backup      *)
(* state or finds currentOp taken.                                          *)
(***************************************************************************)
THEOREM WorkerCorrect == ASSUME OrderlyEnvironment PROVE Spec => []WorkerStateLive
<1>1. FreezeInv => WorkerStateLive BY Zenon DEF FreezeInv, WorkerInv, WorkerStateLive, StateLive
<1> QED BY <1>1, FreezeInvariant, PTL

=============================================================================
