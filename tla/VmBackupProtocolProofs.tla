----------------------- MODULE VmBackupProtocolProofs -----------------------
(***************************************************************************)
(* Proofs about VmBackup as a protocol: the state machine implements        *)
(* Quiesce, it undoes the freeze scripts that ran, it reports thaw errors   *)
(* that happened, it does not crash, and it follows the documented diagram. *)
(***************************************************************************)
EXTENDS VmBackupProofs

-----------------------------------------------------------------------------
(* The state machine of VmBackup implements the abstract protocol Quiesce.  *)

(***************************************************************************)
(* Every step of the backup is a step of the abstract protocol or leaves    *)
(* its state alone.                                                         *)
(***************************************************************************)
AbstractStep == [Abstract!Next]_(Abstract!qvars)

LEMMA PhaseFrame ==
    ASSUME UNCHANGED <<active, committed, machineState, frozen>> PROVE AbstractStep
  BY DEF AbstractStep, Abstract!qvars, QuiescePhase

LEMMA AbstractPoll ==
    ASSUME TypeOK, FreezeInv, OrderlyEnvironment, Poll PROVE AbstractStep
<1>1. active /\ UNCHANGED <<active, machineState>>
  BY DEF Poll, PollPending, PollError, PollFinished, PollStarts
<1>2. CASE PollPending \/ PollError \/ (PollFinished /\ callback = "none")
  BY Zenon, <1>1, <1>2, PhaseFrame DEF PollPending, PollError, PollFinished, RunCallback
<1>3. CASE PollFinished /\ callback # "none"
  <2>1. /\ machineState = "SYNC_FREEZE_WAIT" /\ ~committed
        /\ callback = "SyncDriverReady" <=> provider = "syncDriver"
    BY <1>3 DEF FreezeInv, CallbackInv, CommitInv
  <2>2. QuiescePhase = "freezing" BY <1>1, <2>1 DEF QuiescePhase
  <2>3. CASE CommitSent
    <3>1. QuiescePhase' = "committed" /\ UNCHANGED frozen
      BY <1>1, <2>3 DEF QuiescePhase, CommitSent
    <3> QED BY <2>2, <3>1 DEF AbstractStep, Abstract!Next, Abstract!Commit
  <2>4. CASE ~CommitSent
    <3>1. UNCHANGED committed /\ frozen' \in {frozen, FALSE}
      BY Zenon, <1>3, <2>4 DEF PollFinished, RunCallback, SyncDriverReadyForSnapshot,
                               NullReadyForSnapshot,
         DriverThaw, TypeOK, VmTypeOK, Callbacks
    <3>2. QuiescePhase' = "freezing" BY <1>1, <2>1, <3>1 DEF QuiescePhase
    <3> QED BY Zenon, <2>2, <3>1, <3>2 DEF AbstractStep, Abstract!Next, Abstract!Unfreeze,
                                           Abstract!qvars
  <2> QED BY <2>3, <2>4
<1> QED BY SMTT(30), <1>2, <1>3 DEF Poll

LEMMA AbstractSwitch == ASSUME TypeOK, FreezeInv, Switch PROVE AbstractStep
<1>1. UNCHANGED <<active, committed, frozen>> /\ active
  BY DEF Switch, EnableSyncWait, EnableSync, StayFrozen, StartThawScripts, StartFailScripts,
         BackToIdle, InSwitch, FreezeInv, ActiveInv
<1>2. QuiescePhase' = QuiescePhase
  <2>1. CASE EnableSyncWait
    BY <1>1, <2>1 DEF EnableSyncWait, InSwitch, QuiescePhase
  <2>2. CASE EnableSync
    BY <1>1, <2>2 DEF EnableSync, AfterFreezeWait, InSwitch, QuiescePhase, FreezeInv, CommitInv
  <2>3. CASE StayFrozen
    BY SMTT(30), <1>1, <2>3 DEF StayFrozen, InSwitch, QuiescePhase
  <2>4. CASE StartThawScripts \/ StartFailScripts \/ BackToIdle
    BY <1>1, <2>4 DEF StartThawScripts, StartFailScripts, BackToIdle, InSwitch, QuiescePhase
  <2> QED BY <2>1, <2>2, <2>3, <2>4 DEF Switch
<1> QED BY SMTT(30), <1>1, <1>2 DEF AbstractStep, Abstract!qvars

LEMMA AbstractOnError == ASSUME TypeOK, FreezeInv, OnError PROVE AbstractStep
<1>1. UNCHANGED <<active, committed, frozen>> /\ active /\ mainPc = "onError" /\ ~committed /\ ~frozen
  BY SMTT(30) DEF OnError, OnErrorRunScripts, OnErrorSync, OnErrorThaw, InOnError, FreezeInv,
                  ActiveInv,
         CommitInv, FrozenInv
<1>2. QuiescePhase' = "thawing"
  BY <1>1 DEF OnError, OnErrorRunScripts, OnErrorSync, OnErrorThaw, InOnError, QuiescePhase
<1>3. QuiescePhase \in {"freezing", "thawing"} BY <1>1 DEF QuiescePhase
<1> QED BY SMTT(30), <1>1, <1>2, <1>3 DEF AbstractStep, Abstract!Next, Abstract!GiveUp,
                                          Abstract!qvars

LEMMA AbstractThaw ==
    ASSUME TypeOK, FreezeInv, OrderlyEnvironment, SnapshotDone \/ AbortThaw PROVE AbstractStep
<1>1. /\ machineState = "SYNC_FREEZE" /\ mainPc \in {"loop", "abortThaw"} /\ ~committed'
      /\ active /\ active' = active /\ session' = session
  BY DEF SnapshotDone, AcceptsSnapshotDone, AbortThaw, FreezeInv, ActiveInv
<1>2. PICK ok \in BOOLEAN : /\ ProviderSnapshotDone(ok)
                            /\ machineState' \in {"SYNC_THAW", "SYNC_FREEZE"}
  BY <1>1 DEF SnapshotDone, AbortThaw
<1>3. ~frozen' BY <1>1, <1>2, SnapshotDoneThaws
<1>4. QuiescePhase = "committed" BY <1>1 DEF QuiescePhase, FreezeInv, CommitInv
<1>5. QuiescePhase' = "thawing" BY <1>1, <1>2 DEF QuiescePhase
<1> QED BY SMTT(30), <1>3, <1>4, <1>5 DEF AbstractStep, Abstract!Next, Abstract!Thaw

LEMMA AbstractStart == ASSUME FreezeInv, Start PROVE AbstractStep
<1>1. ~active /\ ~committed /\ UNCHANGED <<committed, frozen>>
  BY DEF Start, StartCommon, FreezeInv, ActiveInv, CommitInv
<1>2. active' \in BOOLEAN /\ (active' => machineState' = "SCRIPT_FREEZE")
  BY DEF Start, StartCommon
<1>3. QuiescePhase = "idle" /\ QuiescePhase' \in {"idle", "freezing"}
  BY <1>1, <1>2 DEF QuiescePhase
<1> QED BY SMTT(30), <1>1, <1>3 DEF AbstractStep, Abstract!Next, Abstract!Begin, Abstract!qvars

LEMMA AbstractEnd ==
    ASSUME FreezeInv, Finalize, UNCHANGED frozen, active,
           machineState \notin {"SCRIPT_FREEZE", "SYNC_FREEZE_WAIT", "SYNC_FREEZE"}
    PROVE  AbstractStep
<1>1. QuiescePhase = "thawing" BY DEF QuiescePhase, FreezeInv, CommitInv
<1>2. QuiescePhase' = "idle" BY DEF QuiescePhase, Finalize
<1> QED BY <1>1, <1>2 DEF AbstractStep, Abstract!Next, Abstract!End

LEMMA AbstractWorker ==
    ASSUME TypeOK, FreezeInv, NEW s \in Sessions, Worker(s) PROVE AbstractStep
<1>1. /\ worker[s] # "none" /\ UNCHANGED <<active, machineState, committed>>
      /\ frozen' \in {frozen, TRUE}
  BY Zenon DEF Worker, WorkerStarts, WorkerFreezes, WorkerPublishes, WorkerSetsOp, WorkerMoves,
         TypeOK, VmTypeOK
<1>2. active /\ ~committed /\ machineState = "SYNC_FREEZE_WAIT"
  BY <1>1 DEF FreezeInv, WorkerInv, CommitInv
<1>3. QuiescePhase = "freezing" /\ QuiescePhase' = "freezing"
  BY <1>1, <1>2 DEF QuiescePhase
<1> QED BY Zenon, <1>1, <1>3 DEF AbstractStep, Abstract!Next, Abstract!Freeze, Abstract!qvars

LEMMA AbstractNext ==
    ASSUME OrderlyEnvironment
    PROVE  TypeOK /\ FreezeInv /\ [Next]_vars => AbstractStep
<1> SUFFICES ASSUME TypeOK, FreezeInv, [Next]_vars PROVE AbstractStep OBVIOUS
<1>1. CASE UNCHANGED vars BY <1>1, PhaseFrame DEF vars, vmVars
<1>2. CASE (AbortTimer /\ ~DoAbort) \/ ScriptProcess \/ Crash
  BY <1>2, PhaseFrame DEF AbortTimer, ScriptProcess, Crash, vmVars
<1>3. CASE DoAbort
  <2>1. committed' = committed
    BY <1>3 DEF DoAbort, OrderlyEnvironment, FreezeInv, CommitInv, TypeOK, VmTypeOK
  <2> QED BY SMTT(30), <1>3, <2>1, PhaseFrame DEF DoAbort
<1>4. CASE Exit
  <2>1. active BY <1>4 DEF Exit, FreezeInv, ActiveInv
  <2>2. CASE machineState = "IDLE" BY <1>4, <2>1, <2>2, AbstractEnd DEF Exit
  <2>3. CASE machineState # "IDLE" BY <1>4, <2>3, PhaseFrame DEF Exit
  <2> QED BY <2>2, <2>3
<1>5. CASE Shutdown BY <1>5, AbstractEnd DEF Shutdown, OrderlyEnvironment
<1>6. CASE Poll \/ Switch \/ OnError \/ AbortThaw \/ SnapshotDone \/ Start
  BY <1>6, AbstractPoll, AbstractSwitch, AbstractOnError, AbstractThaw, AbstractStart
<1>7. ASSUME NEW s \in Sessions, Worker(s) PROVE AbstractStep BY <1>7, AbstractWorker
<1> QED BY <1>1, <1>2, <1>3, <1>4, <1>5, <1>6, <1>7 DEF Next, Abort, MainThread

(***************************************************************************)
(* The state machine implements the abstract quiesce protocol: a backup     *)
(* commits only out of a freeze, thaws every commit, and ends thawed.       *)
(***************************************************************************)
THEOREM Refinement == ASSUME OrderlyEnvironment PROVE Spec => ImplementsQuiesce
<1>1. Init => Abstract!Init BY DEF Init, Abstract!Init, QuiescePhase
<1>2. TypeOK /\ FreezeInv /\ [Next]_vars => [Abstract!Next]_(Abstract!qvars)
  BY AbstractNext DEF AbstractStep
<1> QED BY <1>1, <1>2, InitTyped, TypeStep, FreezeInvInit, FreezeInvStep, PTL
        DEF Spec, ImplementsQuiesce, Abstract!Spec

-----------------------------------------------------------------------------
(***************************************************************************)
(* The scripts, seen from the state machine.  A script operation belongs to *)
(* its machine state; between operations only the freeze leaves a list, and *)
(* a backup without list has nothing left to undo, unless the host or the   *)
(* abort timer cut the thaw scripts off.                                    *)
(***************************************************************************)
(* Assumed: no abort while the freeze scripts run, no shutdown while the fail scripts run, and
   scripts that can be undone. *)
HandledScripts ==
    /\ "SCRIPT_FREEZE" \notin AbortStates /\ "SCRIPT_ERROR" \notin ShutdownStates
    /\ UndoableScripts

RunningOp ==
    /\ execScripts /\ mainPc # "onError"
    /\ \/ machineState = "SCRIPT_FREEZE" /\ opType = "FREEZE"
       \/ machineState = "SCRIPT_THAW" /\ opType = "THAW"
       \/ machineState = "SCRIPT_ERROR" /\ opType = "FREEZE_FAIL"
    /\ opType = "FREEZE" /\ scripts /\ proc[currentScript] = "none" =>
          currentScript = NumPaths(layout)

KeptList ==
    /\ machineState \notin {"SCRIPT_THAW", "SCRIPT_ERROR", "IDLE"}
    /\ machineState = "SCRIPT_FREEZE" => mainPc \in {"switch", "onError"}
    /\ machineState # "SCRIPT_FREEZE" \/ mainPc = "switch" => currentScript = NumPaths(layout)

OpInv ==
    /\ currentOp.kind = "script" => RunningOp
    /\ active /\ scripts /\ currentOp.kind # "script" =>
          execScripts /\ opType = "FREEZE" /\ proc[currentScript] = "none" /\ KeptList

ThawCutOff ==
    /\ caller = "rpc"
    /\ \/ mainPc = "onError" /\ machineState = "SCRIPT_THAW"
       \/ mainPc = "exit" /\ machineState = "IDLE"

PlaceInv ==
    /\ mainPc = "onError" => machineState \notin {"IDLE", "SCRIPT_ERROR"}
    /\ active /\ mainPc \in {"loop", "switch"} => machineState # "IDLE"
    /\ ThawErrorMeansFailure /\ NoCrash

EndInv == active /\ execScripts /\ ~scripts => AllUndone \/ ThawCutOff

UndoInv == ScriptInv /\ OpInv /\ EndInv /\ PlaceInv

LEMMA ScriptFrame ==
    ASSUME ScriptInv, UNCHANGED scriptVars
    PROVE  ScriptInv' /\ (AllUndone' <=> AllUndone)
<1>1. UNCHANGED <<layout, scripts, currentScript, proc, renamed, opType, thawFailed, freezeDone, undone>>
  BY DEF scriptVars
<1>2. ListInv' BY Zenon, <1>1 DEF ScriptInv, ListInv
<1>3. FreezingInv' BY Zenon, <1>1 DEF ScriptInv, FreezingInv
<1>4. UndoingInv' BY Zenon, <1>1 DEF ScriptInv, UndoingInv
<1> QED BY Zenon, <1>1, <1>2, <1>3, <1>4 DEF ScriptInv, AllUndone

\* A step that neither starts nor ends a script operation.
LEMMA UndoFrame ==
    ASSUME UndoInv, UNCHANGED <<scriptVars, execScripts>>, active' => active,
           currentOp.kind # "script", currentOp'.kind # "script",
           active' /\ scripts => KeptList', active' /\ ThawCutOff => ThawCutOff', PlaceInv'
    PROVE  UndoInv'
<1>1. ScriptInv' /\ (AllUndone' <=> AllUndone) BY ScriptFrame DEF UndoInv
<1>2. UNCHANGED <<layout, scripts, currentScript, proc, opType>> BY DEF scriptVars
<1>3. OpInv' BY Zenon, <1>2 DEF UndoInv, OpInv
<1>4. EndInv' BY Zenon, <1>1, <1>2 DEF UndoInv, EndInv
<1> QED BY <1>1, <1>3, <1>4 DEF UndoInv

\* A list has a first slot to undo.
LEMMA ListNotEmpty ==
    ASSUME TypeOK, HandledScripts, ScriptInv, scripts
    PROVE  NumPaths(layout) > 0
<1>1. layout \in Layouts /\ IsFile(layout, TRUE, 0)
  BY Zenon DEF TypeOK, ScriptsTypeOK, ScriptInv, ListInv, HandledScripts, UndoableScripts
<1>2. 0 \in Slots /\ NumPaths(layout) \in Int BY <1>1, Bounds, ListFits DEF Slots
<1>3. 0 < NumPaths(layout) BY Zenon, <1>1, <1>2, FilesFit
<1> QED BY <1>2, <1>3

LEMMA UndoStutter ==
    ASSUME UndoInv,
           UNCHANGED <<active, machineState, execScripts, currentOp, mainPc, caller, scriptVars>>
    PROVE  UndoInv'
<1>1. ScriptInv' /\ (AllUndone' <=> AllUndone) BY ScriptFrame DEF UndoInv
<1>2. UNCHANGED <<layout, scripts, currentScript, proc, opType, thawFailed>> BY DEF scriptVars
<1>3. OpInv' BY Zenon, <1>2 DEF UndoInv, OpInv, RunningOp, KeptList
<1>4. EndInv' BY Zenon, <1>1, <1>2 DEF UndoInv, EndInv, ThawCutOff
<1>5. PlaceInv' BY Zenon, <1>2 DEF UndoInv, PlaceInv, ThawErrorMeansFailure, NoCrash
<1> QED BY <1>1, <1>3, <1>4, <1>5 DEF UndoInv

LEMMA UndoInvInit == Init => UndoInv
<1> SUFFICES ASSUME Init PROVE UndoInv OBVIOUS
<1>1. /\ scripts = FALSE /\ proc = NoProcs /\ opType = "FREEZE" /\ freezeDone = {} /\ undone = {}
      /\ active = FALSE /\ currentOp = NoOp /\ mainPc = "loop"
  BY DEF Init, ScriptsInit
<1>2. ScriptInv
  BY Zenon, <1>1 DEF ScriptInv, ListInv, FreezingInv, UndoingInv, NoProcs
<1>3. OpInv /\ EndInv BY Zenon, <1>1, ScriptOpNotOthers DEF OpInv, EndInv
<1>4. PlaceInv BY <1>1 DEF PlaceInv, ThawErrorMeansFailure, NoCrash
<1> QED BY <1>2, <1>3, <1>4 DEF UndoInv

LEMMA UndoInvStart == ASSUME TypeOK, HandledScripts, UndoInv, Start PROVE UndoInv'
<1>1. PICK s \in Sessions, l \in Layouts, p \in Providers, exec \in BOOLEAN :
         StartCommon(s, l, p, exec)
  BY DEF Start
<1>2. PICK ok \in BOOLEAN :
         /\ IF exec THEN NewFreezeOp(l, ok) \/ (ok = FALSE /\ NoScriptDir)
                    ELSE ok = TRUE /\ NoScriptsWanted
         /\ active' = ok
         /\ machineState' = IF ok THEN "SCRIPT_FREEZE" ELSE "IDLE"
         /\ currentOp' = IF ok /\ exec THEN [kind |-> "script", cell |-> 0] ELSE NoOp
  BY Zenon, <1>1 DEF StartCommon
<1>3. mainPc' = "loop" /\ execScripts' = exec BY <1>1 DEF StartCommon
<1>4. PlaceInv' BY <1>2, <1>3 DEF PlaceInv, ThawErrorMeansFailure, NoCrash
<1>5. CASE exec
  <2>1. NewFreezeOp(l, ok) BY <1>2, <1>5 DEF NoScriptDir, HandledScripts, UndoableScripts
  <2>2. /\ ScriptInv' /\ freezeDone' = {} /\ opType' = "FREEZE"
        /\ ok /\ scripts' /\ proc'[currentScript'] = "none" => currentScript' = NumPaths(layout')
    BY Zenon, <2>1, NewFreezeInv
  <2>3. CASE ok
    <3>1. currentOp'.kind = "script" /\ machineState' = "SCRIPT_FREEZE" BY <1>2, <1>5, <2>3
    <3>2. mainPc' # "onError" BY <1>3
    <3>3. OpInv' BY Zenon, <1>3, <1>5, <2>2, <2>3, <3>1, <3>2 DEF OpInv, RunningOp
    <3>4. EndInv' BY Zenon, <2>2 DEF EndInv, AllUndone
    <3> QED BY SMTT(30), <1>4, <2>2, <3>3, <3>4 DEF UndoInv
  <2>4. CASE ~ok
    <3>1. currentOp'.kind # "script" /\ active' = FALSE BY <1>2, <2>4, ScriptOpNotOthers
    <3>2. OpInv' /\ EndInv' BY Zenon, <3>1 DEF OpInv, EndInv
    <3> QED BY SMTT(30), <1>4, <2>2, <3>2 DEF UndoInv
  <2> QED BY SMTT(30), <2>3, <2>4
<1>6. CASE ~exec
  <2>1. NoScriptsWanted BY <1>2, <1>6
  <2>2. ScriptInv' /\ scripts' = FALSE
    BY Zenon, <2>1, FreeScriptsInv DEF NoScriptsWanted, FreeScripts, UndoInv, TypeOK
  <2>3. currentOp'.kind # "script" BY <1>2, <1>6, ScriptOpNotOthers
  <2>4. OpInv' /\ EndInv' BY Zenon, <1>3, <1>6, <2>2, <2>3 DEF OpInv, EndInv
  <2> QED BY <1>4, <2>2, <2>4 DEF UndoInv
<1> QED BY <1>5, <1>6

\* What a query that ends or continues the current operation leaves behind.
LEMMA UndoInvQuery ==
    ASSUME TypeOK, HandledScripts, UndoInv, mainPc = "loop", active,
           NEW status, currentOp.kind = "script", ScriptOpQuery(status)
    PROVE  /\ ScriptInv' /\ UNCHANGED opType
           /\ RunningOp /\ IF opType = "FREEZE" THEN FreezeOver(status) ELSE UndoOver(status)
           /\ ~scripts => AllUndone
           /\ ~scripts' => AllUndone'
<1> USE DEF UndoInv
<1>1. RunningOp BY DEF OpInv
<1>2. opType = "FREEZE" /\ CurrentProc = "none" /\ scripts => currentScript = NumPaths(layout)
  <2>1. opType = "FREEZE" /\ scripts => currentScript \in Slots
    <3>1. opType = "FREEZE" /\ scripts => currentScript >= 0 BY DEF ScriptInv, FreezingInv
    <3> QED BY <3>1, Bounds DEF TypeOK, ScriptsTypeOK, Slots
  <2> QED BY Zenon, <1>1, <2>1 DEF RunningOp, CurrentProc
<1>3. ScriptInv' /\ UNCHANGED opType /\ IF opType = "FREEZE" THEN FreezeOver(status) ELSE UndoOver(status)
  BY Zenon, <1>2, QueryInv DEF TypeOK, HandledScripts
<1>4. ~scripts => AllUndone
  <2>1. ~ThawCutOff BY DEF ThawCutOff
  <2> QED BY Zenon, <1>1, <2>1 DEF EndInv, RunningOp
<1>5. ~scripts' => AllUndone'
  <2>1. CASE scripts
    <3>1. opType = "FREEZE" => scripts' BY Zenon, <1>3, <2>1 DEF FreezeOver
    <3>2. opType # "FREEZE" /\ ~scripts' => AllUndone' BY Zenon, <1>3, <2>1 DEF UndoOver
    <3> QED BY <3>1, <3>2
  <2>2. CASE ~scripts
    <3>1. UNCHANGED <<layout, freezeDone, undone>> BY Zenon, <1>3, <2>2 DEF FreezeOver, UndoOver
    <3> QED BY Zenon, <1>4, <2>2, <3>1 DEF AllUndone
  <2> QED BY <2>1, <2>2
<1> QED BY Zenon, <1>1, <1>3, <1>4, <1>5

LEMMA UndoInvPoll == ASSUME TypeOK, HandledScripts, FreezeInv, UndoInv, Poll PROVE UndoInv'
<1>1. /\ mainPc = "loop" /\ active /\ caller' = "poll"
      /\ UNCHANGED <<active, machineState, execScripts>>
  BY DEF Poll, PollPending, PollError, PollFinished, PollStarts
<1>2. machineState # "IDLE" BY <1>1 DEF UndoInv, PlaceInv
<1>3. CASE PollPending
  <2>1. ScriptOpQuery("PENDING") /\ currentOp.kind = "script" /\ UNCHANGED currentOp /\ mainPc' = "exit"
    BY <1>3 DEF PollPending
  <2>2. /\ ScriptInv' /\ UNCHANGED opType /\ RunningOp /\ (~scripts' => AllUndone')
        /\ IF opType = "FREEZE" THEN FreezeOver("PENDING") ELSE UndoOver("PENDING")
    BY Zenon, <1>1, <2>1, UndoInvQuery
  <2>3. opType = "FREEZE" /\ scripts' => proc'[currentScript'] # "none"
    BY Zenon, <2>2 DEF FreezeOver
  <2>4. mainPc' # "onError" BY <2>1
  <2>5. RunningOp' BY Zenon, <1>1, <2>2, <2>3, <2>4 DEF RunningOp
  <2>6. OpInv' /\ EndInv' BY Zenon, <2>1, <2>2, <2>5 DEF OpInv, EndInv
  <2>7. PlaceInv' BY <2>1 DEF PlaceInv, ThawErrorMeansFailure, NoCrash
  <2> QED BY <2>2, <2>6, <2>7 DEF UndoInv
<1>4. CASE PollError
  <2>1. /\ ScriptOpQuery("ERROR") /\ currentOp.kind = "script" /\ currentOp'.kind # "script"
        /\ mainPc' = "onError"
    BY <1>4, ScriptOpNotOthers DEF PollError
  <2>2. /\ ScriptInv' /\ UNCHANGED opType /\ RunningOp /\ (~scripts' => AllUndone')
        /\ IF opType = "FREEZE" THEN FreezeOver("ERROR") ELSE UndoOver("ERROR")
    BY Zenon, <1>1, <2>1, UndoInvQuery
  <2>3. "ERROR" # "PENDING" /\ "ERROR" # "FINISHED" OBVIOUS
  <2>4. opType # "FREEZE" => scripts /\ ~scripts' /\ opType = "THAW" /\ thawFailed' = TRUE
    BY Zenon, <2>2, <2>3 DEF UndoOver
  <2>5. scripts' => /\ opType' = "FREEZE" /\ proc'[currentScript'] = "none"
                    /\ machineState' = "SCRIPT_FREEZE" /\ execScripts'
    <3>1. opType = "FREEZE" => machineState = "SCRIPT_FREEZE" /\ execScripts BY <2>2 DEF RunningOp
    <3> QED BY Zenon, <1>1, <2>2, <2>3, <2>4, <3>1 DEF FreezeOver
  <2>6. scripts' => KeptList' BY <2>1, <2>5 DEF KeptList
  <2>7. OpInv' /\ EndInv' BY Zenon, <2>1, <2>2, <2>5, <2>6 DEF OpInv, EndInv
  <2>8. PlaceInv'
    <3>1. machineState \in {"SCRIPT_FREEZE", "SCRIPT_THAW"} BY SMTT(30), <2>2, <2>4 DEF RunningOp
    <3>2. machineState = "SCRIPT_THAW" => thawFailed' = TRUE BY <2>2, <2>4 DEF RunningOp
    <3> QED BY SMTT(30), <1>1, <2>1, <3>1, <3>2 DEF PlaceInv, ThawErrorMeansFailure, NoCrash
  <2> QED BY SMTT(30), <2>2, <2>7, <2>8 DEF UndoInv
<1>5. CASE PollFinished
  <2>1. /\ IF currentOp.kind = "script" THEN ScriptOpQuery("FINISHED") ELSE UNCHANGED scriptVars
        /\ currentOp'.kind # "script" /\ RunCallback
    BY <1>5, ScriptOpNotOthers DEF PollFinished
  <2>2. mainPc' = "switch" \/ (mainPc' = "onError" /\ machineState = "SYNC_FREEZE_WAIT")
    <3>1. CASE callback = "none" BY <2>1, <3>1 DEF RunCallback
    <3>2. CASE callback # "none"
      <4>1. machineState = "SYNC_FREEZE_WAIT" BY SMTT(30), <3>2 DEF FreezeInv, CallbackInv
      <4>2. callback \in {"SyncDriverReady", "NullReady"} BY <3>2 DEF TypeOK, VmTypeOK, Callbacks
      <4>3. mainPc' \in {"switch", "onError"}
        BY Zenon, <2>1, <4>2 DEF RunCallback, SyncDriverReadyForSnapshot, NullReadyForSnapshot,
                          CommitSent
      <4> QED BY <4>1, <4>3
    <3> QED BY <3>1, <3>2
  <2>3. PlaceInv' BY <1>1, <1>2, <2>2 DEF PlaceInv, ThawErrorMeansFailure, NoCrash
  <2>4. CASE currentOp.kind = "script"
    <3>1. /\ ScriptInv' /\ UNCHANGED opType /\ RunningOp /\ (~scripts' => AllUndone')
          /\ IF opType = "FREEZE" THEN FreezeOver("FINISHED") ELSE UndoOver("FINISHED")
      BY Zenon, <1>1, <2>1, <2>4, UndoInvQuery
    <3>2. "FINISHED" # "PENDING" OBVIOUS
    <3>3. opType # "FREEZE" => ~scripts' BY Zenon, <3>1, <3>2 DEF UndoOver
    <3>4. scripts' => /\ opType' = "FREEZE" /\ proc'[currentScript'] = "none"
                      /\ machineState' = "SCRIPT_FREEZE" /\ execScripts'
                      /\ currentScript' = NumPaths(layout')
      <4>1. opType = "FREEZE" => machineState = "SCRIPT_FREEZE" /\ execScripts BY <3>1
                                                                                  DEF RunningOp
      <4> QED BY Zenon, <1>1, <3>1, <3>2, <3>3, <4>1 DEF FreezeOver
    <3>5. scripts' => KeptList' BY <1>1, <2>2, <3>4 DEF KeptList
    <3>6. OpInv' /\ EndInv' BY Zenon, <2>1, <3>1, <3>4, <3>5 DEF OpInv, EndInv
    <3> QED BY <2>3, <3>1, <3>6 DEF UndoInv
  <2>5. CASE currentOp.kind # "script"
    <3>1. UNCHANGED scriptVars BY <2>1, <2>5
    <3>2. scripts => KeptList BY SMTT(30), <1>1, <2>5 DEF UndoInv, OpInv
    <3>3. scripts => KeptList'
      BY <1>1, <2>2, <3>1, <3>2 DEF KeptList, scriptVars
    <3>4. ~ThawCutOff BY <1>1 DEF ThawCutOff
    <3> QED BY Zenon, <1>1, <2>1, <2>3, <2>5, <3>1, <3>3, <3>4, UndoFrame
  <2> QED BY SMTT(30), <2>4, <2>5
<1> QED BY SMTT(30), <1>3, <1>4, <1>5 DEF Poll

LEMMA FailScriptsStart ==
    ASSUME TypeOK, HandledScripts, UndoInv, active, currentOp.kind # "script",
           NEW ok \in BOOLEAN, StartScripts("FREEZE_FAIL", ok)
    PROVE  ok
<1>1. scripts => opType = "FREEZE" /\ proc[currentScript] = "none"
  BY Zenon DEF UndoInv, OpInv
<1>2. CASE ~execScripts BY <1>2 DEF StartScripts
<1>3. CASE execScripts
  <2>1. NewUndoOp("FREEZE_FAIL", ok) BY <1>3 DEF StartScripts, NoScriptDir, HandledScripts,
                                                 UndoableScripts
  <2>2. "FREEZE_FAIL" # "THAW" OBVIOUS
  <2> QED BY Zenon, <1>1, <2>1, <2>2, NewUndoInv DEF UndoInv, TypeOK, HandledScripts
<1> QED BY <1>2, <1>3

\* VmBackupStartScripts.
LEMMA UndoInvStartScripts ==
    ASSUME TypeOK, HandledScripts, UndoInv, active, currentOp.kind # "script",
           NEW type \in {"THAW", "FREEZE_FAIL"}, NEW ok \in BOOLEAN, StartScripts(type, ok),
           type = "THAW" => machineState # "SCRIPT_FREEZE", ~ThawCutOff,
           UNCHANGED <<active, execScripts>>, mainPc' \in {"exit", "onError"},
           ok => /\ mainPc' = "exit"
                 /\ machineState' = IF type = "THAW" THEN "SCRIPT_THAW" ELSE "SCRIPT_ERROR",
           ~ok => machineState' = "SYNC_THAW"
    PROVE  UndoInv'
<1> USE DEF UndoInv
<1>1. PlaceInv'
  BY DEF PlaceInv, ThawErrorMeansFailure, NoCrash
<1>2. scripts => /\ execScripts /\ opType = "FREEZE" /\ proc[currentScript] = "none"
                 /\ KeptList
  BY Zenon DEF OpInv
<1>3. execScripts /\ ~scripts => AllUndone BY Zenon DEF EndInv
<1>4. CASE ~execScripts
  <2>1. ok = TRUE /\ UNCHANGED <<scriptVars, currentOp>> BY <1>4 DEF StartScripts
  <2>2. ~scripts BY SMTT(30), <1>2, <1>4
  <2> QED BY Zenon, <1>1, <2>1, <2>2, UndoFrame
<1>5. CASE execScripts
  <2>1. /\ NewUndoOp(type, ok)
        /\ currentOp' = IF ok THEN [kind |-> "script", cell |-> 0] ELSE NoOp
    BY SMTT(30), <1>5 DEF StartScripts, NoScriptDir, HandledScripts, UndoableScripts
  <2>2. scripts /\ type = "THAW" => currentScript > 0
    BY <1>2, ListNotEmpty DEF KeptList
  <2>3. /\ ScriptInv' /\ opType' = type
        /\ scripts' <=> scripts /\ ok
        /\ scripts /\ ~ok => AllUndone'
        /\ ~scripts => UNCHANGED <<layout, freezeDone, undone>>
        /\ type = "FREEZE_FAIL" => ok
    BY Zenon, <1>2, <2>1, <2>2, NewUndoInv DEF TypeOK, HandledScripts
  <2>4. ~scripts' => AllUndone'
    <3>1. CASE scripts BY Zenon, <2>3, <3>1
    <3>2. CASE ~scripts
      <4>1. AllUndone /\ UNCHANGED <<layout, freezeDone, undone>> BY Zenon, <1>3, <1>5, <2>3, <3>2
      <4> QED BY Zenon, <4>1 DEF AllUndone
    <3> QED BY <3>1, <3>2
  <2>5. EndInv' BY Zenon, <2>4 DEF EndInv
  <2>6. CASE ok
    <3>1. currentOp'.kind = "script" /\ opType' # "FREEZE" /\ mainPc' # "onError" BY SMTT(30),
                                                                                     <2>1, <2>3,
                                                                                     <2>6
    <3>2. RunningOp' BY <1>5, <2>3, <2>6, <3>1 DEF RunningOp
    <3>3. OpInv' BY Zenon, <3>1, <3>2 DEF OpInv
    <3> QED BY SMTT(30), <1>1, <2>3, <2>5, <3>3
  <2>7. CASE ~ok
    <3>1. currentOp'.kind # "script" BY <2>1, <2>7, ScriptOpNotOthers
    <3>2. OpInv' BY Zenon, <2>3, <2>7, <3>1 DEF OpInv
    <3> QED BY ZenonT(60), <1>1, <2>3, <2>5, <2>7, <3>2
  <2> QED BY SMTT(30), <2>6, <2>7
<1> QED BY SMTT(30), <1>4, <1>5

LEMMA UndoInvSwitch == ASSUME TypeOK, HandledScripts, FreezeInv, UndoInv, Switch PROVE UndoInv'
<1>1. /\ mainPc = "switch" /\ active /\ UNCHANGED <<active, execScripts, caller>>
  BY Zenon DEF Switch, EnableSyncWait, EnableSync, StayFrozen, StartThawScripts, StartFailScripts,
         BackToIdle, InSwitch, FreezeInv, ActiveInv
<1>2. currentOp.kind # "script"
  <2>1. machineState # "SYNC_FREEZE_WAIT" => currentOp = NoOp BY <1>1 DEF FreezeInv, CurrentOpInv
  <2>2. machineState = "SYNC_FREEZE_WAIT" => currentOp.kind # "script" BY
                                                                          DEF UndoInv, OpInv,
                                                                              RunningOp
  <2> QED BY <2>1, <2>2, ScriptOpNotOthers
<1>3. ~ThawCutOff BY <1>1 DEF ThawCutOff
<1>4. scripts => KeptList BY <1>1, <1>2 DEF UndoInv, OpInv
<1>5. CASE EnableSyncWait \/ EnableSync \/ StayFrozen
  <2>1. /\ UNCHANGED <<currentOp, scriptVars>> /\ mainPc' \in {"exit", "onError"}
        /\ \/ machineState' \in {"SYNC_FREEZE_WAIT", "SYNC_FREEZE"}
           \/ machineState' = "SCRIPT_FREEZE" /\ mainPc' = "onError"
    BY <1>5 DEF EnableSyncWait, EnableSync, StayFrozen, InSwitch, AfterFreezeWait
  <2>2. PlaceInv' BY SMTT(30), <2>1 DEF PlaceInv, ThawErrorMeansFailure, NoCrash
  <2>3. scripts => KeptList' BY SMTT(30), <1>1, <1>4, <2>1 DEF KeptList, scriptVars
  <2> QED BY Zenon, <1>1, <1>2, <1>3, <2>1, <2>2, <2>3, UndoFrame
<1>6. CASE StartThawScripts
  <2>1. machineState = "SYNC_THAW" BY <1>6 DEF StartThawScripts, InSwitch
  <2>2. PICK ok \in BOOLEAN : /\ StartScripts("THAW", ok)
                              /\ machineState' = IF ok THEN "SCRIPT_THAW" ELSE machineState
                              /\ mainPc' = IF ok THEN "exit" ELSE "onError"
    BY SMTT(30), <1>6 DEF StartThawScripts
  <2> QED BY SMTT(30), <1>1, <1>2, <1>3, <2>1, <2>2, UndoInvStartScripts
<1>7. CASE StartFailScripts
  <2>1. machineState = "SYNC_ERROR" BY <1>7 DEF StartFailScripts, InSwitch
  <2>2. PICK ok \in BOOLEAN : /\ StartScripts("FREEZE_FAIL", ok)
                              /\ machineState' = IF ok THEN "SCRIPT_ERROR" ELSE machineState
                              /\ mainPc' = IF ok THEN "exit" ELSE "onError"
    BY <1>7 DEF StartFailScripts
  <2>3. ok BY <1>1, <1>2, <2>2, FailScriptsStart
  <2> QED BY Zenon, <1>1, <1>2, <1>3, <2>1, <2>2, <2>3, UndoInvStartScripts
<1>8. CASE BackToIdle
  <2>1. /\ machineState \in {"SCRIPT_THAW", "SCRIPT_ERROR"} /\ machineState' = "IDLE" /\ mainPc' = "exit"
        /\ UNCHANGED <<currentOp, scriptVars>>
    BY <1>8 DEF BackToIdle, InSwitch
  <2>2. ~scripts BY <1>4, <2>1 DEF KeptList
  <2>3. PlaceInv' BY ZenonT(60), <2>1 DEF PlaceInv, ThawErrorMeansFailure, NoCrash
  <2> QED BY Zenon, <1>1, <1>2, <1>3, <2>1, <2>2, <2>3, UndoFrame
<1> QED BY SMTT(30), <1>5, <1>6, <1>7, <1>8 DEF Switch

LEMMA UndoInvOnError == ASSUME TypeOK, HandledScripts, FreezeInv, UndoInv, OnError PROVE UndoInv'
<1>1. /\ mainPc = "onError" /\ mainPc' = "exit" /\ active
      /\ UNCHANGED <<active, execScripts, caller>>
  BY DEF OnError, OnErrorRunScripts, OnErrorSync, OnErrorThaw, InOnError, FreezeInv, ActiveInv
<1>2. currentOp.kind # "script" BY <1>1 DEF UndoInv, OpInv, RunningOp
<1>3. scripts => KeptList BY <1>1, <1>2 DEF UndoInv, OpInv
<1>4. PlaceInv' BY <1>1 DEF PlaceInv, ThawErrorMeansFailure, NoCrash
<1>5. CASE OnErrorRunScripts
  <2>1. machineState \in {"SCRIPT_FREEZE", "SYNC_ERROR"} BY <1>5 DEF OnErrorRunScripts, InOnError
  <2>2. PICK ok \in BOOLEAN : /\ StartScripts("FREEZE_FAIL", ok)
                              /\ machineState' = IF ok THEN "SCRIPT_ERROR" ELSE "IDLE"
    BY <1>5 DEF OnErrorRunScripts
  <2>3. ok BY <1>1, <1>2, <2>2, FailScriptsStart
  <2>4. ~ThawCutOff BY <1>1, <2>1 DEF ThawCutOff
  <2> QED BY Zenon, <1>1, <1>2, <2>1, <2>2, <2>3, <2>4, UndoInvStartScripts
<1>6. CASE OnErrorSync
  <2>1. /\ machineState \in {"SYNC_FREEZE_WAIT", "SYNC_FREEZE", "SYNC_THAW"}
        /\ machineState' = "SYNC_ERROR" /\ UNCHANGED <<currentOp, scriptVars>>
    BY <1>6 DEF OnErrorSync, InOnError
  <2>2. scripts => KeptList' BY <1>3, <2>1 DEF KeptList, scriptVars
  <2>3. ~ThawCutOff BY <1>1, <2>1 DEF ThawCutOff
  <2> QED BY Zenon, <1>1, <1>2, <1>4, <2>1, <2>2, <2>3, UndoFrame
<1>7. CASE OnErrorThaw
  <2>1. machineState = "SCRIPT_THAW" /\ machineState' = "IDLE" /\ UNCHANGED <<currentOp, scriptVars>>
    BY <1>7 DEF OnErrorThaw, InOnError
  <2>2. ~scripts BY <1>3, <2>1 DEF KeptList
  <2>3. ThawCutOff => ThawCutOff' BY <1>1, <2>1 DEF ThawCutOff
  <2> QED BY Zenon, <1>1, <1>2, <1>4, <2>1, <2>2, <2>3, UndoFrame
<1> QED BY <1>5, <1>6, <1>7 DEF OnError

LEMMA UndoInvExit == ASSUME TypeOK, HandledScripts, FreezeInv, UndoInv, Exit PROVE UndoInv'
<1>1. mainPc = "exit" /\ mainPc' = "loop" /\ UNCHANGED <<execScripts, caller>>
  BY DEF Exit
<1>2. CASE machineState = "IDLE"
  <2>1. currentOp.kind # "script" BY SMTT(30), <1>2 DEF UndoInv, OpInv, RunningOp
  <2>2. UNCHANGED scriptVars /\ active' = FALSE /\ currentOp'.kind # "script"
    BY <1>2, <2>1, ScriptOpNotOthers DEF Exit, Finalize, CancelAndRelease
  <2>3. PlaceInv' BY SMTT(30), <1>1, <2>2 DEF PlaceInv, ThawErrorMeansFailure, NoCrash
  <2> QED BY Zenon, <1>1, <2>1, <2>2, <2>3, UndoFrame
<1>3. CASE machineState # "IDLE"
  <2>1. UNCHANGED <<active, machineState, currentOp, scriptVars>> BY <1>3 DEF Exit
  <2>2. PlaceInv' BY <1>1, <1>3, <2>1 DEF PlaceInv, ThawErrorMeansFailure, NoCrash
  <2>3. ~ThawCutOff BY <1>1, <1>3 DEF ThawCutOff
  <2>4. CASE currentOp.kind = "script"
    <3>1. RunningOp BY <2>4 DEF UndoInv, OpInv
    <3>2. ScriptInv' /\ (AllUndone' <=> AllUndone) BY SMTT(30), <2>1, ScriptFrame DEF UndoInv
    <3>3. RunningOp' BY <1>1, <2>1, <3>1 DEF RunningOp, scriptVars
    <3>4. OpInv' BY Zenon, <2>1, <2>4, <3>3 DEF OpInv
    <3>5. EndInv' BY Zenon, <1>1, <2>1, <2>3, <3>2 DEF UndoInv, EndInv, scriptVars
    <3> QED BY <2>2, <3>2, <3>4, <3>5 DEF UndoInv
  <2>5. CASE currentOp.kind # "script"
    <3>1. active /\ scripts => KeptList BY SMTT(30), <2>5 DEF UndoInv, OpInv
    <3>2. active /\ scripts => KeptList' BY <1>1, <2>1, <3>1 DEF KeptList, scriptVars
    <3> QED BY Zenon, <1>1, <2>1, <2>2, <2>3, <2>5, <3>2, UndoFrame
  <2> QED BY <2>4, <2>5
<1> QED BY SMTT(30), <1>2, <1>3

LEMMA UndoInvSnapshotDone ==
    ASSUME TypeOK, FreezeInv, UndoInv, SnapshotDone \/ AbortThaw
    PROVE  UndoInv'
<1>1. /\ active /\ machineState = "SYNC_FREEZE" /\ mainPc \in {"loop", "abortThaw"}
      /\ UNCHANGED <<active, execScripts, scriptVars>>
      /\ machineState' \in {"SYNC_FREEZE", "SYNC_THAW"} /\ mainPc' \in {"loop", "onError"}
      /\ \E ok \in BOOLEAN : ProviderSnapshotDone(ok)
  BY SMTT(30) DEF SnapshotDone, AbortThaw, AcceptsSnapshotDone, FreezeInv, ActiveInv
<1>2. currentOp.kind # "script" /\ currentOp'.kind # "script"
  BY <1>1, ScriptOpNotOthers DEF UndoInv, OpInv, RunningOp, ProviderSnapshotDone
<1>3. PlaceInv' BY <1>1 DEF PlaceInv, ThawErrorMeansFailure, NoCrash
<1>4. ~ThawCutOff BY <1>1 DEF ThawCutOff
<1>5. scripts => KeptList BY SMTT(30), <1>1, <1>2 DEF UndoInv, OpInv
<1>6. scripts => KeptList' BY <1>1, <1>5 DEF KeptList, scriptVars
<1> QED BY Zenon, <1>1, <1>2, <1>3, <1>4, <1>6, UndoFrame

\* The thaw scripts can be cancelled, and only they are.
LEMMA CancelThaw ==
    ASSUME TypeOK, UndoInv, currentOp.kind = "script",
           machineState \notin {"SCRIPT_FREEZE", "SCRIPT_ERROR"}
    PROVE  /\ machineState = "SCRIPT_THAW" /\ ~CancelMayCrash
           /\ CancelAndRelease => ScriptInv' /\ scripts' = FALSE
<1>1. opType = "THAW" /\ machineState = "SCRIPT_THAW" BY SMTT(30) DEF UndoInv, OpInv, RunningOp
<1> QED BY Zenon, <1>1, CancelInv DEF CancelMayCrash, CancelAndRelease, UndoInv, TypeOK

LEMMA UndoInvAbort ==
    ASSUME TypeOK, HandledScripts, FreezeInv, UndoInv, Abort \/ AbortTimer
    PROVE  UndoInv'
<1>1. CASE DoAbort
  <2>1. /\ mainPc = "loop" /\ active /\ machineState \notin {"SCRIPT_FREEZE", "SCRIPT_ERROR", "IDLE"}
        /\ UNCHANGED <<active, execScripts, machineState>> /\ caller' = "rpc"
        /\ mainPc' = IF machineState = "SYNC_FREEZE" THEN "abortThaw" ELSE "onError"
    BY SMTT(30), <1>1 DEF DoAbort, AbortIgnored, AfterCancel, HandledScripts, UndoInv, PlaceInv
  <2>2. CancelAndRelease /\ currentOp'.kind # "script" BY <1>1, ScriptOpNotOthers DEF DoAbort
  <2>3. PlaceInv' BY <2>1 DEF PlaceInv, ThawErrorMeansFailure, NoCrash
  <2>4. CASE currentOp.kind = "script"
    <3>1. machineState = "SCRIPT_THAW" /\ ScriptInv' /\ scripts' = FALSE
      BY Zenon, <2>1, <2>2, <2>4, CancelThaw
    <3>2. ThawCutOff' BY <2>1, <3>1 DEF ThawCutOff
    <3>3. OpInv' /\ EndInv' BY Zenon, <2>2, <3>1, <3>2 DEF OpInv, EndInv
    <3> QED BY SMTT(30), <2>3, <3>1, <3>3 DEF UndoInv
  <2>5. CASE currentOp.kind # "script"
    <3>1. UNCHANGED scriptVars BY <2>2, <2>5 DEF CancelAndRelease
    <3>2. scripts => KeptList BY SMTT(30), <2>1, <2>5 DEF UndoInv, OpInv
    <3>3. scripts => KeptList' BY <2>1, <3>1, <3>2 DEF KeptList, scriptVars
    <3>4. ~ThawCutOff BY <2>1 DEF ThawCutOff
    <3> QED BY Zenon, <2>1, <2>2, <2>3, <2>5, <3>1, <3>3, <3>4, UndoFrame
  <2> QED BY <2>4, <2>5
<1>2. CASE AbortTimer /\ ~DoAbort
  <2>1. UNCHANGED <<active, machineState, execScripts, currentOp, mainPc, caller, scriptVars>>
    BY <1>2 DEF AbortTimer
  <2> QED BY ZenonT(60), <2>1, UndoStutter
<1> QED BY Zenon, <1>1, <1>2 DEF Abort, AbortTimer

LEMMA UndoInvShutdown ==
    ASSUME TypeOK, OrderlyEnvironment, HandledScripts, UndoInv, Shutdown
    PROVE  UndoInv'
<1>1. /\ machineState \notin {"SCRIPT_FREEZE", "SCRIPT_ERROR"}
      /\ active' = FALSE /\ mainPc' = "stopped" /\ CancelAndRelease /\ currentOp'.kind # "script"
      /\ UNCHANGED execScripts
  BY ScriptOpNotOthers DEF Shutdown, Finalize, OrderlyEnvironment, HandledScripts
<1>2. ScriptInv'
  <2>1. CASE currentOp.kind = "script" BY <1>1, <2>1, CancelThaw
  <2>2. CASE currentOp.kind # "script" BY <1>1, <2>2, ScriptFrame DEF CancelAndRelease, UndoInv
  <2> QED BY <2>1, <2>2
<1>3. OpInv' /\ EndInv' BY Zenon, <1>1 DEF OpInv, EndInv
<1>4. PlaceInv' BY SMTT(30), <1>1 DEF PlaceInv, ThawErrorMeansFailure, NoCrash
<1> QED BY SMTT(30), <1>2, <1>3, <1>4 DEF UndoInv

\* No step of the service ends in a crash.
LEMMA NoCrashStep ==
    ASSUME TypeOK, OrderlyEnvironment, HandledScripts, FreezeInv, UndoInv
    PROVE  ~Crash
<1>1. ~GError BY DEF GError, UndoInv, PlaceInv
<1>2. ~StartScriptsCrashes
  BY ListNotEmpty DEF StartScriptsCrashes, BadList, UndoInv
<1>3. machineState = "IDLE" => ~CancelMayCrash
  BY DEF UndoInv, OpInv, RunningOp, CancelMayCrash
<1>4. machineState = "SYNC_FREEZE" /\ mainPc # "onError" /\ provider = "syncDriver" =>
         ValidHandle(clientData)
  BY DEF FreezeInv, CommitInv
<1>5. mainPc = "abortThaw" => machineState = "SYNC_FREEZE" BY DEF FreezeInv, ActiveInv
<1>6. machineState \in ShutdownStates \/ (machineState \in AbortStates /\ ~AbortIgnored) =>
         ~CancelMayCrash
  <2>1. machineState \in ShutdownStates \/ (machineState \in AbortStates /\ ~AbortIgnored) =>
           machineState \notin {"SCRIPT_FREEZE", "SCRIPT_ERROR"}
    BY DEF OrderlyEnvironment, HandledScripts, AbortIgnored
  <2>2. CASE currentOp.kind = "script" BY Zenon, <2>1, <2>2, CancelThaw
  <2>3. CASE currentOp.kind # "script" BY <2>3 DEF CancelMayCrash
  <2> QED BY <2>2, <2>3
<1> QED BY ZenonT(60), <1>1, <1>2, <1>3, <1>4, <1>5, <1>6 DEF Crash, NullDereference

LEMMA UndoInvWorker ==
    ASSUME TypeOK, FreezeInv, UndoInv, NEW s \in Sessions, Worker(s)
    PROVE  UndoInv'
<1>1. /\ worker[s] # "none"
      /\ UNCHANGED <<active, machineState, execScripts, mainPc, caller, scriptVars>>
  BY DEF Worker, WorkerStarts, WorkerFreezes, WorkerPublishes, WorkerSetsOp, WorkerMoves
<1>2. currentOp = NoOp /\ machineState = "SYNC_FREEZE_WAIT" /\ active
  BY <1>1 DEF FreezeInv, WorkerInv
<1>3. currentOp.kind # "script" /\ currentOp'.kind # "script"
  BY SMTT(30), <1>2, ScriptOpNotOthers
     DEF Worker, WorkerStarts, WorkerFreezes, WorkerPublishes, WorkerSetsOp
<1>4. PlaceInv' BY <1>1, <1>2 DEF UndoInv, PlaceInv, ThawErrorMeansFailure, NoCrash
<1>5. ~ThawCutOff BY <1>2 DEF ThawCutOff
<1>6. scripts => KeptList BY SMTT(30), <1>2, <1>3 DEF UndoInv, OpInv
<1>7. scripts => KeptList' BY <1>1, <1>6 DEF KeptList, scriptVars
<1> QED BY Zenon, <1>1, <1>3, <1>4, <1>5, <1>7, UndoFrame

LEMMA UndoInvScript == ASSUME TypeOK, UndoInv, ScriptProcess PROVE UndoInv'
<1>1. /\ ScriptExits
      /\ UNCHANGED <<active, machineState, execScripts, currentOp, mainPc, caller>>
  BY DEF ScriptProcess, vmVars
<1>2. ScriptInv' BY SMTT(30), <1>1, ScriptExitsInv DEF UndoInv, TypeOK
<1>3. PICK i \in Slots, res \in {"ok", "failed"} :
         /\ proc[i] = "running" /\ proc' = [proc EXCEPT ![i] = res]
         /\ UNCHANGED <<layout, scripts, currentScript, opType, thawFailed>>
  BY Zenon, <1>1 DEF ScriptExits
<1>4. scripts /\ i = currentScript
  BY <1>3 DEF UndoInv, ScriptInv, ListInv, NoProcs, TypeOK, ScriptsTypeOK
<1>5. proc[currentScript] # "none" /\ proc'[currentScript] # "none"
  BY <1>3, <1>4 DEF TypeOK, ScriptsTypeOK
<1>6. OpInv' BY Zenon, <1>1, <1>3, <1>4, <1>5 DEF UndoInv, OpInv, RunningOp
<1>7. EndInv' BY Zenon, <1>3, <1>4 DEF EndInv
<1>8. PlaceInv' BY Zenon, <1>1, <1>3 DEF UndoInv, PlaceInv, ThawErrorMeansFailure, NoCrash
<1> QED BY ZenonT(60), <1>2, <1>6, <1>7, <1>8 DEF UndoInv

LEMMA UndoInvStep ==
    ASSUME OrderlyEnvironment, HandledScripts, TypeOK, FreezeInv, UndoInv, [Next]_vars
    PROVE  UndoInv'
<1>1. CASE Start BY <1>1, UndoInvStart
<1>2. CASE Abort \/ AbortTimer BY <1>2, UndoInvAbort
<1>3. CASE SnapshotDone \/ AbortThaw BY <1>3, UndoInvSnapshotDone
<1>4. CASE Shutdown BY <1>4, UndoInvShutdown
<1>5. CASE Poll BY <1>5, UndoInvPoll
<1>6. CASE Switch BY <1>6, UndoInvSwitch
<1>7. CASE OnError BY <1>7, UndoInvOnError
<1>8. CASE Exit BY <1>8, UndoInvExit
<1>9. CASE Crash BY <1>9, NoCrashStep
<1>10. CASE \E s \in Sessions : Worker(s) BY <1>10, UndoInvWorker
<1>11. CASE ScriptProcess BY SMTT(30), <1>11, UndoInvScript
<1>12. CASE UNCHANGED vars BY <1>12, UndoStutter DEF vars, vmVars
<1> QED BY Zenon, <1>1, <1>2, <1>3, <1>4, <1>5, <1>6, <1>7, <1>8, <1>9, <1>10, <1>11, <1>12
        DEF Next, MainThread

LEMMA UndoInvariant ==
    ASSUME OrderlyEnvironment, HandledScripts
    PROVE  Spec => [](TypeOK /\ FreezeInv /\ UndoInv)
<1>1. Init => UndoInv BY UndoInvInit
<1>2. TypeOK /\ FreezeInv /\ UndoInv /\ [Next]_vars => UndoInv' BY UndoInvStep
<1>3. Spec => [](TypeOK /\ FreezeInv) BY FreezeInvariant
<1> QED BY <1>1, <1>2, <1>3, PTL DEF Spec

(***************************************************************************)
(* VmBackup_NewScriptOp's contract: scripts are undone from above, only if  *)
(* they were frozen, and all of them by the time the poll callback ends the *)
(* backup.                                                                  *)
(***************************************************************************)
THEOREM ScriptsUndone ==
    ASSUME OrderlyEnvironment, HandledScripts
    PROVE  Spec => []FreezeScriptsUndone
<1>1. FreezeInv /\ UndoInv => FreezeScriptsUndone
  <2> SUFFICES ASSUME FreezeInv, UndoInv PROVE FreezeScriptsUndone OBVIOUS
  <2>1. ASSUME mainPc = "exit", machineState = "IDLE", caller = "poll", execScripts
        PROVE  AllUndone
    <3>1. active BY <2>1 DEF FreezeInv, ActiveInv
    <3>2. currentOp.kind # "script" BY <2>1 DEF UndoInv, OpInv, RunningOp
    <3>3. ~scripts BY <2>1, <3>1, <3>2 DEF UndoInv, OpInv, KeptList
    <3>4. ~ThawCutOff BY <2>1 DEF ThawCutOff
    <3> QED BY Zenon, <2>1, <3>1, <3>3, <3>4 DEF UndoInv, EndInv
  <2> QED BY Zenon, <2>1 DEF FreezeScriptsUndone, AllUndone, UndoInv, ScriptInv, ListInv
<1>2. Spec => [](TypeOK /\ FreezeInv /\ UndoInv) BY UndoInvariant
<1> QED BY <1>1, <1>2, PTL

(***************************************************************************)
(* The poll callback reports failed thaw scripts only when one failed, or   *)
(* could not be started.                                                    *)
(***************************************************************************)
THEOREM ThawErrorsReal ==
    ASSUME OrderlyEnvironment, HandledScripts
    PROVE  Spec => []ThawErrorMeansFailure
<1>1. UndoInv => ThawErrorMeansFailure BY DEF UndoInv, PlaceInv
<1>2. Spec => [](TypeOK /\ FreezeInv /\ UndoInv) BY UndoInvariant
<1> QED BY <1>1, <1>2, PTL

(***************************************************************************)
(* No handler reaches g_error, thaws without a handle, or touches a script  *)
(* or a process that is not there.                                          *)
(***************************************************************************)
THEOREM ServiceSurvives ==
    ASSUME OrderlyEnvironment, HandledScripts
    PROVE  Spec => []NoCrash
<1>1. UndoInv => NoCrash BY DEF UndoInv, PlaceInv
<1>2. Spec => [](TypeOK /\ FreezeInv /\ UndoInv) BY UndoInvariant
<1> QED BY <1>1, <1>2, PTL

-----------------------------------------------------------------------------
(***************************************************************************)
(* The README's diagram.                                                    *)
(***************************************************************************)
LEMMA DocumentedStep ==
    ASSUME OrderlyEnvironment, HandledScripts, ShutdownStates \subseteq {"SCRIPT_THAW"},
           TypeOK, FreezeInv, UndoInv, Next
    PROVE  DocumentedTransition \/ machineState' = machineState
<1>1. CASE Start
  <2>1. machineState = "IDLE" /\ machineState' \in {"IDLE", "SCRIPT_FREEZE"}
    BY <1>1 DEF Start, StartCommon, FreezeInv, ActiveInv
  <2> QED BY Zenon, <2>1 DEF DocumentedTransition
<1>2. CASE Abort \/ AbortTimer \/ AbortThaw \/ Poll \/ Crash \/ ScriptProcess
  BY Zenon, <1>2 DEF Abort, AbortTimer, DoAbort, AbortThaw, Poll, PollPending, PollError,
                     PollFinished,
              PollStarts, Crash, ScriptProcess, vmVars
<1>3. CASE SnapshotDone
  <2>1. machineState = "SYNC_FREEZE" /\ machineState' \in {machineState, "SYNC_THAW"}
    BY Zenon, <1>3 DEF SnapshotDone, AcceptsSnapshotDone
  <2> QED BY Zenon, <2>1 DEF DocumentedTransition
<1>4. CASE Shutdown
  <2>1. machineState = "SCRIPT_THAW" /\ machineState' = "IDLE"
    BY <1>4 DEF Shutdown, Finalize
  <2> QED BY Zenon, <2>1 DEF DocumentedTransition
<1>5. CASE Switch
  <2>1. \/ machineState' = machineState
        \/ machineState = "SCRIPT_FREEZE" /\ machineState' = "SYNC_FREEZE_WAIT"
        \/ machineState = "SYNC_FREEZE_WAIT" /\ machineState' = "SYNC_FREEZE"
        \/ machineState = "SYNC_THAW" /\ machineState' = "SCRIPT_THAW"
        \/ machineState = "SYNC_ERROR" /\ machineState' = "SCRIPT_ERROR"
        \/ machineState \in {"SCRIPT_THAW", "SCRIPT_ERROR"} /\ machineState' = "IDLE"
    BY ZenonT(60), <1>5 DEF Switch, EnableSyncWait, EnableSync, AfterFreezeWait, StayFrozen,
                            StartThawScripts,
                StartFailScripts, BackToIdle, InSwitch
  <2> QED BY Zenon, <2>1 DEF DocumentedTransition
<1>6. CASE OnErrorRunScripts
  <2>1. PICK ok \in BOOLEAN : /\ StartScripts("FREEZE_FAIL", ok)
                              /\ machineState' = IF ok THEN "SCRIPT_ERROR" ELSE "IDLE"
    BY <1>6 DEF OnErrorRunScripts
  <2>2. mainPc = "onError" /\ machineState \in {"SCRIPT_FREEZE", "SYNC_ERROR"} /\ active
    BY <1>6 DEF OnErrorRunScripts, InOnError, FreezeInv, ActiveInv
  <2>3. currentOp.kind # "script"
    BY <2>2 DEF UndoInv, OpInv, RunningOp
  <2>4. ok
    BY <2>1, <2>2, <2>3, FailScriptsStart
  <2> QED BY <2>1, <2>2, <2>4 DEF DocumentedTransition
<1>7. CASE OnErrorSync \/ OnErrorThaw
  <2>1. \/ machineState \in {"SYNC_FREEZE_WAIT", "SYNC_FREEZE", "SYNC_THAW"}
           /\ machineState' = "SYNC_ERROR"
        \/ machineState = "SCRIPT_THAW" /\ machineState' = "IDLE"
    BY <1>7 DEF OnErrorSync, OnErrorThaw, InOnError
  <2> QED BY Zenon, <2>1 DEF DocumentedTransition
<1>8. CASE Exit
  BY ZenonT(60), <1>8 DEF Exit, Finalize
<1>9. ASSUME NEW s \in Sessions, Worker(s) PROVE machineState' = machineState
  BY <1>9 DEF Worker, WorkerStarts, WorkerFreezes, WorkerPublishes, WorkerSetsOp, WorkerMoves
<1> QED BY Zenon, <1>1, <1>2, <1>3, <1>4, <1>5, <1>6, <1>7, <1>8, <1>9
           DEF Next, MainThread, OnError

(***************************************************************************)
(* The machine state changes along the arrows of the diagram in the         *)
(* plugin's README only.  A shutdown ends a backup in any state, so it is   *)
(* excluded but for the state that may end anyway.                          *)
(***************************************************************************)
THEOREM FollowsDiagram ==
    ASSUME OrderlyEnvironment, HandledScripts, ShutdownStates \subseteq {"SCRIPT_THAW"}
    PROVE  Spec => DocumentedTransitions
<1>1. TypeOK /\ FreezeInv /\ UndoInv /\ [Next]_vars => [DocumentedTransition]_machineState
  <2> SUFFICES ASSUME TypeOK, FreezeInv, UndoInv, [Next]_vars
               PROVE  DocumentedTransition \/ machineState' = machineState
    OBVIOUS
  <2>1. CASE UNCHANGED vars BY <2>1 DEF vars, vmVars
  <2> QED BY <2>1, DocumentedStep
<1>2. Spec => [](TypeOK /\ FreezeInv /\ UndoInv) BY UndoInvariant
<1> QED BY <1>1, <1>2, PTL DEF Spec, DocumentedTransitions
=============================================================================
