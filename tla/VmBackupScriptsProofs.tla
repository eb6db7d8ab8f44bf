----------------------- MODULE VmBackupScriptsProofs -----------------------
(***************************************************************************)
(* What the operations of scriptOps.c do to the script list, for every set  *)
(* of script installations: the types of their outcomes, the shape of the   *)
(* two walks, and an invariant of the list that each operation keeps.       *)
(* VmBackupProofs and VmBackupProtocolProofs use these lemmas.              *)
(***************************************************************************)
EXTENDS VmBackupScripts, TLAPS

(***************************************************************************)
(* The outcomes of VmBackupRunNextScript stay inside the list.              *)
(***************************************************************************)
Outcome(o) ==
    /\ o.cur \in -1 .. MaxScripts
    /\ o.proc \in [Slots -> ProcStates]
    /\ o.failed \in BOOLEAN
    /\ o.tried \subseteq Slots
    /\ o.ret \in {-1, 0, 1}

LEMMA ListFits == ASSUME NEW l \in Layouts
                  PROVE  NumPaths(l) \in 0 .. MaxScripts
  BY ScriptsAssumption DEF NumPaths, LayoutType, Legacy

LEMMA ForwardOutcome ==
    ASSUME NEW l \in Layouts, NEW r \in BOOLEAN, NEW p \in [Slots -> ProcStates],
           NEW from \in -1 .. MaxScripts, NEW o \in RunForward(l, r, p, from)
    PROVE  Outcome(o)
<1> DEFINE Ran(i, st, ret) == [cur |-> i, proc |-> [p EXCEPT ![i] = st],
                               failed |-> FALSE, tried |-> {i}, ret |-> ret]
           off == [cur |-> EndOfList(l), proc |-> p, failed |-> FALSE, tried |-> {}, ret |-> 0]
<1>1. o = off \/ \E i \in Slots : o = Ran(i, "running", 1) \/ o = Ran(i, "none", -1)
  BY DEF RunForward
<1>2. CASE o = off
  BY <1>2, ListFits, ScriptsAssumption DEF Outcome, EndOfList
<1>3. ASSUME NEW i \in Slots, o = Ran(i, "running", 1) \/ o = Ran(i, "none", -1)
      PROVE  Outcome(o)
  <2>1. \A st \in ProcStates : [p EXCEPT ![i] = st] \in [Slots -> ProcStates]
    OBVIOUS
  <2>2. i \in -1 .. MaxScripts BY ScriptsAssumption DEF Slots
  <2>3. o.cur = i /\ o.failed = FALSE /\ o.tried = {i} /\ o.ret \in {-1, 1}
    BY <1>3
  <2>4. o.proc \in [Slots -> ProcStates]
    BY <1>3, <2>1 DEF ProcStates
  <2> QED BY Zenon, <2>2, <2>3, <2>4 DEF Outcome
<1> QED BY <1>1, <1>2, <1>3

LEMMA BackwardOutcome ==
    ASSUME NEW l \in Layouts, NEW r \in BOOLEAN, NEW p \in [Slots -> ProcStates],
           NEW from \in -1 .. MaxScripts, NEW fault, NEW o \in RunBackward(l, r, p, from, fault)
    PROVE  Outcome(o)
<1> DEFINE down == Below(l, r, from)
           Skip(S) == [i \in Slots |-> IF i \in S THEN "none" ELSE p[i]]
           off == [cur |-> -1, proc |-> Skip(down), failed |-> down # {}, tried |-> down,
                   ret |-> IF AllFailed(l, r, Skip(down), from) THEN -1 ELSE 0]
<1>1. down \subseteq Slots BY DEF Below
<1>2. \A S : Skip(S) \in [Slots -> ProcStates] BY DEF ProcStates
<1>3. o = off \/ \E i \in down :
        o = [cur |-> i, proc |-> [Skip({j \in down : j > i}) EXCEPT ![i] = "running"],
             failed |-> {j \in down : j > i} # {},
             tried |-> {j \in down : j >= i}, ret |-> 1]
  BY DEF RunBackward
<1>4. CASE o = off
  BY <1>1, <1>2, <1>4, ScriptsAssumption DEF Outcome
<1>5. ASSUME NEW i \in down,
        o = [cur |-> i, proc |-> [Skip({j \in down : j > i}) EXCEPT ![i] = "running"],
             failed |-> {j \in down : j > i} # {},
             tried |-> {j \in down : j >= i}, ret |-> 1]
      PROVE Outcome(o)
  <2>1. [Skip({j \in down : j > i}) EXCEPT ![i] = "running"] \in [Slots -> ProcStates]
    BY <1>1, <1>2 DEF ProcStates
  <2>2. i \in -1 .. MaxScripts BY <1>1, ScriptsAssumption DEF Slots
  <2>3. {j \in down : j >= i} \subseteq Slots BY <1>1
  <2> QED BY <1>5, <2>1, <2>2, <2>3 DEF Outcome
<1> QED BY <1>3, <1>4, <1>5

LEMMA RunOutcome ==
    ASSUME NEW type \in ScriptTypes, NEW l \in Layouts, NEW r \in BOOLEAN,
           NEW p \in [Slots -> ProcStates], NEW from \in -1 .. MaxScripts,
           NEW o \in RunNextScript(type, l, r, p, from)
    PROVE  Outcome(o)
  BY ForwardOutcome, BackwardOutcome DEF RunNextScript, ScriptTypes

-----------------------------------------------------------------------------
(***************************************************************************)
(* Every script operation keeps the script state well typed.                *)
(***************************************************************************)
LEMMA NoProcsTyped == NoProcs \in [Slots -> ProcStates]
  BY DEF NoProcs, ProcStates

LEMMA Bounds == MaxScripts \in Nat /\ -1 \in -1 .. MaxScripts /\ 0 \in -1 .. MaxScripts
<1>1. MaxScripts \in Nat BY ScriptsAssumption
<1> QED BY <1>1

LEMMA FreeScriptsTyped ==
    FreeScripts => /\ scripts' \in BOOLEAN
                   /\ currentScript' \in -1 .. MaxScripts
                   /\ proc' \in [Slots -> ProcStates]
  BY Zenon, NoProcsTyped, Bounds DEF FreeScripts

LEMMA NewFreezeTyped ==
    ASSUME ScriptsTypeOK, NEW l \in Layouts, NEW ok, NewFreezeOp(l, ok)
    PROVE  ScriptsTypeOK'
<1>1. layout' \in Layouts /\ renamed' \in BOOLEAN /\ opType' \in ScriptTypes
      /\ thawFailed' \in BOOLEAN /\ freezeDone' \subseteq Slots /\ undone' \subseteq Slots
  BY Zenon DEF NewFreezeOp, ScriptTypes
<1>2. CASE HasList(l)
  <2>1. PICK o \in RunNextScript("FREEZE", l, FALSE, NoProcs, -1) :
           scripts' = TRUE /\ currentScript' = o.cur /\ proc' = o.proc
    BY Zenon, <1>2 DEF NewFreezeOp
  <2>2. -1 \in -1 .. MaxScripts BY Bounds
  <2>3. Outcome(o) BY Zenon, <2>2, RunOutcome, NoProcsTyped DEF ScriptTypes
  <2> QED BY <1>1, <2>1, <2>3 DEF Outcome, ScriptsTypeOK
<1>3. CASE ~HasList(l)
  <2>1. scripts' = FALSE /\ currentScript' = 0 /\ proc' = NoProcs
    BY <1>3 DEF NewFreezeOp
  <2> QED BY Zenon, <1>1, <2>1, NoProcsTyped, Bounds DEF ScriptsTypeOK
<1> QED BY <1>2, <1>3

LEMMA NewUndoTyped ==
    ASSUME ScriptsTypeOK, NEW type \in {"THAW", "FREEZE_FAIL"}, NEW ok, NewUndoOp(type, ok)
    PROVE  ScriptsTypeOK'
<1>1. layout' \in Layouts /\ opType' \in ScriptTypes /\ freezeDone' \subseteq Slots
  BY DEF NewUndoOp, ScriptTypes, ScriptsTypeOK
<1>2. CASE scripts
  <2>1. renamed' \in BOOLEAN
    BY <1>2 DEF NewUndoOp, Legacy
  <2>2. PICK o \in RunNextScript(type, layout, renamed', proc, currentScript) :
           /\ thawFailed' = o.failed
           /\ undone' = undone \cup o.tried
           /\ IF ok THEN scripts' = TRUE /\ currentScript' = o.cur /\ proc' = o.proc
                    ELSE FreeScripts
    BY <1>2 DEF NewUndoOp
  <2>3. Outcome(o) BY <2>1, RunOutcome DEF ScriptTypes, ScriptsTypeOK
  <2>4. thawFailed' \in BOOLEAN /\ undone' \subseteq Slots
    BY <2>2, <2>3 DEF Outcome, ScriptsTypeOK
  <2>5. scripts' \in BOOLEAN /\ currentScript' \in -1 .. MaxScripts /\ proc' \in [Slots -> ProcStates]
    BY Zenon, <2>2, <2>3, FreeScriptsTyped DEF Outcome
  <2> QED BY <1>1, <2>1, <2>4, <2>5 DEF ScriptsTypeOK
<1>3. CASE ~scripts
  BY Zenon, <1>1, <1>3 DEF NewUndoOp, ScriptsTypeOK
<1> QED BY <1>2, <1>3

LEMMA QueryTyped ==
    ASSUME ScriptsTypeOK, NEW status, ScriptOpQuery(status)
    PROVE  ScriptsTypeOK'
<1>1. layout' \in Layouts /\ renamed' \in BOOLEAN /\ opType' \in ScriptTypes
      /\ freezeDone' \subseteq Slots
  BY DEF ScriptOpQuery, ScriptsTypeOK
<1>2. CASE CurrentProc = "none"
  <2>1. scripts' \in BOOLEAN /\ currentScript' \in -1 .. MaxScripts /\ proc' \in [Slots -> ProcStates]
    BY <1>2, FreeScriptsTyped DEF ScriptOpQuery, ScriptOpRelease, ScriptsTypeOK
  <2>2. thawFailed' \in BOOLEAN /\ undone' \subseteq Slots
    BY <1>2 DEF ScriptOpQuery, ScriptsTypeOK
  <2> QED BY <1>1, <2>1, <2>2 DEF ScriptsTypeOK
<1>3. CASE CurrentProc = "running"
  BY <1>1, <1>3 DEF ScriptOpQuery, ScriptsTypeOK
<1>4. CASE CurrentProc \notin {"none", "running"}
  <2> DEFINE reaped == [proc EXCEPT ![currentScript] = "none"]
             failed == CurrentProc = "failed"
  <2>1. reaped \in [Slots -> ProcStates] BY Zenon DEF ScriptsTypeOK, ProcStates
  <2>2. CASE failed /\ opType = "FREEZE"
    <3>1. proc' = reaped /\ UNCHANGED <<scripts, currentScript, thawFailed, undone>>
      BY <1>4, <2>2 DEF ScriptOpQuery
    <3> QED BY <1>1, <2>1, <3>1 DEF ScriptsTypeOK
  <2>3. CASE ~(failed /\ opType = "FREEZE")
    <3>1. PICK o \in RunNextScript(opType, layout, renamed, reaped, currentScript) :
             /\ thawFailed' = (thawFailed \/ o.failed \/ (failed /\ opType = "THAW"))
             /\ undone' = IF opType = "FREEZE" THEN undone ELSE undone \cup o.tried
             /\ IF status = "PENDING" \/ opType = "FREEZE"
                THEN scripts' = TRUE /\ currentScript' = o.cur /\ proc' = o.proc
                ELSE FreeScripts
      BY Zenon, <1>4, <2>3 DEF ScriptOpQuery
    <3>2. Outcome(o) BY Zenon, <2>1, RunOutcome DEF ScriptsTypeOK
    <3>3. thawFailed' \in BOOLEAN BY <3>1
    <3>4. undone' \subseteq Slots BY <3>1, <3>2 DEF Outcome, ScriptsTypeOK
    <3>5. scripts' \in BOOLEAN /\ currentScript' \in -1 .. MaxScripts /\ proc' \in [Slots -> ProcStates]
      BY Zenon, <3>1, <3>2, FreeScriptsTyped DEF Outcome
    <3> QED BY <1>1, <3>3, <3>4, <3>5 DEF ScriptsTypeOK
  <2> QED BY <2>2, <2>3
<1> QED BY <1>2, <1>3, <1>4

LEMMA CancelTyped ==
    ASSUME ScriptsTypeOK, ScriptOpCancelRelease
    PROVE  ScriptsTypeOK'
<1>1. CASE opType = "FREEZE"
  <2>1. [proc EXCEPT ![currentScript] = "failed"] \in [Slots -> ProcStates]
    BY Zenon DEF ScriptsTypeOK, ProcStates
  <2>2. proc' \in [Slots -> ProcStates] /\ UNCHANGED <<scripts, currentScript>>
    BY <1>1, <2>1 DEF ScriptOpCancelRelease, ScriptsTypeOK
  <2> QED BY <2>2 DEF ScriptOpCancelRelease, ScriptsTypeOK
<1>2. CASE opType # "FREEZE"
  BY <1>2, FreeScriptsTyped DEF ScriptOpCancelRelease, ScriptsTypeOK
<1> QED BY <1>1, <1>2

LEMMA ScriptExitsTyped ==
    ASSUME ScriptsTypeOK, ScriptExits
    PROVE  ScriptsTypeOK'
<1>1. PICK i \in Slots, res \in {"ok", "failed"} :
         /\ proc' = [proc EXCEPT ![i] = res]
         /\ freezeDone' = IF res = "ok" /\ opType = "FREEZE" THEN freezeDone \cup {i} ELSE freezeDone
  BY Zenon DEF ScriptExits
<1>2. proc' \in [Slots -> ProcStates] BY <1>1 DEF ScriptsTypeOK, ProcStates
<1>3. freezeDone' \subseteq Slots BY <1>1 DEF ScriptsTypeOK
<1> QED BY <1>2, <1>3 DEF ScriptExits, ScriptsTypeOK

LEMMA UnchangedScriptsTyped == ScriptsTypeOK /\ UNCHANGED scriptVars => ScriptsTypeOK'
  BY DEF ScriptsTypeOK, scriptVars
-----------------------------------------------------------------------------
(***************************************************************************)
(* The scripts.  What the operations on the script list promise when the    *)
(* first slot can always be undone, and no fail script fails to start.      *)
(***************************************************************************)
UndoableScripts ==
    /\ Faults \cap {"installPath", "execFail"} = {}
    /\ \A l \in Layouts : HasList(l) => IsFile(l, TRUE, 0)

AllUndone == \A i \in freezeDone : IsFile(layout, TRUE, i) => i \in undone

\* Slots below the current one are frozen, and slots are undone from above.
ListInv ==
    /\ IF scripts THEN HasList(layout) ELSE proc = NoProcs
    /\ \A i \in Slots : i # currentScript => proc[i] = "none"
    /\ scripts => \A i \in Slots : i < currentScript /\ IsFile(layout, FALSE, i) => i \in freezeDone
    /\ \A i \in undone : i \in freezeDone \/ (i = 0 /\ Legacy(layout))
    /\ \A i \in undone, j \in freezeDone : j > i /\ IsFile(layout, TRUE, j) => j \in undone

\* Until an undo operation is created nothing above the current slot is frozen.
FreezingInv ==
    opType = "FREEZE" /\ scripts =>
        /\ undone = {} /\ currentScript >= 0 /\ renamed = FALSE
        /\ proc[currentScript] # "none" => IsFile(layout, FALSE, currentScript)
        /\ proc[currentScript] = "ok" => currentScript \in freezeDone
        /\ \A i \in freezeDone : i <= currentScript /\ (i = currentScript => proc[i] = "ok")

\* An undo operation has undone the current slot and all above it.
UndoingInv ==
    /\ opType # "FREEZE" /\ scripts =>
        /\ renamed = Legacy(layout)
        /\ \A i \in freezeDone : i >= currentScript /\ IsFile(layout, TRUE, i) => i \in undone
        /\ currentScript # -1 => proc[currentScript] # "none"
        /\ opType = "THAW" => currentScript # -1
    /\ opType = "FREEZE_FAIL" => ~thawFailed

ScriptInv == ListInv /\ FreezingInv /\ UndoingInv

\* The upward walk runs the next file, if there is one.
WalkedUp(l, r, p, from, o) ==
    IF o.ret = 0
    THEN /\ o.cur = NumPaths(l) /\ o.proc = p
         /\ \A i \in Slots : from < i => ~IsFile(l, r, i)
    ELSE /\ o.cur \in Slots /\ from < o.cur /\ IsFile(l, r, o.cur)
         /\ \A i \in Slots : from < i /\ i < o.cur => ~IsFile(l, r, i)
         /\ o.proc = [p EXCEPT ![o.cur] = IF o.ret = 1 THEN "running" ELSE "none"]

LEMMA ForwardShape ==
    ASSUME NEW l \in Layouts, NEW r \in BOOLEAN, NEW p \in [Slots -> ProcStates],
           NEW from \in -1 .. MaxScripts, NEW o \in RunForward(l, r, p, from)
    PROVE  WalkedUp(l, r, p, from, o)
<1> DEFINE up == {i \in Slots : from < i /\ IsFile(l, r, i)}
           Ran(i, st, ret) == [cur |-> i, proc |-> [p EXCEPT ![i] = st],
                               failed |-> FALSE, tried |-> {i}, ret |-> ret]
           off == [cur |-> EndOfList(l), proc |-> p, failed |-> FALSE, tried |-> {}, ret |-> 0]
<1>1. \/ up = {} /\ o = off
      \/ \E i \in {k \in up : \A j \in up : k <= j} : o = Ran(i, "running", 1) \/ o = Ran(i, "none", -1)
  BY ZenonT(60) DEF RunForward
<1>2. CASE up = {} /\ o = off
  BY Zenon, <1>2 DEF EndOfList, WalkedUp
<1>3. ASSUME NEW i \in {k \in up : \A j \in up : k <= j},
             o = Ran(i, "running", 1) \/ o = Ran(i, "none", -1)
      PROVE  /\ o.ret # 0 /\ o.cur = i
             /\ o.proc = [p EXCEPT ![i] = IF o.ret = 1 THEN "running" ELSE "none"]
  <2>1. CASE o = Ran(i, "running", 1) BY SMTT(60), <2>1
  <2>2. CASE o = Ran(i, "none", -1) BY SMTT(60), <2>2
  <2> QED BY Zenon, <1>3, <2>1, <2>2
<1>4. ASSUME NEW i \in {k \in up : \A j \in up : k <= j}
      PROVE  /\ i \in Slots /\ from < i /\ IsFile(l, r, i)
             /\ \A k \in Slots : from < k /\ k < i => ~IsFile(l, r, k)
  <2>1. ASSUME NEW k \in Slots, from < k, k < i, IsFile(l, r, k) PROVE FALSE
    <3>1. k \in up BY Zenon, <2>1
    <3>2. i <= k BY Zenon, <3>1
    <3>3. i \in Int /\ k \in Int BY SMTT(60) DEF Slots
    <3> QED BY SMTT(60), <2>1, <3>2, <3>3
  <2> QED BY Zenon, <2>1
<1> QED BY ZenonT(60), <1>1, <1>2, <1>3, <1>4 DEF WalkedUp

\* The downward walk starts the next file it can, and goes on to the first slot.
WalkedDown(l, r, p, from, fault, o) ==
    \/ /\ o.ret = 1 /\ o.cur \in Slots /\ o.cur < from /\ o.proc[o.cur] = "running"
       /\ \A i \in Slots : i # o.cur => o.proc[i] \in {p[i], "none"}
       /\ o.tried = {j \in Slots : o.cur <= j /\ j < from /\ IsFile(l, r, j)}
       /\ fault \notin Faults => o.failed = FALSE
    \/ /\ o.ret = 0 /\ from <= 0 /\ o.cur = -1 /\ o.proc = p
       /\ o.tried = {} /\ o.failed = FALSE
    \/ /\ o.ret = -1 /\ o.failed = TRUE /\ fault \in Faults
       /\ o.tried = {j \in Slots : j < from /\ IsFile(l, r, j)}

LEMMA BackwardShape ==
    ASSUME NEW l \in Layouts, NEW r \in BOOLEAN, NEW p \in [Slots -> ProcStates],
           NEW from \in -1 .. MaxScripts, NEW fault, NEW o \in RunBackward(l, r, p, from, fault),
           IsFile(l, r, 0)
    PROVE  WalkedDown(l, r, p, from, fault, o)
<1> DEFINE down == Below(l, r, from)
           Skip(S) == [i \in Slots |-> IF i \in S THEN "none" ELSE p[i]]
           off == [cur |-> -1, proc |-> Skip(down), failed |-> down # {}, tried |-> down,
                   ret |-> IF AllFailed(l, r, Skip(down), from) THEN -1 ELSE 0]
           Runs(i) == [cur |-> i, proc |-> [Skip({j \in down : j > i}) EXCEPT ![i] = "running"],
                       failed |-> {j \in down : j > i} # {},
                       tried |-> {j \in down : j >= i}, ret |-> 1]
<1>1. \/ o = off /\ (down = {} \/ fault \in Faults)
      \/ \E i \in down : /\ o = Runs(i)
                         /\ fault \in Faults \/ \A k \in down : k <= i
  BY ZenonT(60) DEF RunBackward
<1>2. down = {j \in Slots : j < from /\ IsFile(l, r, j)} BY SMTT(60) DEF Below
<1>3. 0 \in Slots /\ 0 < NumPaths(l)
  <2>1. MaxScripts \in Nat BY Zenon, Bounds
  <2>2. NumPaths(l) \in Int /\ NumPaths(l) >= 0 /\ (Legacy(l) => NumPaths(l) >= 1)
    BY SMTT(60), ScriptsAssumption DEF NumPaths, LayoutType, Legacy
  <2> QED BY <2>1, <2>2 DEF IsFile, Slots
<1>4. CASE o = off /\ (down = {} \/ fault \in Faults)
  <2>1. CASE from > 0
    <3>1. 0 \in down BY SMTT(60), <1>2, <1>3, <2>1
    <3>2. AllFailed(l, r, Skip(down), from) BY <1>3, <2>1, <3>1 DEF AllFailed
    <3>3. o.ret = -1 /\ o.failed = TRUE /\ o.tried = down BY Zenon, <1>4, <3>1, <3>2
    <3> QED BY <1>2, <1>4, <3>1, <3>3 DEF WalkedDown
  <2>2. CASE ~(from > 0)
    <3>1. down = {} BY <1>2, <2>2 DEF Slots
    <3>2. Skip(down) = p BY SMTT(60), <3>1
    <3>3. ~AllFailed(l, r, Skip(down), from) BY <2>2 DEF AllFailed
    <3>4. /\ o.ret = 0 /\ o.cur = -1 /\ o.proc = Skip(down) /\ o.tried = down
          /\ o.failed = FALSE
      BY Zenon, <1>4, <3>1, <3>3
    <3>5. from <= 0 BY <2>2
    <3> QED BY ZenonT(60), <3>1, <3>2, <3>4, <3>5 DEF WalkedDown
  <2> QED BY <2>1, <2>2
<1>5. ASSUME NEW i \in down, o = Runs(i), fault \in Faults \/ \A k \in down : k <= i
      PROVE  WalkedDown(l, r, p, from, fault, o)
  <2>1. i \in Slots /\ i < from BY Zenon, <1>2
  <2>2. o.ret = 1 /\ o.cur = i /\ o.proc = [Skip({j \in down : j > i}) EXCEPT ![i] = "running"]
        /\ o.tried = {j \in down : j >= i} /\ o.failed = ({j \in down : j > i} # {})
    BY SMTT(60), <1>5
  <2>3. o.proc[i] = "running" /\ \A k \in Slots : k # i => o.proc[k] \in {p[k], "none"}
    BY SMTT(60), <2>1, <2>2
  <2>4. o.tried = {j \in Slots : i <= j /\ j < from /\ IsFile(l, r, j)}
    BY <1>2, <2>1, <2>2 DEF Slots
  <2>5. fault \notin Faults => o.failed = FALSE
    <3>1. ASSUME NEW j \in down, j > i, \A k \in down : k <= i PROVE FALSE
      <4>1. j <= i BY Zenon, <3>1
      <4> QED BY SMTT(60), <1>2, <2>1, <3>1, <4>1 DEF Slots
    <3> QED BY ZenonT(60), <1>5, <2>2, <3>1
  <2> QED BY ZenonT(60), <2>1, <2>2, <2>3, <2>4, <2>5 DEF WalkedDown
<1> QED BY ZenonT(60), <1>1, <1>4, <1>5

\* Once renamed, the first slot holds what there is to undo.
LEMMA RenamedFiles ==
    \A l, i : /\ IsFile(l, Legacy(l), i) = IsFile(l, TRUE, i)
              /\ ~(i = 0 /\ Legacy(l)) => IsFile(l, TRUE, i) = IsFile(l, FALSE, i)
  BY Zenon DEF IsFile

LEMMA FilesFit ==
    ASSUME NEW l \in Layouts, NEW r \in BOOLEAN, NEW i \in Slots, IsFile(l, r, i)
    PROVE  i < NumPaths(l)
<1>1. NumPaths(l) \in Int /\ (Legacy(l) => NumPaths(l) >= 1)
  BY SMTT(60), ScriptsAssumption DEF NumPaths, LayoutType, Legacy
<1> QED BY SMTT(60), <1>1 DEF IsFile

-----------------------------------------------------------------------------
LEMMA FreeScriptsInv ==
    ASSUME ScriptsTypeOK, ScriptInv, FreeScripts,
           UNCHANGED <<layout, renamed, opType, thawFailed, freezeDone, undone>>
    PROVE  ScriptInv'
<1>1. ListInv'
  BY ZenonT(60) DEF ScriptInv, ListInv, FreeScripts, NoProcs
<1>2. FreezingInv' BY DEF FreezingInv, FreeScripts
<1>3. UndoingInv' BY ZenonT(60) DEF ScriptInv, UndoingInv, FreeScripts
<1> QED BY <1>1, <1>2, <1>3 DEF ScriptInv

LEMMA NewFreezeInv ==
    ASSUME NEW l \in Layouts, NEW ok, NewFreezeOp(l, ok)
    PROVE  /\ ScriptInv'
           /\ freezeDone' = {} /\ opType' = "FREEZE"
           /\ ok /\ scripts' /\ proc'[currentScript'] = "none" => currentScript' = NumPaths(layout')
<1>1. /\ layout' = l /\ opType' = "FREEZE" /\ renamed' = FALSE /\ freezeDone' = {}
      /\ undone' = {}
  BY Zenon DEF NewFreezeOp
<1>2. CASE HasList(l)
  <2>1. PICK o \in RunForward(l, FALSE, NoProcs, -1) :
           ok = (o.ret # -1) /\ scripts' = TRUE /\ currentScript' = o.cur /\ proc' = o.proc
    BY Zenon, <1>2 DEF NewFreezeOp, RunNextScript
  <2>2. WalkedUp(l, FALSE, NoProcs, -1, o)
    <3>1. FALSE \in BOOLEAN /\ -1 \in -1 .. MaxScripts BY Bounds
    <3> QED BY ZenonT(60), <3>1, ForwardShape, NoProcsTyped
  <2>3. Outcome(o) BY ZenonT(60), ForwardOutcome, NoProcsTyped, Bounds
  <2>4. NumPaths(l) \in Slots BY ListFits, Bounds DEF Slots
  <2>5. \A i \in Slots : -1 < i BY DEF Slots
  <2>6. o.cur \in Slots BY Zenon, <2>2, <2>4 DEF WalkedUp
  <2>7. /\ \A i \in Slots : i # o.cur => o.proc[i] = "none"
        /\ \A i \in Slots : i < o.cur => ~IsFile(l, FALSE, i)
        /\ o.proc[o.cur] # "none" => o.proc[o.cur] = "running" /\ IsFile(l, FALSE, o.cur)
        /\ o.ret # -1 /\ o.proc[o.cur] = "none" => o.cur = NumPaths(l)
    <3>1. CASE o.ret = 0 BY Zenon, <2>2, <2>4, <2>5, <3>1 DEF NoProcs, WalkedUp
    <3>2. CASE o.ret # 0
      <4>1. /\ \A i \in Slots : i # o.cur => o.proc[i] = "none"
            /\ o.proc[o.cur] = IF o.ret = 1 THEN "running" ELSE "none"
        BY SMTT(60), <2>2, <3>2 DEF NoProcs, WalkedUp
      <4>2. o.ret \in {-1, 1} BY <2>3, <3>2 DEF Outcome
      <4> QED BY ZenonT(60), <2>2, <2>5, <3>2, <4>1, <4>2 DEF WalkedUp
    <3> QED BY Zenon, <3>1, <3>2
  <2>8. ListInv' BY Zenon, <1>1, <1>2, <2>1, <2>7 DEF ListInv
  <2>9. FreezingInv'
    <3>1. o.cur >= 0 BY <2>6 DEF Slots
    <3>2. "running" # "ok" BY Zenon
    <3> QED BY ZenonT(60), <1>1, <2>1, <2>7, <3>1, <3>2 DEF FreezingInv
  <2>10. UndoingInv' BY Zenon, <1>1 DEF UndoingInv
  <2> QED BY Zenon, <1>1, <2>1, <2>7, <2>8, <2>9, <2>10 DEF ScriptInv
<1>3. CASE ~HasList(l)
  <2>1. scripts' = FALSE /\ currentScript' = 0 /\ proc' = NoProcs
    BY <1>3 DEF NewFreezeOp
  <2>2. \A i \in Slots : NoProcs[i] = "none" BY DEF NoProcs
  <2>4. ListInv' BY ZenonT(60), <1>1, <2>1, <2>2 DEF ListInv
  <2>5. FreezingInv' BY Zenon, <2>1 DEF FreezingInv
  <2>6. UndoingInv' BY <1>1 DEF UndoingInv
  <2> QED BY SMTT(60), <1>1, <2>1, <2>4, <2>5, <2>6 DEF ScriptInv
<1> QED BY <1>2, <1>3

LEMMA ScriptExitsInv == ASSUME ScriptsTypeOK, ScriptInv, ScriptExits PROVE ScriptInv'
<1> USE DEF ScriptInv
<1>1. PICK i \in Slots, res \in {"ok", "failed"} :
         /\ proc[i] = "running" /\ proc' = [proc EXCEPT ![i] = res]
         /\ freezeDone' = IF res = "ok" /\ opType = "FREEZE" THEN freezeDone \cup {i} ELSE freezeDone
         /\ UNCHANGED <<layout, scripts, currentScript, renamed, opType, thawFailed, undone>>
  BY ZenonT(60) DEF ScriptExits
<1>2. i = currentScript /\ scripts
  BY Zenon, <1>1 DEF ListInv, NoProcs, ScriptsTypeOK
<1>3. /\ \A k \in Slots : k # i => proc'[k] = proc[k]
      /\ proc'[i] = res
  BY <1>1 DEF ScriptsTypeOK
<1>4. i \in Int /\ i >= 0 BY SMTT(60), Bounds DEF Slots
<1>5. opType = "FREEZE" => undone = {} BY <1>2 DEF FreezingInv
<1>6. ListInv'
  <2>1. freezeDone \subseteq freezeDone' BY Zenon, <1>1
  <2>2. opType # "FREEZE" => freezeDone' = freezeDone BY <1>1
  <2> QED BY ZenonT(60), <1>1, <1>2, <1>3, <1>5, <2>1, <2>2 DEF ListInv
<1>7. FreezingInv'
  <2> SUFFICES ASSUME opType = "FREEZE" PROVE FreezingInv' BY Zenon, <1>1 DEF FreezingInv
  <2>1. IsFile(layout, FALSE, i) /\ undone = {} /\ renamed = FALSE
    BY ZenonT(60), <1>1, <1>2 DEF FreezingInv
  <2>2. res = "ok" => i \in freezeDone' BY Zenon, <1>1
  <2>3. i \notin freezeDone BY Zenon, <1>1, <1>2 DEF FreezingInv
  <2>4. \A k \in freezeDone' : k <= i /\ (k = i => proc'[k] = "ok")
    BY <1>1, <1>2, <1>3, <1>4, <2>3 DEF FreezingInv
  <2> QED BY Zenon, <1>1, <1>2, <1>3, <1>4, <2>1, <2>2, <2>4 DEF FreezingInv
<1>8. UndoingInv' BY ZenonT(60), <1>1, <1>2, <1>3 DEF UndoingInv
<1> QED BY <1>6, <1>7, <1>8

(***************************************************************************)
(* One downward walk: it undoes what is frozen, from above, and ends with a *)
(* running script, or with everything undone.                               *)
(***************************************************************************)
UndoneInOrder(u) ==
    /\ \A i \in u : i \in freezeDone \/ (i = 0 /\ Legacy(layout))
    /\ \A i \in u, j \in freezeDone : j > i /\ IsFile(layout, TRUE, j) => j \in u

UndoneFrom(c, u) == \A i \in freezeDone : i >= c /\ IsFile(layout, TRUE, i) => i \in u

WalkUndid(type, o, u) ==
    /\ UndoneInOrder(u)
    /\ \/ /\ o.ret = 1 /\ UndoneFrom(o.cur, u)
          /\ o.cur \in Slots /\ o.cur < currentScript /\ o.proc[o.cur] = "running"
          /\ \A i \in Slots : i # o.cur => o.proc[i] = "none"
       \/ /\ o.ret = 0 /\ UndoneFrom(-1, u)
          /\ currentScript <= 0 /\ o.cur = -1 /\ o.failed = FALSE
          /\ \A i \in Slots : o.proc[i] = "none"
       \/ o.ret = -1 /\ UndoneFrom(-1, u) /\ o.failed = TRUE /\ type = "THAW"
    /\ type = "FREEZE_FAIL" => o.failed = FALSE

LEMMA UndoWalk ==
    ASSUME ScriptsTypeOK, UndoableScripts, ScriptInv, scripts,
           NEW type \in {"THAW", "FREEZE_FAIL"}, NEW r, r = Legacy(layout),
           NEW p \in [Slots -> ProcStates], \A i \in Slots : p[i] = "none",
           NEW o \in RunNextScript(type, layout, r, p, currentScript),
           UndoneFrom(currentScript, undone)
    PROVE  WalkUndid(type, o, undone \cup o.tried)
<1> DEFINE fault == IF type = "THAW" THEN "execThaw" ELSE "execFail"
           u == undone \cup o.tried
<1>1. layout \in Layouts /\ HasList(layout) /\ currentScript \in -1 .. MaxScripts
      /\ freezeDone \subseteq Slots /\ undone \subseteq Slots
  BY DEF ScriptsTypeOK, ScriptInv, ListInv
<1>2. r \in BOOLEAN BY DEF Legacy
<1>3. \A i : IsFile(layout, r, i) = IsFile(layout, TRUE, i) BY Zenon, RenamedFiles
<1>4. IsFile(layout, r, 0) BY Zenon, <1>1, <1>3 DEF UndoableScripts
<1>5. o \in RunBackward(layout, r, p, currentScript, fault) BY DEF RunNextScript
<1>6. WalkedDown(layout, r, p, currentScript, fault, o)
  BY ZenonT(60), <1>1, <1>2, <1>4, <1>5, BackwardShape
<1>7. type = "FREEZE_FAIL" => fault \notin Faults BY DEF UndoableScripts
<1>8. \A j \in o.tried : j \in Slots /\ j < currentScript /\ IsFile(layout, TRUE, j)
  BY Zenon, <1>3, <1>6 DEF WalkedDown
<1>9. \A i \in u : i \in freezeDone \/ (i = 0 /\ Legacy(layout))
  <2>1. ASSUME NEW i \in o.tried, ~(i = 0 /\ Legacy(layout)) PROVE i \in freezeDone
    <3>1. i \in Slots /\ i < currentScript BY Zenon, <1>8
    <3>2. IsFile(layout, FALSE, i) BY ZenonT(60), <1>8, <2>1, RenamedFiles
    <3> QED BY Zenon, <3>1, <3>2 DEF ScriptInv, ListInv
  <2> QED BY Zenon, <2>1 DEF ScriptInv, ListInv
<1>10. ASSUME NEW j \in freezeDone, IsFile(layout, TRUE, j), NEW i \in o.tried, j > i
       PROVE  j \in u
  <2>1. CASE j >= currentScript BY ZenonT(60), <1>10, <2>1 DEF UndoneFrom
  <2>2. CASE ~(j >= currentScript)
    <3>1. j \in Slots /\ j < currentScript BY <1>1, <2>2 DEF Slots
    <3>2. IsFile(layout, r, j) BY ZenonT(60), <1>3, <1>10
    <3>3. o.ret = 1 => o.cur <= j
      <4>1. o.ret = 1 => o.cur \in Slots /\ i \in Slots /\ o.cur <= i BY <1>6, <1>8 DEF WalkedDown
      <4> QED BY <1>10, <3>1, <4>1 DEF Slots
    <3> QED BY <1>6, <3>1, <3>2, <3>3 DEF WalkedDown
  <2> QED BY <2>1, <2>2
<1>11. UndoneInOrder(u)
  <2>1. ASSUME NEW i \in u, NEW j \in freezeDone, j > i, IsFile(layout, TRUE, j) PROVE j \in u
    <3>1. CASE i \in undone BY Zenon, <2>1, <3>1 DEF ScriptInv, ListInv
    <3>2. CASE i \in o.tried BY Zenon, <1>10, <2>1, <3>2
    <3> QED BY ZenonT(60), <3>1, <3>2
  <2> QED BY Zenon, <1>9, <2>1 DEF UndoneInOrder
<1>12. CASE o.ret = 1
  <2>1. /\ o.cur \in Slots /\ o.cur < currentScript /\ o.proc[o.cur] = "running"
        /\ \A i \in Slots : i # o.cur => o.proc[i] = "none"
        /\ type = "FREEZE_FAIL" => o.failed = FALSE
    BY <1>6, <1>7, <1>12 DEF WalkedDown
  <2>2. UndoneFrom(o.cur, u)
    <3> SUFFICES ASSUME NEW j \in freezeDone, j >= o.cur, IsFile(layout, TRUE, j) PROVE j \in u
      BY Zenon DEF UndoneFrom
    <3>1. CASE j >= currentScript BY Zenon, <3>1 DEF UndoneFrom
    <3>2. CASE ~(j >= currentScript)
      <4>1. j \in Slots /\ o.cur <= j /\ j < currentScript BY <1>1, <2>1, <3>2 DEF Slots
      <4>2. IsFile(layout, r, j) BY Zenon, <1>3
      <4> QED BY <1>6, <1>12, <4>1, <4>2 DEF WalkedDown
    <3> QED BY ZenonT(60), <3>1, <3>2
  <2> QED BY Zenon, <1>11, <1>12, <2>1, <2>2 DEF WalkUndid
<1>13. CASE o.ret = 0
  <2>1. /\ currentScript <= 0 /\ o.cur = -1 /\ o.failed = FALSE /\ o.proc = p
    BY <1>6, <1>13 DEF WalkedDown
  <2>2. UndoneFrom(-1, u)
    <3> SUFFICES ASSUME NEW j \in freezeDone, IsFile(layout, TRUE, j) PROVE j \in u
      BY Zenon DEF UndoneFrom
    <3>1. j >= currentScript BY <1>1, <2>1 DEF Slots
    <3> QED BY Zenon, <3>1 DEF UndoneFrom
  <2> QED BY Zenon, <1>11, <1>13, <2>1, <2>2 DEF WalkUndid
<1>14. CASE o.ret = -1
  <2>1. o.failed = TRUE /\ type = "THAW" BY <1>6, <1>7, <1>14 DEF WalkedDown
  <2>2. UndoneFrom(-1, u)
    <3> SUFFICES ASSUME NEW j \in freezeDone, IsFile(layout, TRUE, j) PROVE j \in u
      BY Zenon DEF UndoneFrom
    <3>1. CASE j >= currentScript BY Zenon, <3>1 DEF UndoneFrom
    <3>2. CASE ~(j >= currentScript)
      <4>1. j \in Slots /\ j < currentScript BY <1>1, <3>2 DEF Slots
      <4>2. IsFile(layout, r, j) BY Zenon, <1>3
      <4> QED BY <1>6, <1>14, <4>1, <4>2 DEF WalkedDown
    <3> QED BY <3>1, <3>2
  <2> QED BY Zenon, <1>11, <1>14, <2>1, <2>2 DEF WalkUndid
<1> QED BY ZenonT(60), <1>6, <1>12, <1>13, <1>14 DEF WalkedDown

LEMMA NewUndoInv ==
    ASSUME ScriptsTypeOK, UndoableScripts, ScriptInv, NEW type \in {"THAW", "FREEZE_FAIL"},
           NEW ok \in BOOLEAN, NewUndoOp(type, ok),
           scripts => /\ opType = "FREEZE" /\ proc[currentScript] = "none"
                      /\ type = "THAW" => currentScript > 0
    PROVE  /\ ScriptInv' /\ opType' = type
           /\ scripts' <=> scripts /\ ok
           /\ scripts /\ ~ok => AllUndone'
           /\ ~scripts => UNCHANGED <<layout, freezeDone, undone>>
           /\ type = "FREEZE_FAIL" => ok
<1> USE DEF ScriptInv
<1>1. opType' = type /\ UNCHANGED <<layout, freezeDone>> BY ZenonT(60) DEF NewUndoOp
<1>2. FreezingInv' BY <1>1 DEF FreezingInv
<1>3. CASE ~scripts
  <2>1. ok = TRUE /\ thawFailed' = FALSE /\ UNCHANGED <<renamed, undone, scripts, currentScript, proc>>
    BY <1>3 DEF NewUndoOp
  <2>2. ListInv' BY Zenon, <1>1, <2>1 DEF ListInv
  <2>3. UndoingInv' BY ZenonT(60), <1>3, <2>1 DEF UndoingInv
  <2> QED BY ZenonT(60), <1>1, <1>2, <1>3, <2>1, <2>2, <2>3
<1>4. CASE scripts
  <2>1. /\ renamed' = Legacy(layout)
        /\ \E o \in RunNextScript(type, layout, renamed', proc, currentScript) :
              /\ ok = (o.ret # -1) /\ thawFailed' = o.failed /\ undone' = undone \cup o.tried
              /\ IF ok THEN scripts' = TRUE /\ currentScript' = o.cur /\ proc' = o.proc
                       ELSE FreeScripts
    BY <1>4 DEF NewUndoOp
  <2>2. PICK o \in RunNextScript(type, layout, renamed', proc, currentScript) :
              /\ ok = (o.ret # -1) /\ thawFailed' = o.failed /\ undone' = undone \cup o.tried
              /\ IF ok THEN scripts' = TRUE /\ currentScript' = o.cur /\ proc' = o.proc
                       ELSE FreeScripts
    BY ZenonT(60), <2>1
  <2>3. \A i \in Slots : proc[i] = "none" BY <1>4 DEF ListInv
  <2>4. UndoneFrom(currentScript, undone)
    <3>1. \A i \in freezeDone : i <= currentScript /\ i # currentScript
      BY Zenon, <1>4 DEF FreezingInv
    <3>2. \A i \in freezeDone : i \in Int /\ currentScript \in Int BY SMTT(60), Bounds
                                                                      DEF ScriptsTypeOK, Slots
    <3>3. \A i \in freezeDone : ~(i >= currentScript) BY <3>1, <3>2
    <3> QED BY <3>3 DEF UndoneFrom
  <2>5. WalkUndid(type, o, undone')
    <3>1. proc \in [Slots -> ProcStates] BY Zenon DEF ScriptsTypeOK
    <3> QED BY ZenonT(60), <1>4, <2>1, <2>2, <2>3, <2>4, <3>1, UndoWalk
  <2>6. UndoneInOrder(undone') BY ZenonT(60), <2>5 DEF WalkUndid
  <2>7. CASE o.ret = -1
    <3>1. ok = FALSE /\ FreeScripts /\ type = "THAW" /\ UndoneFrom(-1, undone')
      <4>1. ok = FALSE BY Zenon, <2>2, <2>7
      <4>2. FreeScripts BY ZenonT(60), <2>2, <4>1
      <4>3. -1 # 1 /\ -1 # 0 OBVIOUS
      <4> QED BY Zenon, <2>5, <2>7, <4>1, <4>2, <4>3 DEF WalkUndid
    <3>2. scripts' = FALSE BY <3>1 DEF FreeScripts
    <3>3. ListInv' BY Zenon, <1>1, <2>6, <3>1 DEF ListInv, UndoneInOrder, FreeScripts, NoProcs
    <3>4. UndoingInv' BY Zenon, <1>1, <3>1, <3>2 DEF UndoingInv
    <3>5. AllUndone'
      <4>1. \A i \in freezeDone : i >= -1 BY DEF ScriptsTypeOK, Slots
      <4> QED BY ZenonT(60), <1>1, <3>1, <4>1 DEF UndoneFrom, AllUndone
    <3> QED BY ZenonT(60), <1>1, <1>2, <1>4, <3>1, <3>2, <3>3, <3>4, <3>5
  <2>8. CASE o.ret # -1
    <3>1. ok = TRUE /\ scripts' = TRUE /\ currentScript' = o.cur /\ proc' = o.proc
      BY ZenonT(60), <2>2, <2>8
    <3>2. o.cur < currentScript /\ o.cur \in -1 .. MaxScripts /\ UndoneFrom(o.cur, undone')
      <4>1. currentScript >= 0 BY Zenon, <1>4 DEF FreezingInv
      <4>2. o.cur = -1 \/ o.cur \in Slots BY <2>5, <2>8 DEF WalkUndid
      <4>3. o.cur \in -1 .. MaxScripts BY SMTT(60), <4>2, Bounds DEF Slots
      <4>4. o.cur < currentScript BY <2>5, <2>8, <4>1 DEF WalkUndid, ScriptsTypeOK
      <4>5. UndoneFrom(o.cur, undone') BY ZenonT(60), <2>5, <2>8 DEF WalkUndid
      <4> QED BY Zenon, <4>3, <4>4, <4>5
    <3>3. /\ \A i \in Slots : i # o.cur => o.proc[i] = "none"
          /\ o.cur # -1 => o.proc[o.cur] # "none"
      BY SMTT(30), <2>5, <2>8 DEF WalkUndid
    <3>4. type = "THAW" => o.cur # -1
      BY <1>4, <2>5, <2>8 DEF WalkUndid, Slots, ScriptsTypeOK
    <3>5. ListInv'
      <4>1. \A i \in Slots : i < o.cur => i < currentScript
        BY SMTT(60), <3>2 DEF Slots, ScriptsTypeOK
      <4>2. HasList(layout) BY <1>4 DEF ListInv
      <4>3. \A i \in Slots : i < o.cur /\ IsFile(layout, FALSE, i) => i \in freezeDone
        BY Zenon, <1>4, <4>1 DEF ListInv
      <4> QED BY ZenonT(60), <1>1, <2>6, <3>1, <3>3, <4>2, <4>3 DEF ListInv, UndoneInOrder
    <3>6. UndoingInv'
      <4>1. type = "FREEZE_FAIL" => thawFailed' = FALSE BY ZenonT(60), <2>2, <2>5 DEF WalkUndid
      <4> QED BY ZenonT(60), <1>1, <2>1, <3>1, <3>2, <3>3, <3>4, <4>1 DEF UndoingInv, UndoneFrom
    <3> QED BY <1>1, <1>2, <1>4, <3>1, <3>5, <3>6
  <2> QED BY Zenon, <2>7, <2>8
<1> QED BY <1>3, <1>4

LEMMA CancelInv ==
    ASSUME ScriptsTypeOK, ScriptInv, opType = "THAW"
    PROVE  /\ ~CancelCrashes
           /\ ScriptOpCancelRelease => ScriptInv' /\ scripts' = FALSE
<1>1. ~CancelCrashes
  <2>1. currentScript # -1 => currentScript \in Slots BY Bounds DEF ScriptsTypeOK, Slots
  <2>2. scripts => currentScript # -1 /\ proc[currentScript] # "none" BY DEF ScriptInv, UndoingInv
  <2> QED BY Zenon, <2>1, <2>2 DEF CancelCrashes, CurrentProc
<1>2. ASSUME ScriptOpCancelRelease PROVE ScriptInv' /\ scripts' = FALSE
  <2>1. FreeScripts /\ UNCHANGED <<layout, renamed, opType, thawFailed, freezeDone, undone>>
    BY <1>2 DEF ScriptOpCancelRelease
  <2>2. scripts' = FALSE BY SMTT(60), <2>1 DEF FreeScripts
  <2> QED BY <2>1, <2>2, FreeScriptsInv
<1> QED BY Zenon, <1>1, <1>2

(***************************************************************************)
(* VmBackupScriptOpQuery: a freeze operation that is over leaves the list   *)
(* for the undo, and an undo operation is over when everything is undone.   *)
(***************************************************************************)
FreezeOver(status) ==
    /\ scripts' <=> scripts
    /\ scripts /\ status # "PENDING" => proc'[currentScript'] = "none"
    /\ scripts /\ status = "FINISHED" => currentScript' = NumPaths(layout')
    /\ scripts /\ status = "PENDING" => proc'[currentScript'] # "none"
    /\ ~scripts => UNCHANGED <<layout, freezeDone, undone>>

UndoOver(status) ==
    /\ scripts /\ status = "PENDING" => scripts'
    /\ scripts /\ status # "PENDING" => ~scripts' /\ AllUndone'
    /\ ~scripts => ~scripts' /\ status = "FINISHED" /\ UNCHANGED <<layout, freezeDone, undone>>
    /\ status = "ERROR" => opType = "THAW" /\ thawFailed' = TRUE

LEMMA QueryInv ==
    ASSUME ScriptsTypeOK, UndoableScripts, ScriptInv, NEW status, ScriptOpQuery(status),
           opType = "FREEZE" /\ CurrentProc = "none" /\ scripts => currentScript = NumPaths(layout)
    PROVE  /\ ScriptInv'
           /\ UNCHANGED opType
           /\ IF opType = "FREEZE" THEN FreezeOver(status) ELSE UndoOver(status)
<1> USE DEF ScriptInv
<1>1. UNCHANGED <<layout, renamed, opType, freezeDone>> BY DEF ScriptOpQuery
<1>2. scripts => (currentScript \in Slots \/ currentScript = -1)
  BY SMTT(60), Bounds DEF ScriptsTypeOK, Slots
<1>3. CASE CurrentProc = "none"
  <2>1. status = "FINISHED" /\ ScriptOpRelease(opType) /\ UNCHANGED <<thawFailed, undone>>
    BY <1>3 DEF ScriptOpQuery
  <2>2. CASE opType = "FREEZE"
    <3>1. UNCHANGED <<scripts, currentScript, proc>> BY <2>1, <2>2 DEF ScriptOpRelease
    <3>2. ListInv' BY Zenon, <1>1, <2>1, <3>1 DEF ListInv
    <3>3. FreezingInv' BY Zenon, <1>1, <2>1, <3>1 DEF FreezingInv
    <3>4. UndoingInv' BY ZenonT(60), <1>1, <2>1, <3>1 DEF UndoingInv
    <3>5. scripts => proc[currentScript] = "none"
      <4>1. scripts => currentScript # -1 BY <2>2 DEF FreezingInv
      <4> QED BY Zenon, <1>2, <1>3, <4>1 DEF CurrentProc
    <3>6. FreezeOver(status)
      <4>1. "FINISHED" # "PENDING" OBVIOUS
      <4> QED BY <1>1, <1>3, <2>1, <2>2, <3>1, <3>5, <4>1 DEF FreezeOver
    <3> QED BY <1>1, <2>2, <3>2, <3>3, <3>4, <3>6
  <2>3. CASE opType # "FREEZE"
    <3>1. FreeScripts BY <2>1, <2>3 DEF ScriptOpRelease
    <3>2. scripts' = FALSE BY <3>1 DEF FreeScripts
    <3>3. ScriptInv' BY Zenon, <1>1, <2>1, <2>3, <3>1, FreeScriptsInv
    <3>4. ASSUME scripts PROVE AllUndone'
      <4>1. currentScript = -1 BY Zenon, <1>2, <1>3, <2>3, <3>4 DEF CurrentProc, UndoingInv
      <4>2. \A i \in freezeDone : i >= -1 BY DEF ScriptsTypeOK, Slots
      <4> QED BY ZenonT(60), <1>1, <2>1, <2>3, <3>4, <4>1, <4>2 DEF UndoingInv, AllUndone
    <3>5. UndoOver(status)
      <4>1. status # "PENDING" /\ status # "ERROR" BY <2>1
      <4> QED BY <1>1, <2>1, <3>2, <3>4, <4>1 DEF UndoOver
    <3> QED BY ZenonT(60), <1>1, <2>3, <3>3, <3>5
  <2> QED BY <2>2, <2>3
<1>4. CASE CurrentProc = "running"
  <2>1. status = "PENDING" /\ UNCHANGED <<scripts, currentScript, proc, thawFailed, undone>>
    BY SMTT(60), <1>4 DEF ScriptOpQuery
  <2>2. scripts /\ proc[currentScript] # "none" BY <1>4 DEF CurrentProc
  <2>3. ListInv' BY Zenon, <1>1, <2>1 DEF ListInv
  <2>4. FreezingInv' BY Zenon, <1>1, <2>1 DEF FreezingInv
  <2>5. UndoingInv' BY ZenonT(60), <1>1, <2>1 DEF UndoingInv
  <2>6. status # "FINISHED" /\ status # "ERROR" BY <2>1
  <2>7. FreezeOver(status) /\ UndoOver(status)
    BY <1>1, <2>1, <2>2, <2>6 DEF FreezeOver, UndoOver
  <2> QED BY Zenon, <1>1, <2>3, <2>4, <2>5, <2>7
<1>5. CASE CurrentProc \notin {"none", "running"}
  <2> DEFINE reaped == [proc EXCEPT ![currentScript] = "none"]
             failed == CurrentProc = "failed"
  <2>1. scripts /\ currentScript \in Slots /\ CurrentProc = proc[currentScript]
    BY Zenon, <1>5 DEF CurrentProc
  <2>2. reaped \in [Slots -> ProcStates] /\ \A i \in Slots : reaped[i] = "none"
    BY <2>1 DEF ScriptsTypeOK, ProcStates, ListInv
  <2>3. CASE opType = "FREEZE" /\ failed
    <3>1. /\ status = "ERROR" /\ proc' = reaped
          /\ UNCHANGED <<scripts, currentScript, thawFailed, undone>>
      BY <1>5, <2>3 DEF ScriptOpQuery
    <3>2. proc[currentScript] # "ok" BY <2>1, <2>3
    <3>3. ListInv' BY Zenon, <1>1, <2>1, <2>2, <3>1 DEF ListInv
    <3>4. FreezingInv'
      <4>1. reaped[currentScript] = "none" BY <2>1, <2>2
      <4>2. currentScript \notin freezeDone BY Zenon, <2>1, <2>3, <3>2 DEF FreezingInv
      <4>3. "none" # "ok" OBVIOUS
      <4> QED BY ZenonT(60), <1>1, <2>1, <2>3, <3>1, <4>1, <4>2, <4>3 DEF FreezingInv
    <3>5. UndoingInv' BY Zenon, <1>1, <2>3 DEF UndoingInv
    <3>6. FreezeOver(status)
      <4>1. status # "FINISHED" /\ status # "PENDING" BY <3>1
      <4> QED BY <2>1, <2>2, <3>1, <4>1 DEF FreezeOver
    <3> QED BY ZenonT(60), <1>1, <2>3, <3>3, <3>4, <3>5, <3>6
  <2>4. ASSUME ~(failed /\ opType = "FREEZE")
        PROVE  \E o \in RunNextScript(opType, layout, renamed, reaped, currentScript) :
                 /\ thawFailed' = (thawFailed \/ o.failed \/ (failed /\ opType = "THAW"))
                 /\ undone' = IF opType = "FREEZE" THEN undone ELSE undone \cup o.tried
                 /\ status = CASE o.ret = 1  -> "PENDING"
                               [] o.ret = 0  -> IF thawFailed' THEN "ERROR" ELSE "FINISHED"
                               [] o.ret = -1 -> "ERROR"
                 /\ IF status = "PENDING" \/ opType = "FREEZE"
                    THEN scripts' = TRUE /\ currentScript' = o.cur /\ proc' = o.proc
                    ELSE FreeScripts
    BY Zenon, <1>5, <2>4 DEF ScriptOpQuery
  <2> HIDE DEF reaped
  <2>5. CASE opType = "FREEZE" /\ ~failed
    <3>1. PICK o \in RunForward(layout, FALSE, reaped, currentScript) :
             /\ thawFailed' = (thawFailed \/ o.failed \/ (failed /\ opType = "THAW"))
             /\ undone' = undone
             /\ status = CASE o.ret = 1  -> "PENDING"
                           [] o.ret = 0  -> IF thawFailed' THEN "ERROR" ELSE "FINISHED"
                           [] o.ret = -1 -> "ERROR"
             /\ scripts' = TRUE /\ currentScript' = o.cur /\ proc' = o.proc
      <4>1. renamed = FALSE BY Zenon, <2>1, <2>5 DEF FreezingInv
      <4> QED BY ZenonT(60), <2>4, <2>5, <4>1 DEF RunNextScript
    <3>2. proc[currentScript] = "ok" /\ currentScript \in freezeDone
      <4>1. proc[currentScript] \in ProcStates BY Zenon, <2>1 DEF ScriptsTypeOK
      <4>2. proc[currentScript] = "ok" BY Zenon, <1>5, <2>1, <2>5, <4>1 DEF ProcStates
      <4> QED BY Zenon, <2>1, <2>5, <4>2 DEF FreezingInv
    <3>3. layout \in Layouts /\ FALSE \in BOOLEAN /\ currentScript \in -1 .. MaxScripts
      BY DEF ScriptsTypeOK
    <3>4. WalkedUp(layout, FALSE, reaped, currentScript, o) /\ Outcome(o)
      BY Zenon, <2>2, <3>3, ForwardShape, ForwardOutcome
    <3>5. NumPaths(layout) \in Slots /\ currentScript < NumPaths(layout)
      <4>1. NumPaths(layout) \in Slots BY ListFits, Bounds, <3>3 DEF Slots
      <4>2. IsFile(layout, FALSE, currentScript) BY Zenon, <2>1, <2>5, <3>2 DEF FreezingInv
      <4> QED BY ZenonT(60), <2>1, <3>3, <4>1, <4>2, FilesFit
    <3>6. o.cur \in Slots /\ currentScript < o.cur BY Zenon, <3>4, <3>5 DEF WalkedUp
    <3>7. \A i \in Slots : currentScript < i /\ i < o.cur => ~IsFile(layout, FALSE, i)
      BY Zenon, <3>4 DEF WalkedUp
    <3>8. /\ \A i \in Slots : i # o.cur => o.proc[i] = "none"
          /\ o.proc[o.cur] = IF o.ret = 1 THEN "running" ELSE "none"
          /\ o.ret = 1 => IsFile(layout, FALSE, o.cur)
      <4>1. CASE o.ret = 0 BY <2>2, <3>4, <3>5, <4>1 DEF WalkedUp
      <4>2. CASE o.ret # 0
        <5>1. o.proc = [reaped EXCEPT ![o.cur] = IF o.ret = 1 THEN "running" ELSE "none"]
              /\ IsFile(layout, FALSE, o.cur)
          BY Zenon, <3>4, <4>2 DEF WalkedUp
        <5> QED BY Zenon, <2>2, <3>6, <5>1
      <4> QED BY ZenonT(60), <4>1, <4>2
    <3>9. ListInv'
      <4>1. ASSUME NEW i \in Slots, i < o.cur, IsFile(layout, FALSE, i) PROVE i \in freezeDone
        <5>1. i < currentScript \/ i = currentScript \/ currentScript < i
          BY SMTT(60), <2>1 DEF Slots
        <5> QED BY ZenonT(60), <2>1, <3>2, <3>7, <4>1, <5>1 DEF ListInv
      <4>2. HasList(layout) BY <2>1 DEF ListInv
      <4> QED BY ZenonT(60), <1>1, <3>1, <3>8, <4>1, <4>2 DEF ListInv
    <3>10. FreezingInv'
      <4>1. \A i \in freezeDone : i <= o.cur /\ i # o.cur
        <5>1. \A i \in freezeDone : i \in Slots /\ i <= currentScript
          BY Zenon, <2>1, <2>5 DEF FreezingInv, ScriptsTypeOK
        <5> QED BY SMTT(60), <2>1, <3>6, <5>1 DEF Slots
      <4>2. o.cur >= 0 BY SMTT(30), <3>6 DEF Slots
      <4>3. o.proc[o.cur] # "ok" /\ (o.proc[o.cur] # "none" => IsFile(layout, FALSE, o.cur))
        BY ZenonT(60), <3>8
      <4>4. undone = {} /\ renamed = FALSE BY <2>1, <2>5 DEF FreezingInv
      <4> QED BY ZenonT(60), <1>1, <3>1, <4>1, <4>2, <4>3, <4>4 DEF FreezingInv
    <3>11. UndoingInv' BY <1>1, <2>5 DEF UndoingInv
    <3>12. o.ret \in {-1, 0, 1} BY <3>4 DEF Outcome
    <3>13. /\ status = "PENDING" => o.ret = 1
           /\ o.ret = 1 => status = "PENDING"
           /\ status = "FINISHED" => o.ret = 0
      BY SMTT(60), <3>1, <3>12
    <3>14. o.ret = 0 => o.cur = NumPaths(layout) BY <3>4 DEF WalkedUp
    <3>15. FreezeOver(status)
      <4>1. status = "PENDING" => o.proc[o.cur] # "none" BY <3>8, <3>13
      <4>2. status # "PENDING" => o.proc[o.cur] = "none" BY <3>8, <3>13
      <4> QED BY ZenonT(60), <1>1, <2>1, <3>1, <3>13, <3>14, <4>1, <4>2 DEF FreezeOver
    <3> QED BY ZenonT(60), <1>1, <2>5, <3>9, <3>10, <3>11, <3>15
  <2>6. CASE opType # "FREEZE"
    <3>1. PICK o \in RunNextScript(opType, layout, renamed, reaped, currentScript) :
             /\ thawFailed' = (thawFailed \/ o.failed \/ (failed /\ opType = "THAW"))
             /\ undone' = undone \cup o.tried
             /\ status = CASE o.ret = 1  -> "PENDING"
                           [] o.ret = 0  -> IF thawFailed' THEN "ERROR" ELSE "FINISHED"
                           [] o.ret = -1 -> "ERROR"
             /\ IF status = "PENDING"
                THEN scripts' = TRUE /\ currentScript' = o.cur /\ proc' = o.proc
                ELSE FreeScripts
      BY Zenon, <2>4, <2>6
    <3>2. renamed = Legacy(layout) /\ UndoneFrom(currentScript, undone)
          /\ opType \in {"THAW", "FREEZE_FAIL"}
      BY Zenon, <2>1, <2>6 DEF UndoingInv, UndoneFrom, ScriptsTypeOK, ScriptTypes
    <3>3. WalkUndid(opType, o, undone') BY ZenonT(60), <2>1, <2>2, <3>1, <3>2, UndoWalk
    <3>4. UndoneInOrder(undone') BY SMTT(60), <3>3 DEF WalkUndid
    <3>5. FreezingInv' BY <1>1, <2>6 DEF FreezingInv
    <3>6. opType = "FREEZE_FAIL" => thawFailed' = FALSE
      <4>1. opType = "FREEZE_FAIL" => thawFailed = FALSE /\ o.failed = FALSE
        BY ZenonT(60), <3>3 DEF UndoingInv, WalkUndid, ScriptsTypeOK
      <4> QED BY ZenonT(60), <3>1, <4>1
    <3>7. CASE o.ret = 1
      <4>1. status = "PENDING" BY <3>1, <3>7
      <4>2. scripts' = TRUE /\ currentScript' = o.cur /\ proc' = o.proc BY ZenonT(60), <3>1, <4>1
      <4>3. /\ UndoneFrom(o.cur, undone') /\ o.cur \in Slots /\ o.cur < currentScript
            /\ o.proc[o.cur] = "running" /\ \A i \in Slots : i # o.cur => o.proc[i] = "none"
        BY <3>3, <3>7 DEF WalkUndid
      <4>4. ListInv'
        <5>1. \A i \in Slots : i < o.cur => i < currentScript BY SMTT(60), <2>1, <4>3 DEF Slots
        <5>2. HasList(layout) BY <2>1 DEF ListInv
        <5>3. \A i \in Slots : i < o.cur /\ IsFile(layout, FALSE, i) => i \in freezeDone
          BY Zenon, <2>1, <5>1 DEF ListInv
        <5> QED BY ZenonT(60), <1>1, <3>4, <4>2, <4>3, <5>2, <5>3 DEF ListInv, UndoneInOrder
      <4>5. UndoingInv'
        <5>1. o.cur # -1 /\ "running" # "none" BY <4>3 DEF Slots
        <5> QED BY ZenonT(60), <1>1, <3>2, <3>6, <4>2, <4>3, <5>1 DEF UndoingInv, UndoneFrom
      <4>6. status # "ERROR" BY <4>1
      <4>7. UndoOver(status) BY Zenon, <2>1, <4>1, <4>2, <4>6 DEF UndoOver
      <4> QED BY <1>1, <2>6, <3>5, <4>4, <4>5, <4>7
    <3>8. CASE o.ret # 1
      <4>1. UndoneFrom(-1, undone') /\ (o.ret = -1 => o.failed = TRUE /\ opType = "THAW")
            /\ o.ret \in {-1, 0}
        BY <3>3, <3>8 DEF WalkUndid
      <4>2. status \in {"ERROR", "FINISHED"} /\ (status = "ERROR" => thawFailed' = TRUE)
        BY Zenon, <3>1, <3>8, <4>1
      <4>3. FreeScripts /\ status # "PENDING" BY ZenonT(60), <3>1, <4>2
      <4>4. scripts' = FALSE BY <4>3 DEF FreeScripts
      <4>5. ListInv' BY Zenon, <1>1, <3>4, <4>3 DEF ListInv, UndoneInOrder, FreeScripts, NoProcs
      <4>6. UndoingInv' BY Zenon, <1>1, <3>6, <4>4 DEF UndoingInv
      <4>7. AllUndone'
        <5>1. \A i \in freezeDone : i >= -1 BY SMTT(60) DEF ScriptsTypeOK, Slots
        <5> QED BY ZenonT(60), <1>1, <4>1, <5>1 DEF UndoneFrom, AllUndone
      <4>8. status = "ERROR" => opType = "THAW" BY <3>2, <3>6, <4>2
      <4>9. UndoOver(status) BY Zenon, <2>1, <4>2, <4>3, <4>4, <4>7, <4>8 DEF UndoOver
      <4> QED BY Zenon, <1>1, <2>6, <3>5, <4>5, <4>6, <4>9
    <3> QED BY <3>7, <3>8
  <2> QED BY Zenon, <2>3, <2>5, <2>6
<1> QED BY <1>3, <1>4, <1>5
=============================================================================
