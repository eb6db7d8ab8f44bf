---------------------------- MODULE VmSyncProofs ----------------------------
(***************************************************************************)
(* What the vmsync driver (modules/linux/vmsync/sync.c) guarantees for any *)
(* number of callers, files, devices and calls: no two files freeze one    *)
(* device, the count that SYNC_IOC_QUERY returns is right as long as       *)
(* nobody else thaws what the driver froze, and a state is clean when it   *)
(* is freed, if its file was used for one freeze.                          *)
(***************************************************************************)
EXTENDS VmSyncLists

-----------------------------------------------------------------------------
(* Who uses a file, and its work item.                                      *)

LEMMA ClosedStep ==
    ASSUME TypeOK, UseInv, Next
    PROVE  \A f \in Files : open'[f] = "closed" => devices'[f] = <<>>
<1> DEFINE Empty == \A f \in Files : open[f] = "closed" => devices[f] = <<>>
<1>1. Empty
  BY DEF UseInv
<1>2. ASSUME NEW c \in Callers, FreezeDevice(c) PROVE Empty'
  <2>1. pc[c] = "freeze" /\ open' = open /\ fd[c] \in Files /\ \A f \in Files \ {fd[c]} : devices'[f] = devices[f]
    BY <1>2 DEF FreezeDevice, TypeOK, TypeCall, TypeList
  <2>2. open[fd[c]] = "open"
    BY <2>1 DEF UseInv, Releasing
  <2> QED BY <1>1, <2>1, <2>2
<1>3. ASSUME NEW a \in Actors, ThawDevice(a) PROVE Empty'
  <2>1. open' = open /\ devices[FileOf(a)] # <<>> /\ FileOf(a) \in Files
        /\ \A f \in Files \ {FileOf(a)} : devices'[f] = devices[f]
    BY <1>3 DEF ThawDevice, FileOf, Actors, TypeOK, TypeCall, TypeList
  <2> QED BY <1>1, <2>1
<1>4. ASSUME devices' = devices PROVE Empty'
  <2>1. ASSUME NEW f \in Files, open'[f] = "closed" PROVE open[f] = "closed" \/ devices[f] = <<>>
    <3>1. ASSUME NEW c \in Callers, NEW g \in Files, Open(c, g) \/ Release(c, g)
          PROVE  open[f] = "closed"
      BY <2>1, <3>1 DEF Open, Release, TypeOK, TypeFile
    <3>2. ASSUME NEW a \in Actors, ThawEnds(a) PROVE open[f] = "closed" \/ devices[f] = <<>>
      BY <2>1, <3>2, Zenon DEF ThawEnds, TypeOK, TypeFile
    <3>3. ASSUME open' = open PROVE open[f] = "closed"
      BY <2>1, <3>3
    <3> QED BY <3>1, <3>2, <3>3, OpenKept, Zenon
  <2> QED BY <1>1, <1>4, <2>1
<1> HIDE DEF Empty
<1>5. Empty'
  BY <1>2, <1>3, <1>4, DevicesKept, Zenon
<1> QED BY <1>5 DEF Empty

\* What a step does to the files and the calls.
Begins(c, f, l) ==
    /\ pc[c] = "idle" /\ open[f] = "open" /\ fd' = [fd EXCEPT ![c] = f] /\ Goto(c, l) /\ open' = open
Closes(c, f, l) ==
    /\ pc[c] = "idle" /\ open[f] = "open" /\ \A b \in Callers : fd[b] = f => pc[b] = "idle"
    /\ fd' = [fd EXCEPT ![c] = f] /\ Goto(c, l) /\ open' = [open EXCEPT ![f] = "closing"]
GoesOn(c, l) ==
    /\ pc[c] # "idle" /\ l \in Pcs /\ (pc[c] \in Releasing <=> l \in Releasing)
    /\ Goto(c, l) /\ fd' = fd /\ open' = open
Ends(c) ==
    /\ pc[c] # "idle" /\ Goto(c, "idle") /\ fd' = fd
    /\ open' = IF pc[c] = "release" THEN [open EXCEPT ![fd[c]] = "closed"] ELSE open
Rests ==
    /\ \A c \in Callers : pc'[c] = pc[c]
    /\ fd' = fd /\ \A f \in Files : open'[f] = open[f] \/ open[f] = "closed"

LEMMA UseEffect ==
    ASSUME TypeOK, Next
    PROVE  \/ \E c \in Callers, f \in Files : \E l \in {"freezeLock", "thawLock"} : Begins(c, f, l)
           \/ \E c \in Callers, f \in Files : \E l \in {"flush", "releaseLock"} : Closes(c, f, l)
           \/ \E c \in Callers : Ends(c) \/ \E l \in Pcs : GoesOn(c, l)
           \/ Rests
<1>1. ASSUME NEW c \in Callers, NEW f \in Files,
             Thaw(c, f) \/ \E ps \in PathLists : Freeze(c, f, ps)
      PROVE  \E l \in {"freezeLock", "thawLock"} : Begins(c, f, l)
  BY <1>1, Zenon DEF Thaw, Freeze, Begins
<1>2. ASSUME NEW c \in Callers, NEW f \in Files, Release(c, f)
      PROVE  \E l \in {"flush", "releaseLock"} : Closes(c, f, l)
  BY <1>2, Zenon DEF Release, Closes
<1>3. ASSUME NEW c \in Callers, LockFreeze(c) \/ LockState(c) \/ UnlockFrozen(c) \/ Flushed(c)
      PROVE  \E l \in Pcs : GoesOn(c, l)
  BY <1>3 DEF LockFreeze, LockState, TakeLock, UnlockFrozen, AfterFreeze, Flushed, GoesOn, Pcs,
              Releasing
<1>4. ASSUME NEW c \in Callers, NEW oom \in BOOLEAN, AddPath(c, oom)
      PROVE  (\E l \in Pcs : GoesOn(c, l)) \/ Rests
  <2>1. pc[c] = "add" /\ UNCHANGED <<fd, open>>
        /\ (UNCHANGED pc \/ Goto(c, "clean") \/ Goto(c, "freeze"))
    BY <1>4, Zenon DEF AddPath
  <2> QED BY <2>1 DEF GoesOn, Rests, Pcs, Releasing
<1>5. ASSUME NEW c \in Callers, CleanList(c) \/ Schedule(c) PROVE Ends(c)
  BY <1>5 DEF CleanList, Schedule, Ends
<1>6. ASSUME NEW c \in Callers, ThawBegins(c) PROVE \E l \in Pcs : GoesOn(c, l)
  BY <1>6 DEF ThawBegins, TakeLock, GoesOn, Pcs, Releasing
<1>7. ASSUME NEW c \in Callers, ThawEnds(c) PROVE Ends(c)
  <2>1. FileOf(c) = fd[c]
    BY VmSyncAssumption DEF FileOf
  <2> QED BY <1>7, <2>1 DEF ThawEnds, Ends
<1>8. ASSUME NEW f \in Files, ThawBegins(f) \/ ThawEnds(f) \/ WorkStarts(f) PROVE Rests
  <2>1. fd' = fd /\ open' = open /\ \E l : Goto(f, l)
    BY <1>8 DEF ThawBegins, TakeLock, ThawEnds, WorkStarts, TypeOK, TypeCall
  <2> QED BY <2>1, VmSyncAssumption DEF Goto, Rests, TypeOK, TypeCall, Actors
<1>9. ASSUME UNCHANGED <<pc, fd, open>> PROVE Rests
  BY <1>9 DEF Rests
<1>10. ASSUME NEW c \in Callers, NEW f \in Files, Open(c, f) PROVE Rests
  BY <1>10 DEF Open, Rests, TypeOK, TypeFile
<1>11. /\ \A f \in Files : Expire(f) => Rests
       /\ \A c \in Callers : FreezeDevice(c) => Rests
       /\ \A a \in Actors : ThawDevice(a) => Rests
  BY <1>9, Zenon DEF Expire, FreezeDevice, ThawDevice
<1>12. \A d \in Devices : OthersFreeze(d) \/ OthersThaw(d) \/ Intrude(d) => Rests
  BY <1>9, Zenon DEF OthersFreeze, OthersThaw, Intrude
<1>13. ASSUME NEW a \in Actors, ThawStep(a)
       PROVE  (\E c \in Callers : Ends(c) \/ \E l \in Pcs : GoesOn(c, l)) \/ Rests
  BY <1>6, <1>7, <1>8, <1>11, <1>13, Zenon DEF ThawStep, Actors
<1> QED BY <1>1, <1>2, <1>3, <1>4, <1>5, <1>8, <1>10, <1>11, <1>12, <1>13, Zenon
           DEF Next, FreezeStep

LEMMA UseStep ==
    ASSUME TypeOK, UseInv, Next
    PROVE  UseInv'
<1> DEFINE Uses == \A c \in Callers : pc[c] # "idle" =>
                       open[fd[c]] = IF pc[c] \in Releasing THEN "closing" ELSE "open"
           One == \A b, c \in Callers :
                      fd[b] = fd[c] /\ pc[b] \in Releasing /\ pc[c] \in Releasing => b = c
<1>1. Uses /\ One
  BY DEF UseInv
<1>2. \A c \in Callers : c \in Actors /\ fd[c] \in Files
  BY DEF Actors, TypeOK, TypeCall
<1>3. ASSUME NEW c \in Callers, NEW f \in Files, NEW l \in {"freezeLock", "thawLock"}, Begins(c, f, l)
      PROVE  Uses' /\ One'
  <2>1. open' = open /\ open[f] = "open" /\ fd'[c] = f /\ pc'[c] \notin Releasing
        /\ \A b \in Callers \ {c} : fd'[b] = fd[b] /\ pc'[b] = pc[b]
    BY <1>2, <1>3 DEF Begins, Goto, Releasing, TypeOK, TypeCall
  <2> QED BY <1>1, <2>1
<1>4. ASSUME NEW c \in Callers, NEW f \in Files, NEW l \in {"flush", "releaseLock"}, Closes(c, f, l)
      PROVE  Uses' /\ One'
  <2>1. open'[f] = "closing" /\ fd'[c] = f /\ pc'[c] \in Releasing
        /\ \A b \in Callers \ {c} : fd'[b] = fd[b] /\ pc'[b] = pc[b] /\ (fd[b] = f => pc[b] = "idle")
        /\ \A g \in Files \ {f} : open'[g] = open[g]
    BY <1>2, <1>4 DEF Closes, Goto, Releasing, TypeOK, TypeCall, TypeFile
  <2>2. "idle" \notin Releasing
    BY DEF Releasing
  <2>3. Uses'
    BY <1>1, <1>2, <2>1, SMTT(20)
  <2>4. One'
    BY <1>1, <2>1, <2>2
  <2> QED BY <2>3, <2>4
<1>5. ASSUME NEW c \in Callers, NEW l \in Pcs, GoesOn(c, l) PROVE Uses' /\ One'
  <2>1. open' = open /\ fd' = fd /\ pc[c] # "idle" /\ (pc'[c] \in Releasing <=> pc[c] \in Releasing)
        /\ \A b \in Callers \ {c} : pc'[b] = pc[b]
    BY <1>2, <1>5 DEF GoesOn, Goto, TypeOK, TypeCall
  <2> QED BY <1>1, <2>1
<1>6. ASSUME NEW c \in Callers, Ends(c) PROVE Uses' /\ One'
  <2>1. fd' = fd /\ pc[c] # "idle" /\ pc'[c] = "idle" /\ \A b \in Callers \ {c} : pc'[b] = pc[b]
    BY <1>2, <1>6 DEF Ends, Goto, TypeOK, TypeCall
  <2>2. "idle" \notin Releasing /\ "release" \in Releasing
    BY DEF Releasing
  <2>3. One'
    BY <1>1, <2>1, <2>2
  <2>4. ASSUME NEW b \in Callers \ {c}, pc[b] # "idle" PROVE open'[fd[b]] = open[fd[b]]
    <3>1. CASE pc[c] = "release"
      <4>1. open[fd[c]] = "closing"
        BY <1>1, <2>2, <3>1
      <4>2. fd[b] # fd[c]
        BY <1>1, <2>2, <2>4, <3>1, <4>1
      <4> QED BY <1>2, <1>6, <3>1, <4>2 DEF Ends, TypeOK, TypeFile
    <3>2. CASE pc[c] # "release"
      BY <1>6, <3>2 DEF Ends
    <3> QED BY <3>1, <3>2
  <2>5. Uses'
    BY <1>1, <2>1, <2>4
  <2> QED BY <2>3, <2>5
<1>7. ASSUME Rests PROVE Uses' /\ One'
  <2>1. (\A c \in Callers : pc'[c] = pc[c]) /\ fd' = fd
        /\ \A f \in Files : open'[f] = open[f] \/ open[f] = "closed"
    BY <1>7 DEF Rests
  <2> QED BY <1>1, <1>2, <2>1, SMTT(20)
<1> HIDE DEF Uses, One
<1>8. Uses' /\ One'
  BY <1>3, <1>4, <1>5, <1>6, <1>7, UseEffect, Zenon
<1> QED BY <1>8, ClosedStep, Zenon DEF UseInv, Uses, One

\* Steps that neither start nor schedule a work item, nor begin a freeze or a release.
ItemEases ==
    /\ freezes' = freezes
    /\ \A f \in Files : /\ task'[f] \in {"timer", "queued"} => task[f] # "idle"
                        /\ task'[f] = "timer" => task[f] = "timer"
                        /\ task'[f] \in {"idle", "timer", "queued"}
                        /\ pc[f] = "idle" => pc'[f] = "idle"
                        /\ open'[f] = "closed" => open[f] = "closed"
    /\ \A c \in Callers :
           \/ /\ fd'[c] = fd[c]
              /\ pc'[c] \in Freezing => pc[c] \in Freezing
              /\ pc'[c] \in {"releaseLock", "release"} => pc[c] \in {"releaseLock", "release"}
              /\ pc'[c] = "flush" => pc[c] = "flush"
           \/ pc'[c] \notin Freezing \cup Releasing

LEMMA ItemEased ==
    ASSUME TypeOK, ItemInv, ItemEases
    PROVE  ItemInv'
<1>1. ASSUME NEW f \in Files PROVE ItemFile(f)'
  <2>1. ItemFile(f)
    BY DEF ItemInv
  <2> QED BY <2>1 DEF ItemEases, ItemFile
<1>2. ASSUME NEW c \in Callers PROVE ItemCall(c)'
  <2>1. ItemCall(c) /\ fd[c] \in Files
    BY DEF ItemInv, TypeOK, TypeCall
  <2>2. CASE pc'[c] \notin Freezing \cup Releasing
    BY <2>2 DEF ItemCall, Freezing, Releasing
  <2>3. CASE fd'[c] = fd[c] /\ pc'[c] \in Freezing \cup Releasing
    BY <2>1, <2>3 DEF ItemEases, ItemCall
  <2> QED BY <2>2, <2>3, <1>2, Zenon DEF ItemEases
<1>3. ASSUME NEW b \in Callers, NEW c \in Callers,
             freezes'[fd'[c]] <= 1, fd'[b] = fd'[c], pc'[b] \in Freezing, pc'[c] \in Freezing
      PROVE  b = c
  <2>1. freezes' = freezes /\ fd'[b] = fd[b] /\ fd'[c] = fd[c] /\ pc[b] \in Freezing /\ pc[c] \in Freezing
    BY <1>3 DEF ItemEases
  <2> QED BY <1>3, <2>1, Zenon DEF ItemInv
<1> QED BY <1>1, <1>2, <1>3 DEF ItemInv

LEMMA EasySteps ==
    ASSUME TypeOK, Next
    PROVE  \/ ItemEases
           \/ \E c \in Callers, f \in Files : Release(c, f) \/ \E ps \in PathLists : Freeze(c, f, ps)
           \/ \E c \in Callers : Schedule(c) \/ Flushed(c) \/ (ThawEnds(c) /\ pc[c] = "release")
           \/ \E f \in Files : WorkStarts(f)
<1>1. \A c \in Callers : c \in Actors /\ c \notin Files /\ fd[c] \in Files
  BY VmSyncAssumption DEF Actors, TypeOK, TypeCall
<1>2. \A f \in Files : task[f] \in {"idle", "timer", "queued"} /\ f \in Actors /\ f \notin Callers
  BY VmSyncAssumption DEF Actors, TypeOK, TypeFile
<1>3. ASSUME UNCHANGED <<freezes, task, pc, fd>>, \A f \in Files : open'[f] = "closed" => open[f] = "closed"
      PROVE  ItemEases
  BY <1>2, <1>3 DEF ItemEases
<1>4. ASSUME NEW c \in Callers, NEW f \in Files, Open(c, f) PROVE ItemEases
  <2>1. UNCHANGED <<freezes, task, pc, fd>> /\ \A g \in Files : open'[g] = "closed" => open[g] = "closed"
    BY <1>4 DEF Open, TypeOK, TypeFile
  <2> QED BY <1>3, <2>1
<1>5. ASSUME UNCHANGED <<freezes, task, pc, fd, open>> PROVE ItemEases
  BY <1>3, <1>5
<1>6. ASSUME NEW c \in Callers, FreezeDevice(c) PROVE ItemEases
  BY <1>5, <1>6, Zenon DEF FreezeDevice
<1>7. ASSUME NEW a \in Actors, ThawDevice(a) PROVE ItemEases
  BY <1>5, <1>7, Zenon DEF ThawDevice
<1>8. ASSUME NEW d \in Devices, OthersFreeze(d) \/ OthersThaw(d) \/ Intrude(d) PROVE ItemEases
  BY <1>5, <1>8, Zenon DEF OthersFreeze, OthersThaw, Intrude
<1>9. ASSUME NEW c \in Callers, NEW l \in Freezing \cup {"idle"}, pc[c] \in Freezing,
             UNCHANGED <<freezes, task, fd, open>>, Goto(c, l)
      PROVE  ItemEases
  <2>1. /\ \A b \in Callers \ {c} : pc'[b] = pc[b]
        /\ \A f \in Files : pc'[f] = pc[f]
        /\ pc'[c] = l
    BY <1>1, <1>2, <1>9 DEF Goto, TypeOK, TypeCall
  <2>2. l \notin {"releaseLock", "release", "flush"}
    BY DEF Freezing
  <2> QED BY <1>2, <1>9, <2>1, <2>2 DEF ItemEases
<1>10. ASSUME NEW c \in Callers, LockFreeze(c) \/ LockState(c) \/ CleanList(c) \/ UnlockFrozen(c)
       PROVE  ItemEases
  <2>1. UNCHANGED <<freezes, task, fd, open>> /\ pc[c] \in Freezing
        /\ \E l \in Freezing \cup {"idle"} : Goto(c, l)
    BY <1>10 DEF LockFreeze, LockState, TakeLock, CleanList, UnlockFrozen, AfterFreeze, Freezing
  <2> QED BY <1>9, <2>1, Zenon
<1>11. ASSUME NEW c \in Callers, NEW oom \in BOOLEAN, AddPath(c, oom) PROVE ItemEases
  <2>1. UNCHANGED <<freezes, task, fd, open>> /\ pc[c] = "add"
        /\ (UNCHANGED pc \/ Goto(c, "clean") \/ Goto(c, "freeze"))
    BY <1>11, Zenon DEF AddPath
  <2> QED BY <1>5, <1>9, <2>1 DEF Freezing
<1>12. ASSUME NEW c \in Callers, NEW f \in Files, Thaw(c, f) PROVE ItemEases
  <2>1. /\ \A b \in Callers \ {c} : pc'[b] = pc[b] /\ fd'[b] = fd[b]
        /\ \A g \in Files : pc'[g] = pc[g]
        /\ pc'[c] = "thawLock" /\ UNCHANGED <<freezes, task, open>>
    BY <1>1, <1>2, <1>12 DEF Thaw, Goto, TypeOK, TypeCall
  <2>2. "thawLock" \notin Freezing \cup Releasing
    BY DEF Freezing, Releasing
  <2> QED BY Zenon, <1>2, <2>1, <2>2 DEF ItemEases
<1>13. ASSUME NEW f \in Files, Expire(f) PROVE ItemEases
  <2>1. /\ UNCHANGED <<freezes, pc, fd, open>> /\ task[f] = "timer" /\ task'[f] = "queued"
        /\ \A g \in Files \ {f} : task'[g] = task[g]
    BY <1>13 DEF Expire, TypeOK, TypeFile
  <2> QED BY <1>2, <2>1 DEF ItemEases
<1>14. ASSUME NEW c \in Callers, ThawBegins(c) PROVE ItemEases
  <2>1. /\ \A b \in Callers \ {c} : pc'[b] = pc[b]
        /\ \A g \in Files : pc'[g] = pc[g]
        /\ pc'[c] \in {"thaw", "release"} /\ (pc'[c] = "release" => pc[c] = "releaseLock")
        /\ UNCHANGED <<freezes, fd, open>>
    BY <1>1, <1>2, <1>14 DEF ThawBegins, TakeLock, Goto, TypeOK, TypeCall
  <2>2. \A g \in Files : task'[g] = task[g] \/ task'[g] = "idle"
    BY <1>14 DEF ThawBegins, CancelTask, TypeOK, TypeFile
  <2>3. "thaw" \notin Freezing \cup Releasing /\ "release" \notin Freezing
    BY DEF Freezing, Releasing
  <2> QED BY <1>2, <2>1, <2>2, <2>3 DEF ItemEases
<1>15. ASSUME NEW f \in Files, ThawBegins(f) \/ ThawEnds(f) PROVE ItemEases
  <2>1. /\ \A b \in Callers : pc'[b] = pc[b]
        /\ \A g \in Files : pc[g] = "idle" => pc'[g] = "idle"
        /\ UNCHANGED <<freezes, fd, open>>
    BY SMTT(60), <1>1, <1>2, <1>15 DEF ThawBegins, TakeLock, ThawEnds, Goto, TypeOK, TypeCall
  <2>2. \A g \in Files : task'[g] = task[g] \/ task'[g] = "idle"
    BY <1>15 DEF ThawBegins, ThawEnds, CancelTask, TypeOK, TypeFile
  <2> QED BY <1>2, <2>1, <2>2 DEF ItemEases
<1>16. ASSUME NEW c \in Callers, ThawEnds(c), pc[c] # "release" PROVE ItemEases
  <2>1. /\ \A b \in Callers \ {c} : pc'[b] = pc[b]
        /\ \A g \in Files : pc'[g] = pc[g]
        /\ pc'[c] = "idle" /\ UNCHANGED <<freezes, task, fd, open>>
    BY <1>1, <1>2, <1>16 DEF ThawEnds, Goto, TypeOK, TypeCall
  <2>2. "idle" \notin Freezing \cup Releasing
    BY DEF Freezing, Releasing
  <2> QED BY Zenon, <1>2, <2>1, <2>2 DEF ItemEases
<1>17. ASSUME NEW a \in Actors, ThawStep(a)
       PROVE  ItemEases \/ \E c \in Callers : ThawEnds(c) /\ pc[c] = "release"
  BY ZenonT(60), <1>7, <1>14, <1>15, <1>16, <1>17 DEF ThawStep, Actors
<1> QED BY ZenonT(60), <1>4, <1>6, <1>8, <1>10, <1>11, <1>12, <1>13, <1>17 DEF Next, FreezeStep

\* The others start a freeze, a release or a work item, or end a release.
LEMMA FreezeItem ==
    ASSUME TypeOK, UseInv, ItemInv, NEW c \in Callers, NEW f \in Files, NEW ps \in PathLists, Freeze(c, f, ps)
    PROVE  ItemInv'
<1>1. /\ pc[c] = "idle" /\ pc'[c] = "freezeLock" /\ fd'[c] = f
      /\ \A b \in Callers \ {c} : pc'[b] = pc[b] /\ fd'[b] = fd[b]
      /\ \A g \in Files : pc'[g] = pc[g]
  BY VmSyncAssumption DEF Freeze, Goto, Actors, TypeOK, TypeCall
<1>2. /\ UNCHANGED <<task, open>> /\ freezes'[f] = freezes[f] + 1 /\ open[f] = "open"
      /\ \A g \in Files \ {f} : freezes'[g] = freezes[g]
      /\ \A g \in Files : freezes[g] \in Nat
  BY DEF Freeze, TypeOK, TypeFile
<1>3. \A b \in Callers : fd[b] \in Files
  BY DEF TypeOK, TypeCall
<1>4. freezes'[f] <= 1 => freezes[f] = 0 /\ freezes'[f] = 1
  BY <1>2
<1>5. freezes[f] = 0 => /\ task[f] = "idle" /\ pc[f] = "idle"
                        /\ \A b \in Callers : fd[b] = f => pc[b] \notin Freezing
  <2>1. ItemFile(f) /\ \A b \in Callers : ItemCall(b)
    BY DEF ItemInv
  <2> QED BY <2>1 DEF ItemFile, ItemCall
<1>6. ASSUME NEW g \in Files PROVE ItemFile(g)'
  <2>1. ItemFile(g)
    BY DEF ItemInv
  <2> QED BY <1>1, <1>2, <1>4, <1>5, <2>1 DEF ItemFile
<1>7. ASSUME NEW b \in Callers PROVE ItemCall(b)'
  <2>1. CASE b = c
    <3>1. pc'[c] \in Freezing /\ pc'[c] # "flush"
      BY <1>1 DEF Freezing
    <3> QED BY <1>1, <1>2, <1>4, <1>5, <2>1, <3>1 DEF ItemCall
  <2>2. CASE b # c /\ fd[b] = f
    <3>1. pc[b] # "idle" => (pc[b] \in Releasing <=> open[f] = "closing")
      BY <2>2 DEF UseInv
    <3>2. pc[b] \notin {"releaseLock", "release", "flush"}
      BY <1>2, <3>1 DEF Releasing
    <3> QED BY <1>1, <1>2, <1>4, <1>5, <2>2, <3>2 DEF ItemCall
  <2>3. CASE b # c /\ fd[b] # f
    <3>1. ItemCall(b)
      BY DEF ItemInv
    <3> QED BY <1>1, <1>2, <1>3, <2>3, <3>1 DEF ItemCall
  <2> QED BY <2>1, <2>2, <2>3
<1>8. ASSUME NEW a \in Callers, NEW b \in Callers,
             freezes'[fd'[b]] <= 1, fd'[a] = fd'[b], pc'[a] \in Freezing, pc'[b] \in Freezing
      PROVE  a = b
  <2>1. CASE fd'[b] = f
    BY Zenon, <1>1, <1>4, <1>5, <1>8, <2>1
  <2>2. CASE fd'[b] # f
    <3>1. a # c /\ b # c /\ freezes[fd[b]] <= 1 /\ fd[a] = fd[b] /\ pc[a] \in Freezing /\ pc[b] \in Freezing
      BY <1>1, <1>2, <1>3, <1>8, <2>2
    <3> QED BY Zenon, <3>1 DEF ItemInv
  <2> QED BY Zenon, <2>1, <2>2
<1> QED BY ZenonT(60), <1>6, <1>7, <1>8 DEF ItemInv

LEMMA ScheduleItem ==
    ASSUME TypeOK, UseInv, ItemInv, NEW c \in Callers, Schedule(c)
    PROVE  ItemInv'
<1> DEFINE f == fd[c]
<1>1. /\ pc[c] = "schedule" /\ pc'[c] = "idle" /\ UNCHANGED <<freezes, fd, open>> /\ f \in Files
      /\ \A b \in Callers \ {c} : pc'[b] = pc[b]
      /\ \A g \in Files : pc'[g] = pc[g]
  BY Zenon, VmSyncAssumption DEF Schedule, Goto, Actors, TypeOK, TypeCall
<1>2. \A g \in Files \ {f} : task'[g] = task[g]
  BY Zenon DEF Schedule, TypeOK, TypeFile
<1>3. freezes[f] <= 1 => /\ freezes[f] = 1 /\ pc[f] = "idle" /\ open[f] = "open"
                         /\ \A b \in Callers \ {c} : fd[b] = f => pc[b] \notin Freezing \cup Releasing
  <2>1. ItemCall(c) /\ pc[c] \in Freezing /\ pc[c] \notin Releasing /\ pc[c] # "idle"
    BY <1>1 DEF ItemInv, Freezing, Releasing
  <2>2. open[f] = "open"
    BY <2>1 DEF UseInv
  <2>3. \A b \in Callers : fd[b] = f => pc[b] \notin Releasing
    BY <2>2 DEF UseInv, Releasing
  <2>4. freezes[f] <= 1 => \A b \in Callers \ {c} : fd[b] = f => pc[b] \notin Freezing
    BY <2>1 DEF ItemInv
  <2> QED BY <2>1, <2>2, <2>3, <2>4 DEF ItemCall
<1> HIDE DEF f
<1>4. ASSUME NEW g \in Files PROVE ItemFile(g)'
  <2>1. ItemFile(g)
    BY DEF ItemInv
  <2> QED BY <1>1, <1>2, <1>3, <2>1 DEF ItemFile
<1>5. "idle" \notin Freezing \cup Releasing /\ \A l : l \in {"releaseLock", "release", "flush"} => l \in Releasing
  BY DEF Freezing, Releasing
<1>6. ASSUME NEW b \in Callers PROVE ItemCall(b)'
  <2>1. CASE b = c
    BY <1>1, <1>5, <2>1 DEF ItemCall
  <2>2. CASE b # c /\ fd[b] = f
    BY SMTT(60), <1>1, <1>3, <1>5, <2>2 DEF ItemCall
  <2>3. CASE b # c /\ fd[b] # f
    <3>1. ItemCall(b) /\ fd[b] \in Files
      BY DEF ItemInv, TypeOK, TypeCall
    <3> QED BY <1>1, <1>2, <2>3, <3>1 DEF ItemCall
  <2> QED BY <2>1, <2>2, <2>3
<1>7. ASSUME NEW a \in Callers, NEW b \in Callers,
             freezes'[fd'[b]] <= 1, fd'[a] = fd'[b], pc'[a] \in Freezing, pc'[b] \in Freezing
      PROVE  a = b
  <2>1. a # c /\ b # c /\ freezes[fd[b]] <= 1 /\ fd[a] = fd[b] /\ pc[a] \in Freezing /\ pc[b] \in Freezing
    BY <1>1, <1>5, <1>7
  <2> QED BY <2>1 DEF ItemInv
<1> QED BY <1>4, <1>6, <1>7 DEF ItemInv

LEMMA WorkItem ==
    ASSUME TypeOK, ItemInv, NEW f \in Files, WorkStarts(f)
    PROVE  ItemInv'
<1>1. /\ \A b \in Callers : pc'[b] = pc[b]
      /\ \A g \in Files \ {f} : pc'[g] = pc[g] /\ task'[g] = task[g]
      /\ task[f] = "queued" /\ task'[f] = "idle" /\ UNCHANGED <<freezes, fd, open>>
  BY SMTT(60), VmSyncAssumption DEF WorkStarts, Goto, Actors, TypeOK, TypeCall, TypeFile
<1>2. ASSUME NEW g \in Files PROVE ItemFile(g)'
  <2>1. ItemFile(g)
    BY DEF ItemInv
  <2> QED BY Zenon, <1>1, <2>1 DEF ItemFile
<1>3. ASSUME NEW b \in Callers PROVE ItemCall(b)'
  <2>1. ItemCall(b) /\ fd[b] \in Files
    BY DEF ItemInv, TypeOK, TypeCall
  <2>2. CASE fd[b] = f
    BY <1>1, <2>1, <2>2 DEF ItemCall
  <2>3. CASE fd[b] # f
    BY <1>1, <2>1, <2>3 DEF ItemCall
  <2> QED BY <2>2, <2>3
<1>4. ASSUME NEW a \in Callers, NEW b \in Callers,
             freezes'[fd'[b]] <= 1, fd'[a] = fd'[b], pc'[a] \in Freezing, pc'[b] \in Freezing
      PROVE  a = b
  <2>1. freezes[fd[b]] <= 1 /\ fd[a] = fd[b] /\ pc[a] \in Freezing /\ pc[b] \in Freezing
    BY SMTT(60), <1>1, <1>4
  <2> QED BY <2>1 DEF ItemInv
<1> QED BY <1>2, <1>3, <1>4 DEF ItemInv

\* A call of VmSyncRelease, whatever it does next, and when it ends.
LEMMA ReleaseItem ==
    ASSUME TypeOK, UseInv, ItemInv, NEW c \in Callers, NEW f \in Files,
           \/ Release(c, f)
           \/ f = fd[c] /\ (Flushed(c) \/ (ThawEnds(c) /\ pc[c] = "release"))
    PROVE  ItemInv'
<1>1. /\ fd'[c] = f /\ freezes' = freezes
      /\ \A b \in Callers \ {c} : pc'[b] = pc[b] /\ fd'[b] = fd[b]
      /\ \A g \in Files : pc'[g] = pc[g]
      /\ \A g \in Files \ {f} : task'[g] = task[g] /\ open'[g] = open[g]
  <2>1. FileOf(c) = fd[c]
    BY Zenon, VmSyncAssumption DEF FileOf
  <2>2. CASE Release(c, f)
    BY <2>2, VmSyncAssumption, SMTT(30)
       DEF Release, CancelTask, Goto, Actors, TypeOK, TypeCall, TypeFile
  <2>3. CASE f = fd[c] /\ Flushed(c)
    BY <2>3, VmSyncAssumption DEF Flushed, Goto, Actors, TypeOK, TypeCall
  <2>4. CASE f = fd[c] /\ ThawEnds(c)
    <3>1. UNCHANGED <<fd, freezes, task>> /\ \A g \in Files \ {f} : open'[g] = open[g]
      BY ZenonT(60), <2>1, <2>4 DEF ThawEnds, TypeOK, TypeFile
    <3>2. /\ \A b \in Callers \ {c} : pc'[b] = pc[b]
          /\ \A g \in Files : pc'[g] = pc[g]
      BY <2>4, VmSyncAssumption DEF ThawEnds, Goto, Actors, TypeOK, TypeCall
    <3> QED BY Zenon, <2>4, <3>1, <3>2
  <2> QED BY <2>2, <2>3, <2>4
<1>2. /\ pc'[c] \in {"flush", "releaseLock", "idle"}
      /\ freezes[f] <= 1 =>
           /\ pc'[c] = "flush" => task'[f] # "timer"
           /\ pc'[c] \in {"releaseLock", "idle"} => task'[f] = "idle" /\ pc[f] = "idle"
           /\ task'[f] # "idle" => task[f] # "idle"
           /\ freezes[f] = 0 => task'[f] = "idle"
           /\ open'[f] = "closed" => task'[f] = "idle" /\ pc[f] = "idle"
  <2>1. ItemFile(f) /\ ItemCall(c) /\ task[f] \in {"idle", "timer", "queued"} /\ c \in Actors
    BY Zenon DEF ItemInv, TypeOK, TypeFile, Actors
  <2>2. CASE Release(c, f)
    <3>1. /\ task'[f] = IF task[f] = "timer" THEN "idle" ELSE task[f]
          /\ open'[f] = "closing"
          /\ pc'[c] = IF task[f] # "timer" THEN "flush" ELSE "releaseLock"
      BY ZenonT(60), <2>1, <2>2
         DEF Release, CancelTask, MustFlush, Goto, TypeOK, TypeCall, TypeFile
    <3> QED BY Zenon, <2>1, <3>1 DEF ItemFile
  <2>3. CASE f = fd[c] /\ Flushed(c)
    <3>1. /\ task' = task /\ open' = open /\ pc[c] = "flush" /\ pc'[c] = "releaseLock"
          /\ task[f] # "queued" /\ pc[f] = "idle"
      BY <2>1, <2>3 DEF Flushed, Goto, TypeOK, TypeCall
    <3> QED BY <2>1, <2>3, <3>1, SMTT(30) DEF ItemFile, ItemCall
  <2>4. CASE f = fd[c] /\ ThawEnds(c) /\ pc[c] = "release"
    <3>1. task' = task /\ pc'[c] = "idle"
      BY Zenon, <2>1, <2>4 DEF ThawEnds, Goto, TypeOK, TypeCall
    <3> QED BY Zenon, <2>1, <2>4, <3>1 DEF ItemFile, ItemCall
  <2> QED BY <2>2, <2>3, <2>4
<1>3. ASSUME NEW b \in Callers \ {c}, fd[b] = f PROVE pc[b] \notin Freezing \cup Releasing
  <2>1. CASE Release(c, f)
    <3>1. pc[b] = "idle"
      BY <1>3, <2>1 DEF Release
    <3> QED BY <3>1 DEF Freezing, Releasing
  <2>2. CASE f = fd[c] /\ pc[c] \in {"flush", "release"}
    <3>1. pc[c] \in Releasing /\ pc[c] # "idle"
      BY SMTT(60), <2>2 DEF Releasing
    <3>2. open[f] = "closing" /\ pc[b] \notin Releasing
      BY <1>3, <2>2, <3>1 DEF UseInv
    <3>3. pc[b] = "idle"
      BY Zenon, <1>3, <3>2 DEF UseInv
    <3> QED BY <3>3 DEF Freezing, Releasing
  <2> QED BY Zenon, <2>1, <2>2 DEF Flushed
<1>4. ASSUME NEW g \in Files PROVE ItemFile(g)'
  <2>1. ItemFile(g)
    BY DEF ItemInv
  <2> QED BY Zenon, <1>1, <1>2, <2>1 DEF ItemFile
<1>5. ASSUME NEW b \in Callers PROVE ItemCall(b)'
  <2>1. CASE b = c
    <3>1. pc'[c] \notin Freezing
      BY Zenon, <1>2 DEF Freezing
    <3> QED BY Zenon, <1>1, <1>2, <2>1, <3>1 DEF ItemCall
  <2>2. CASE b # c /\ fd[b] = f
    <3>1. pc'[b] \notin Freezing \cup Releasing
      BY Zenon, <1>1, <1>3, <2>2
    <3> QED BY Zenon, <3>1 DEF ItemCall, Releasing
  <2>3. CASE b # c /\ fd[b] # f
    <3>1. ItemCall(b) /\ fd[b] \in Files
      BY Zenon DEF ItemInv, TypeOK, TypeCall
    <3> QED BY <1>1, <2>3, <3>1 DEF ItemCall
  <2> QED BY <2>1, <2>2, <2>3
<1>6. ASSUME NEW a \in Callers, NEW b \in Callers,
             freezes'[fd'[b]] <= 1, fd'[a] = fd'[b], pc'[a] \in Freezing, pc'[b] \in Freezing
      PROVE  a = b
  <2>1. pc'[c] \notin Freezing
    BY SMTT(60), <1>2 DEF Freezing
  <2>2. freezes[fd[b]] <= 1 /\ fd[a] = fd[b] /\ pc[a] \in Freezing /\ pc[b] \in Freezing
    BY <1>1, <1>6, <2>1
  <2> QED BY ZenonT(60), <2>2 DEF ItemInv
<1> QED BY <1>4, <1>5, <1>6 DEF ItemInv

LEMMA ItemStep ==
    ASSUME TypeOK, UseInv, ItemInv, Next
    PROVE  ItemInv'
<1>1. \A c \in Callers : fd[c] \in Files
  BY DEF TypeOK, TypeCall
<1> QED BY <1>1, EasySteps, ItemEased, FreezeItem, ScheduleItem, WorkItem, ReleaseItem, Zenon

-----------------------------------------------------------------------------
(* All but the counts: the calls keep it if what is listed is frozen.       *)

CallInv == LockInv /\ FileInv /\ OnceInv /\ UseInv /\ ItemInv

LEMMA CallStep ==
    ASSUME TypeOK, TypeOK', ListedInv, CallInv, Next
    PROVE  CallInv'
<1>1. LockInv' /\ FileInv' /\ OnceInv'
  BY LockStep, FileStep, OnceStep, Zenon DEF CallInv
<1>2. UseInv' /\ ItemInv'
  BY UseStep, ItemStep, Zenon DEF CallInv
<1> QED BY <1>1, <1>2, Zenon DEF CallInv

LEMMA CallStutter ==
    ASSUME TypeOK, CallInv, UNCHANGED vars
    PROVE  /\ TypeOK' /\ CallInv' /\ UNCHANGED <<gFreezeCount, frozen, others, intruded>>
           /\ FrozenEntries' = FrozenEntries /\ \A T : Within(T)' = Within(T)
<1>1. /\ UNCHANGED <<open, freezes, devices, task, lock, gFreezeLock, gFreezeCount>>
      /\ UNCHANGED <<pc, fd, paths, pathList, frozen, others, intruded>>
  BY Zenon DEF vars, environment
<1>2. TypeOK'
  BY <1>1 DEF TypeOK, TypeFile, TypeCall, TypeList, TypeCount
<1>3. FrozenEntries' = FrozenEntries /\ \A x : At(x)' = At(x)
  BY ZenonT(60), <1>1, EntriesKept
<1>4. (\A T : Within(T)' = Within(T)) /\ \A c : Pending(c)' = Pending(c)
  BY ZenonT(60), <1>1, <1>3 DEF Within, Pending
<1>5. LockInv' /\ UseInv'
  BY Zenon, <1>1 DEF CallInv, LockInv, FileOf, UseInv
<1>6. FileInv'
  BY Zenon, <1>1, <1>3, <1>4 DEF CallInv, FileInv, OneFile
<1>7. \A c : (PathsOnce(c) => PathsOnce(c)') /\ (PathListOnce(c) => PathListOnce(c)')
  BY Zenon, <1>1 DEF PathsOnce, PathListOnce
<1>8. OnceInv'
  BY SMTT(60), <1>1, <1>3, <1>4, <1>7 DEF CallInv, OnceInv, DistinctDevices, FreezeOnce
<1>9. ItemInv'
  BY <1>1 DEF CallInv, ItemInv, ItemFile, ItemCall
<1> QED BY <1>1, <1>2, <1>3, <1>4, <1>5, <1>6, <1>8, <1>9, Zenon DEF CallInv

LEMMA CallInit ==
    ASSUME Init
    PROVE  TypeOK /\ CallInv /\ FrozenEntries = {} /\ \A T : Within(T) = {}
<1>1. TypeOK
  <2>1. TypeFile /\ TypeCall
    BY VmSyncAssumption DEF Init, TypeFile, TypeCall, Actors, Pcs
  <2>2. (\A S : <<>> \in Seq(S)) /\ 0 \in Nat /\ 0 \in Int
    OBVIOUS
  <2>3. TypeList /\ TypeCount
    BY <2>2, Zenon DEF Init, TypeList, TypeCount
  <2> QED BY <2>1, <2>3 DEF TypeOK
<1>2. FrozenEntries = {} /\ \A T : Within(T) = {}
  BY DEF Init, FrozenEntries, Entries, Within
<1>3. \A c \in Callers : pathList[c] = <<>> /\ paths[c] = <<>> /\ pc[c] = "idle" /\ Pending(c) = {}
  BY DEF Init, Actors, Pending
<1>4. LockInv
  BY ZenonT(60), <1>3 DEF Init, LockInv, FreezeLocked
<1>5. FileInv
  BY <1>2 DEF FileInv, OneFile
<1>6. OnceInv
  <2>1. \A c \in Callers : \A i : i \notin 1 .. Len(paths[c]) /\ i \notin 1 .. Len(pathList[c])
    BY <1>3
  <2>2. \A c \in Callers : PathsOnce(c) /\ PathListOnce(c)
    BY ZenonT(60), <2>1 DEF PathsOnce, PathListOnce
  <2>3. FreezeOnce
    BY ZenonT(60), <1>2 DEF FreezeOnce
  <2> QED BY ZenonT(60), <1>2, <2>1, <2>2, <2>3 DEF OnceInv
<1>7. UseInv
  BY <1>3 DEF Init, UseInv, Releasing
<1>8. ItemInv
  <2>1. \A f \in Files : freezes[f] = 0 /\ task[f] = "idle" /\ pc[f] = "idle"
    BY DEF Init, Actors
  <2> QED BY <1>3, <2>1 DEF ItemInv, ItemFile, ItemCall, Freezing
<1> QED BY <1>1, <1>2, <1>4, <1>5, <1>6, <1>7, <1>8, Zenon DEF CallInv

\* A file that is closed and was used for one freeze at most leaves nothing behind.
LEMMA ClosedClean ==
    ASSUME TypeOK, CallInv
    PROVE  FreedClean
<1> SUFFICES ASSUME NEW f \in Files, freezes[f] <= 1, open[f] = "closed"
             PROVE  devices[f] = <<>> /\ lock[f] = Nobody /\ task[f] = "idle" /\ pc[f] = "idle"
  BY DEF FreedClean, Live
<1>1. LockInv /\ UseInv /\ ItemInv
  BY Zenon DEF CallInv
<1>2. devices[f] = <<>>
  BY <1>1 DEF UseInv
<1>3. task[f] = "idle" /\ pc[f] = "idle"
  BY <1>1 DEF ItemInv, ItemFile
<1>4. ASSUME lock[f] # Nobody PROVE FALSE
  <2>1. lock[f] \in Actors /\ FileOf(lock[f]) = f /\ pc[lock[f]] \in Locked
    BY <1>1, <1>4 DEF LockInv, TypeOK, TypeFile
  <2>2. CASE lock[f] \in Files
    BY <1>3, <2>1, <2>2 DEF FileOf, Locked
  <2>3. CASE lock[f] \in Callers
    <3>1. fd[lock[f]] = f /\ pc[lock[f]] # "idle"
      BY SMTT(60), <2>1, <2>3, VmSyncAssumption DEF FileOf, Locked
    <3>2. open[f] # "closed"
      BY <1>1, <2>3, <3>1 DEF UseInv
    <3> QED BY <3>2
  <2> QED BY SMTT(60), <2>1, <2>2, <2>3 DEF Actors
<1> QED BY <1>2, <1>3, <1>4

-----------------------------------------------------------------------------
(* The count and the depth of each device's freeze follow the lists.  The   *)
(* theorems about finite sets are local to this part, which is the only one *)
(* that counts; they come with a Cardinality of their own, the same as that *)
(* of VmSync.                                                               *)

Size(S) == Cardinality(S)
USE DEF Cardinality
LOCAL INSTANCE FiniteSetTheorems

LEMMA SameSize == \A S : Size(S) = Cardinality(S)
  BY DEF Size, Cardinality

\* A device is frozen as often as the driver's lists and the others say.
CountInv ==
    /\ IsFiniteSet(FrozenEntries)
    /\ ~intruded =>
           /\ gFreezeCount = Cardinality(Within(Devices))
           /\ \A d \in Devices :
                  frozen[d] = Cardinality(Within({d})) + (IF d \in others THEN 1 ELSE 0)

\* The entries of devices of T are one more or one fewer.
LEMMA CountAppend ==
    ASSUME TypeOK, NEW f \in Files, NEW e \in Entry, NEW T, IsFiniteSet(FrozenEntries),
           devices' = [devices EXCEPT ![f] = Append(@, e)]
    PROVE  /\ Cardinality(Within(T)) \in Nat /\ IsFiniteSet(Within(T)')
           /\ Cardinality(Within(T)') =
                  Cardinality(Within(T)) + (IF e.sb /\ e.dev \in T THEN 1 ELSE 0)
<1>1. IsFiniteSet(Within(T)) /\ Cardinality(Within(T)) \in Nat
  BY FS_Subset, FS_CardinalityType, Zenon DEF Within
<1>2. PICK n : n = Len(devices[f]) + 1
  OBVIOUS
<1>3. /\ <<f, n>> \notin FrozenEntries /\ At(<<f, n>>)' = e
      /\ \A x \in FrozenEntries : At(x)' = At(x)
      /\ FrozenEntries' = FrozenEntries \cup (IF e.sb THEN {<<f, n>>} ELSE {})
  BY ZenonT(60), <1>2, AppendEntries
<1>4. CASE e.sb /\ e.dev \in T
  <2>1. <<f, n>> \notin Within(T) /\ Within(T)' = Within(T) \cup {<<f, n>>}
    BY <1>3, <1>4 DEF Within
  <2>2. IsFiniteSet(Within(T)') /\ Cardinality(Within(T)') = Cardinality(Within(T)) + 1
    <3>1. IsFiniteSet(Within(T) \cup {<<f, n>>})
          /\ Cardinality(Within(T) \cup {<<f, n>>}) = Cardinality(Within(T)) + 1
      BY ZenonT(60), <1>1, <2>1, FS_AddElement
    <3> QED BY <2>1, <3>1
  <2> QED BY Zenon, <1>1, <1>4, <2>2
<1>5. CASE ~(e.sb /\ e.dev \in T)
  <2>1. Within(T)' = Within(T)
    BY ZenonT(60), <1>3, <1>5 DEF Within
  <2> QED BY SMTT(60), <1>1, <1>5, <2>1
<1> QED BY <1>4, <1>5

LEMMA CountTail ==
    ASSUME TypeOK, NEW f \in Files, devices[f] # <<>>, NEW T, IsFiniteSet(FrozenEntries),
           devices' = [devices EXCEPT ![f] = Tail(@)]
    PROVE  /\ Cardinality(Within(T)) \in Nat /\ IsFiniteSet(Within(T)')
           /\ Cardinality(Within(T)') =
                  Cardinality(Within(T))
                  - (IF Head(devices[f]).sb /\ Head(devices[f]).dev \in T THEN 1 ELSE 0)
<1> DEFINE W == Within(T) \ {<<f, 1>>}
           W1 == Within(T)'
           map == [y \in W |-> CHOOSE x \in W1 : y = Before(f, x)]
<1>1. IsFiniteSet(Within(T)) /\ Cardinality(Within(T)) \in Nat
  BY FS_Subset, FS_CardinalityType DEF Within
<1>2. IsFiniteSet(W) /\ Cardinality(W) = Cardinality(Within(T))
          - (IF Head(devices[f]).sb /\ Head(devices[f]).dev \in T THEN 1 ELSE 0)
  <2>1. <<f, 1>> \in Within(T) <=> Head(devices[f]).sb /\ Head(devices[f]).dev \in T
    BY TailEntries, Zenon DEF Within
  <2>2. IsFiniteSet(W) /\ Cardinality(W) = IF <<f, 1>> \in Within(T)
                                            THEN Cardinality(Within(T)) - 1
                                            ELSE Cardinality(Within(T))
    BY ZenonT(60), <1>1, FS_RemoveElement
  <2> HIDE DEF W
  <2> QED BY SMTT(60), <1>1, <2>1, <2>2
<1>3. map \in Bijection(W, W1)
  <2>1. \A x \in W1 : Before(f, x) \in W
    BY TailEntries, Zenon DEF Within
  <2>2. \A x, y \in W1 : Before(f, x) = Before(f, y) => x = y
    BY ZenonT(60), TailEntries DEF Within
  <2>3. ASSUME NEW y \in W PROVE \E x \in W1 : y = Before(f, x)
    <3>1. PICK x \in FrozenEntries' : y = Before(f, x)
      BY TailEntries, Zenon DEF Within
    <3>2. At(x)' = At(y)
      BY ZenonT(60), <3>1, TailEntries
    <3> QED BY <3>1, <3>2 DEF Within
  <2>4. \A y \in W : map[y] \in W1 /\ y = Before(f, map[y])
    BY <2>3, Zenon
  <2>5. \A x \in W1 : map[Before(f, x)] = x
    BY <2>1, <2>2, <2>4
  <2>6. map \in [W -> W1]
    BY <2>4, Zenon
  <2> HIDE DEF W, W1, map
  <2> QED BY SMTT(60), <2>1, <2>4, <2>5, <2>6 DEF Bijection, Injection, Surjection, IsInjective
<1>4. ExistsBijection(W, W1)
  BY ZenonT(60), <1>3 DEF ExistsBijection
<1> QED BY <1>1, <1>2, <1>4, FS_Bijection

LEMMA AllWithin ==
    ASSUME TypeOK'
    PROVE  Within(Devices)' = FrozenEntries'
<1>1. ASSUME NEW x \in FrozenEntries' PROVE At(x)'.dev \in Devices
  <2>1. PICK g \in Files, i \in Nat : i \in 1 .. Len(devices'[g]) /\ x = <<g, i>>
    BY <1>1 DEF FrozenEntries, Entries
  <2>2. devices'[g][i] \in Entry
    BY <2>1 DEF TypeOK, TypeList
  <2> QED BY Zenon, <2>1, <2>2 DEF At, Entry
<1> QED BY Zenon, <1>1 DEF Within

\* If frozen follows the lists, a device of a list is frozen.
LEMMA ListedFrozen ==
    ASSUME TypeOK, CountInv
    PROVE  ListedInv
<1> SUFFICES ASSUME ~intruded, NEW x \in FrozenEntries PROVE frozen[At(x).dev] > 0
  BY DEF ListedInv
<1> DEFINE d == At(x).dev
<1>1. d \in Devices
  BY EntryIn
<1>2. x \in Within({d})
  BY DEF Within
<1>3. IsFiniteSet(Within({d}))
  BY FS_Subset, Zenon DEF CountInv, Within
<1>4. Cardinality(Within({d})) \in Nat /\ Cardinality(Within({d})) # 0
  BY <1>2, <1>3, FS_CardinalityType, FS_EmptySet
<1> HIDE DEF d
<1>5. frozen[d] = Cardinality(Within({d})) + (IF d \in others THEN 1 ELSE 0)
  BY <1>1 DEF CountInv
<1>6. frozen[d] > 0
  BY SMTT(60), <1>4, <1>5
<1> QED BY <1>6 DEF d

LEMMA FreezeCount ==
    ASSUME TypeOK, TypeOK', CountInv, NEW c \in Callers, FreezeDevice(c)
    PROVE  CountInv'
<1> DEFINE d == Head(pathList[c])
           e == [dev |-> d, sb |-> d \notin NoSuper]
           f == fd[c]
<1>1. d \in Devices /\ f \in Files
  <2>1. pathList[c] # <<>> /\ f \in Files
    BY ZenonT(60) DEF FreezeDevice, TypeOK, TypeCall
  <2>2. pathList[c] \in Seq(Devices)
    BY ZenonT(60) DEF TypeOK, TypeList
  <2> QED BY <2>1, <2>2
<1>2. e \in Entry /\ e.dev = d /\ e.sb = (d \notin NoSuper)
  BY <1>1 DEF Entry
<1>3. /\ devices' = [devices EXCEPT ![f] = Append(@, e)]
      /\ frozen' = IF e.sb THEN [frozen EXCEPT ![d] = @ + 1] ELSE frozen
      /\ gFreezeCount' = IF e.sb THEN gFreezeCount + 1 ELSE gFreezeCount
      /\ others' = others /\ intruded' = intruded
  BY <1>2, Zenon DEF FreezeDevice, Counted, environment
<1>4. IsFiniteSet(FrozenEntries)
  BY DEF CountInv
<1> HIDE DEF d, e, f
<1>5. ASSUME NEW T
      PROVE  /\ Cardinality(Within(T)) \in Nat /\ IsFiniteSet(Within(T)')
             /\ Cardinality(Within(T)') =
                  Cardinality(Within(T)) + (IF e.sb /\ e.dev \in T THEN 1 ELSE 0)
  BY ZenonT(60), <1>1, <1>2, <1>3, <1>4, CountAppend
<1>6. IsFiniteSet(FrozenEntries)'
  <2>1. IsFiniteSet(Within(Devices)')
    BY <1>5
  <2>2. Within(Devices)' = FrozenEntries'
    BY Zenon, AllWithin
  <2> QED BY Zenon, <2>1, <2>2
<1>7. ASSUME ~intruded PROVE gFreezeCount' = Cardinality(Within(Devices)')
  <2>1. gFreezeCount = Cardinality(Within(Devices))
    BY Zenon, <1>7 DEF CountInv
  <2> QED BY SMTT(60), <1>1, <1>2, <1>3, <1>5, <2>1
<1>8. ASSUME ~intruded, NEW g \in Devices
      PROVE  frozen'[g] = Cardinality(Within({g})') + (IF g \in others THEN 1 ELSE 0)
  <2>1. frozen[g] = Cardinality(Within({g})) + (IF g \in others THEN 1 ELSE 0)
    BY Zenon, <1>8 DEF CountInv
  <2>2. frozen'[g] = frozen[g] + (IF e.sb /\ g = d THEN 1 ELSE 0)
    BY SMTT(60), <1>1, <1>3, <1>8 DEF TypeOK, TypeCount
  <2>3. /\ Cardinality(Within({g})) \in Nat
        /\ Cardinality(Within({g})') =
             Cardinality(Within({g})) + (IF e.sb /\ g = d THEN 1 ELSE 0)
    BY Zenon, <1>2, <1>5
  <2> QED BY SMTT(60), <2>1, <2>2, <2>3
<1>9. intruded' = intruded /\ others' = others
  BY Zenon, <1>3
<1> QED BY ZenonT(60), <1>6, <1>7, <1>8, <1>9 DEF CountInv

LEMMA ThawCount ==
    ASSUME TypeOK, TypeOK', CountInv, NEW a \in Actors, ThawDevice(a)
    PROVE  CountInv'
<1> DEFINE f == FileOf(a)
           e == Head(devices[f])
           d == e.dev
<1>1. f \in Files
  BY Zenon DEF FileOf, TypeOK, TypeCall, Actors
<1>2. devices[f] # <<>> /\ e \in Entry
  BY <1>1 DEF ThawDevice, TypeOK, TypeList
<1>3. d \in Devices /\ e.sb \in BOOLEAN
  BY ZenonT(60), <1>2 DEF Entry
<1>4. /\ devices' = [devices EXCEPT ![f] = Tail(@)]
      /\ IF e.sb /\ frozen[d] > 0
         THEN frozen' = [frozen EXCEPT ![d] = @ - 1] /\ gFreezeCount' = gFreezeCount - 1
         ELSE UNCHANGED <<frozen, gFreezeCount>>
      /\ others' = others /\ intruded' = intruded
  BY DEF ThawDevice, MustThaw, environment
<1>5. IsFiniteSet(FrozenEntries)
  BY DEF CountInv
<1>6. ASSUME ~intruded, e.sb PROVE frozen[d] > 0
  <2>1. At(<<f, 1>>) = e /\ <<f, 1>> \in FrozenEntries
    BY ZenonT(60), <1>1, <1>2, <1>4, <1>6, TailEntries
  <2> QED BY ZenonT(60), <1>6, <2>1, ListedFrozen DEF ListedInv
<1>7. ASSUME NEW T
      PROVE  /\ Cardinality(Within(T)') \in Nat /\ IsFiniteSet(Within(T)')
             /\ Cardinality(Within(T)) =
                  Cardinality(Within(T)') + (IF e.sb /\ e.dev \in T THEN 1 ELSE 0)
  <2>1. /\ Cardinality(Within(T)) \in Nat /\ IsFiniteSet(Within(T)')
        /\ Cardinality(Within(T)') =
             Cardinality(Within(T)) - (IF e.sb /\ e.dev \in T THEN 1 ELSE 0)
    BY ZenonT(60), <1>1, <1>2, <1>4, <1>5, CountTail
  <2>2. Cardinality(Within(T)') \in Nat
    BY <2>1, FS_CardinalityType
  <2> HIDE DEF e, f
  <2> QED BY <2>1, <2>2
<1> HIDE DEF e, f
<1>8. IsFiniteSet(FrozenEntries)'
  <2>1. IsFiniteSet(Within(Devices)')
    BY <1>7
  <2>2. Within(Devices)' = FrozenEntries'
    BY Zenon, AllWithin
  <2> QED BY <2>1, <2>2
<1>9. ASSUME ~intruded PROVE gFreezeCount' = Cardinality(Within(Devices)')
  <2>1. gFreezeCount = Cardinality(Within(Devices))
    BY Zenon, <1>9 DEF CountInv
  <2> QED BY SMTT(60), <1>3, <1>4, <1>6, <1>7, <1>9, <2>1
<1>10. ASSUME ~intruded, NEW g \in Devices
       PROVE  frozen'[g] = Cardinality(Within({g})') + (IF g \in others THEN 1 ELSE 0)
  <2>1. frozen[g] = Cardinality(Within({g})) + (IF g \in others THEN 1 ELSE 0)
    BY <1>10 DEF CountInv
  <2>2. frozen'[g] = frozen[g] - (IF e.sb /\ g = d THEN 1 ELSE 0)
    BY SMTT(60), <1>3, <1>4, <1>6, <1>10 DEF TypeOK, TypeCount
  <2>3. /\ Cardinality(Within({g})') \in Nat
        /\ Cardinality(Within({g})) =
             Cardinality(Within({g})') + (IF e.sb /\ g = d THEN 1 ELSE 0)
    BY <1>7
  <2> QED BY SMTT(60), <2>1, <2>2, <2>3
<1> QED BY Zenon, <1>4, <1>8, <1>9, <1>10 DEF CountInv

LEMMA CountStep ==
    ASSUME TypeOK, TypeOK', CountInv, Next
    PROVE  CountInv'
<1>1. ASSUME devices' = devices
      PROVE  FrozenEntries' = FrozenEntries /\ \A T : Within(T)' = Within(T)
  BY SMTT(60), <1>1, EntriesKept DEF Within
<1>2. ASSUME NEW d \in Devices, OthersFreeze(d) \/ OthersThaw(d) \/ Intrude(d) PROVE CountInv'
  <2>1. devices' = devices /\ gFreezeCount' = gFreezeCount
    BY <1>2 DEF OthersFreeze, OthersThaw, Intrude
  <2>2. IsFiniteSet(FrozenEntries)' /\ (~intruded => gFreezeCount' = Cardinality(Within(Devices)'))
    BY Zenon, <1>1, <2>1 DEF CountInv
  <2>3. ASSUME NEW g \in Devices, ~intruded, ~intruded'
        PROVE  frozen'[g] = Cardinality(Within({g})') + (IF g \in others' THEN 1 ELSE 0)
    <3>1. frozen[g] = Cardinality(Within({g})) + (IF g \in others THEN 1 ELSE 0)
      BY <2>3 DEF CountInv
    <3>2. Within({g})' = Within({g})
      BY ZenonT(60), <1>1, <2>1
    <3>3. Cardinality(Within({g})) \in Nat
      BY FS_Subset, FS_CardinalityType DEF CountInv, Within
    <3>4. frozen'[g] - (IF g \in others' THEN 1 ELSE 0) = frozen[g] - (IF g \in others THEN 1 ELSE 0)
      <4>1. CASE OthersFreeze(d)
        <5>1. g = d => g \notin others
          BY SMTT(60), <3>1, <3>3, <4>1 DEF OthersFreeze
        <5> QED BY SMTT(60), <4>1, <5>1 DEF OthersFreeze, TypeOK, TypeCount
      <4>2. CASE OthersThaw(d)
        <5>1. g = d => frozen[g] > 0
          BY SMTT(60), <3>1, <3>3, <4>2 DEF OthersThaw
        <5> QED BY SMTT(60), <4>2, <5>1 DEF OthersThaw, TypeOK, TypeCount
      <4>3. CASE Intrude(d)
        BY <2>3, <4>3 DEF Intrude
      <4> QED BY ZenonT(60), <1>2, <4>1, <4>2, <4>3
    <3>5. frozen[g] \in Nat /\ frozen'[g] \in Nat
      BY DEF TypeOK, TypeCount
    <3> QED BY SMTT(60), <3>1, <3>2, <3>3, <3>4, <3>5
  <2>4. intruded => intruded'
    BY ZenonT(60), <1>2 DEF OthersFreeze, OthersThaw, Intrude
  <2> QED BY ZenonT(60), <2>2, <2>3, <2>4 DEF CountInv
<1>3. ASSUME UNCHANGED <<frozen, gFreezeCount, environment>>, devices' = devices PROVE CountInv'
  BY <1>1, <1>3 DEF CountInv, environment
<1> QED BY ZenonT(60), <1>2, <1>3, DevicesKept, CountsKept, FreezeCount, ThawCount

LEMMA CountInit ==
    ASSUME Init, FrozenEntries = {}, \A T : Within(T) = {}
    PROVE  CountInv
<1>1. IsFiniteSet({}) /\ Cardinality({}) = 0
  BY ZenonT(60), FS_EmptySet
<1>2. gFreezeCount = 0 /\ others = {}
  BY DEF Init
<1>3. ASSUME NEW d \in Devices PROVE frozen[d] = 0
  BY DEF Init
<1>4. gFreezeCount = Cardinality(Within(Devices))
  BY <1>1, <1>2
<1>5. ASSUME NEW d \in Devices
      PROVE  frozen[d] = Cardinality(Within({d})) + (IF d \in others THEN 1 ELSE 0)
  <2>1. Cardinality(Within({d})) = 0
    BY <1>1
  <2> QED BY <1>2, <1>3, <2>1
<1> QED BY <1>1, <1>4, <1>5, Zenon DEF CountInv

LEMMA CountsFollow ==
    ASSUME TypeOK, CountInv
    PROVE  CountMatches
<1>1. \A d \in Devices : frozen[d] \in Nat
  BY DEF TypeOK, TypeCount
<1>2. ASSUME ~intruded PROVE gFreezeCount = Cardinality(FrozenEntries)
  <2>1. Within(Devices) = FrozenEntries
    BY EntryIn DEF Within
  <2> QED BY ZenonT(60), <1>2, <2>1 DEF CountInv
<1>3. ASSUME ~intruded, NEW d \in Devices, frozen[d] > 0, d \notin others
      PROVE  \E x \in FrozenEntries : At(x).dev = d
  <2>1. frozen[d] = Cardinality(Within({d})) + 0
    BY <1>3 DEF CountInv
  <2>2. Within({d}) # {}
    <3>1. Cardinality({}) = 0
      BY FS_EmptySet, Zenon
    <3> QED BY SMTT(60), <1>3, <2>1, <3>1
  <2> QED BY <2>2 DEF Within
<1>4. ASSUME ~intruded, NEW d \in others PROVE d \in Devices /\ frozen[d] > 0
  <2>1. d \in Devices
    BY DEF TypeOK, TypeCount
  <2>2. IsFiniteSet(Within({d}))
    BY FS_Subset, Zenon DEF CountInv, Within
  <2>3. Cardinality(Within({d})) \in Nat
    BY <2>2, FS_CardinalityType, Zenon
  <2>4. frozen[d] = Cardinality(Within({d})) + 1
    BY ZenonT(60), <1>4, <2>1 DEF CountInv
  <2> QED BY SMTT(60), <2>1, <2>3, <2>4
<1>5. ASSUME ~intruded
      PROVE  {d \in Devices : frozen[d] > 0} = {At(x).dev : x \in FrozenEntries} \cup others
  <2>1. \A x \in FrozenEntries : At(x).dev \in Devices /\ frozen[At(x).dev] > 0
    BY ZenonT(60), <1>5, ListedFrozen, EntryIn DEF ListedInv
  <2> QED BY <1>3, <1>4, <1>5, <2>1
<1>6. \A d \in Devices : frozen[d] >= 0
  BY <1>1
<1>7. ASSUME ~intruded PROVE gFreezeCount = Size(FrozenEntries)
  BY <1>2, <1>7, SameSize
<1> QED BY ZenonT(60), <1>5, <1>6, <1>7 DEF CountMatches, Size

-----------------------------------------------------------------------------
(* The inductive invariant.                                                 *)

IInv == TypeOK /\ CountInv /\ CallInv

LEMMA NextIInv ==
    ASSUME IInv, [Next]_vars
    PROVE  IInv'
<1>1. CASE Next
  <2>1. TypeOK'
    BY <1>1, TypeStep, Zenon DEF IInv, CallInv
  <2>2. CountInv' /\ CallInv'
    BY ZenonT(60), <1>1, <2>1, ListedFrozen, CountStep, CallStep DEF IInv
  <2> QED BY <2>1, <2>2 DEF IInv
<1>2. CASE UNCHANGED vars
  <2>1. /\ TypeOK' /\ CallInv' /\ UNCHANGED <<gFreezeCount, frozen, others, intruded>>
        /\ FrozenEntries' = FrozenEntries /\ \A T : Within(T)' = Within(T)
    BY <1>2, CallStutter, Zenon DEF IInv
  <2>2. CountInv'
    BY <2>1, Zenon DEF IInv, CountInv
  <2> QED BY <2>1, <2>2 DEF IInv
<1> QED BY <1>1, <1>2, Zenon

LEMMA InitIInv ==
    ASSUME Init
    PROVE  IInv
  BY CallInit, CountInit, Zenon DEF IInv

(***************************************************************************)
(* The invariant of the driver: the locks are held by the calls between    *)
(* taking and dropping them, the counts follow the lists, nobody uses a    *)
(* closed file, and one freeze makes one work item.                        *)
(***************************************************************************)
THEOREM Invariance == Spec => []IInv
<1>1. Init => IInv
  BY InitIInv
<1>2. IInv /\ [Next]_vars => IInv'
  BY NextIInv
<1> QED BY <1>1, <1>2, PTL DEF Spec

(***************************************************************************)
(* SYNC_IOC_QUERY counts right: gFreezeCount is the number of devices the  *)
(* driver has frozen, those and what others froze are frozen and nothing   *)
(* else is, unless somebody else thawed one; no count goes below zero.     *)
(***************************************************************************)
THEOREM CountsRight == Spec => []CountMatches
<1>1. IInv => CountMatches
  BY CountsFollow DEF IInv
<1> QED BY <1>1, Invariance, PTL

(***************************************************************************)
(* What gFreezeLock is for: "make sure that two different fds aren't       *)
(* allowed to freeze the same device".  It holds whatever paths the calls  *)
(* name, several on one device included.                                   *)
(***************************************************************************)
THEOREM OneFileFreezes == Spec => []OneFile
<1>1. IInv => OneFile
  BY Zenon DEF IInv, CallInv, FileInv
<1> QED BY <1>1, Invariance, PTL

(***************************************************************************)
(* A device is in the lists once, for calls that name no two paths on one  *)
(* device: VmSyncAddPath looks for it in the list of the file, not in the  *)
(* pathList of the call, so two such paths in one call would freeze it     *)
(* twice.                                                                  *)
(***************************************************************************)
THEOREM FrozenOnce == DistinctDevices => (Spec => []FreezeOnce)
<1> SUFFICES ASSUME DistinctDevices PROVE Spec => []FreezeOnce
  OBVIOUS
<1>1. IInv => FreezeOnce
  BY DEF IInv, CallInv, OnceInv
<1> QED BY SMTT(60), <1>1, Invariance, PTL

(***************************************************************************)
(* What VmSyncRelease frees is as the slab's constructor left it, with the *)
(* work item neither queued nor running, if the file was used for at most  *)
(* one freeze.                                                             *)
(***************************************************************************)
THEOREM FreesClean == Spec => []FreedClean
<1>1. IInv => FreedClean
  BY ClosedClean, Zenon DEF IInv
<1> QED BY <1>1, Invariance, PTL
=============================================================================
