------------------------------- MODULE VmSync -------------------------------
(***************************************************************************)
(* The vmsync kernel driver (modules/linux/vmsync/sync.c): processes freeze *)
(* and thaw block devices through open files, and a delayed work item thaws *)
(* what a process forgot.  The callers hold CAP_SYS_ADMIN.  What runs       *)
(* between taking and dropping a mutex is split where others can see it.    *)
(***************************************************************************)
EXTENDS Integers, Sequences, FiniteSets

CONSTANTS
    Callers,       \* threads that call into the driver
    Files,         \* memory of VmSyncStates, one per open file
    Devices,       \* block devices with a superblock
    PathLists,     \* arguments of SYNC_IOC_FREEZE: sequences of paths
    DeviceOf,      \* the device a path is on, NoDevice or NoPath
    NoDevice,      \* the path's superblock has no block device
    NoPath,        \* path_lookup fails
    Nobody,        \* nobody holds a mutex
    NoSuper,       \* devices for which freeze_bdev returns NULL
    MaxFreezes,    \* bound on SYNC_IOC_FREEZE calls
    MaxOthers      \* bound on what others do

ASSUME VmSyncAssumption ==
    /\ Callers \cap Files = {} /\ Nobody \notin Callers \cup Files
    /\ {NoDevice, NoPath} \cap Devices = {}
    /\ \A ps \in PathLists : ps \in Seq(DOMAIN DeviceOf) /\ ps # <<>>
    /\ \A p \in DOMAIN DeviceOf : DeviceOf[p] \in Devices \cup {NoDevice, NoPath}
    /\ NoSuper \subseteq Devices
    /\ Files # {} /\ MaxFreezes \in Nat /\ MaxOthers \in Nat

VARIABLES
    open,          \* per file: "closed", "open" or "closing"
    freezes,       \* per file: SYNC_IOC_FREEZE calls
    calls,         \* their number
    devices,       \* state->devices: entries [dev, sb]
    task,          \* state->thawTask: "idle", its "timer" runs, or it is "queued"
    lock,          \* state->lock
    gFreezeLock,
    gFreezeCount,
    pc,            \* what each caller, and the work item of each file, does
    fd,            \* per caller: the file it works on
    paths,         \* per caller: paths still to be added
    pathList,      \* per caller: its pathList
    frozen,        \* per device: s_frozen, as a count
    others,        \* devices somebody else has frozen
    strange,       \* how often somebody else froze a device
    intruded,      \* somebody else has thawed a device the driver froze
    nested         \* TRUE: freeze_bdev counts freezes (Linux 2.6.29); FALSE: it waits

environment == <<others, strange, intruded, nested>>
vars == <<open, freezes, calls, devices, task, lock, gFreezeLock, gFreezeCount, pc, fd, paths, pathList,
          frozen, environment>>

Actors == Callers \cup Files      \* a file stands for its work item
FileOf(a) == IF a \in Files THEN a ELSE fd[a]

Init ==
    /\ open = [f \in Files |-> "closed"] /\ freezes = [f \in Files |-> 0] /\ calls = 0
    /\ devices = [f \in Files |-> <<>>] /\ task = [f \in Files |-> "idle"]
    /\ lock = [f \in Files |-> Nobody] /\ gFreezeLock = Nobody /\ gFreezeCount = 0
    /\ pc = [a \in Actors |-> "idle"] /\ fd = [c \in Callers |-> CHOOSE f \in Files : TRUE]
    /\ paths = [c \in Callers |-> <<>>] /\ pathList = [c \in Callers |-> <<>>]
    /\ frozen = [d \in Devices |-> 0]
    /\ others = {} /\ strange = 0 /\ intruded = FALSE /\ nested \in BOOLEAN

Goto(a, l) == pc' = [pc EXCEPT ![a] = l]
Unlock(f) == lock' = [lock EXCEPT ![f] = Nobody]

-----------------------------------------------------------------------------
(***************************************************************************)
(* VmSyncOpen.  A new state is in the state its constructor and its last    *)
(* user left it in.                                                         *)
(***************************************************************************)
Open(c, f) ==
    /\ pc[c] = "idle" /\ open[f] = "closed"
    /\ open' = [open EXCEPT ![f] = "open"]
    /\ UNCHANGED <<freezes, calls, devices, task, lock, gFreezeLock, gFreezeCount, pc, fd, paths, pathList, frozen,
                   environment>>

(***************************************************************************)
(* SYNC_IOC_FREEZE: VmSyncFreezeDevices.                                    *)
(***************************************************************************)
Freeze(c, f, ps) ==
    /\ pc[c] = "idle" /\ open[f] = "open"
    /\ calls < MaxFreezes
    /\ freezes' = [freezes EXCEPT ![f] = @ + 1] /\ calls' = calls + 1
    /\ fd' = [fd EXCEPT ![c] = f] /\ paths' = [paths EXCEPT ![c] = ps]
    /\ Goto(c, "freezeLock")
    /\ UNCHANGED <<open, devices, task, lock, gFreezeLock, gFreezeCount, pathList, frozen, environment>>

NoFreezeLock(c) == pc[c] = "freezeLock" /\ UNCHANGED gFreezeLock
TakeFreezeLock(c) == gFreezeLock = Nobody /\ gFreezeLock' = c

LockFreeze(c) ==
    /\ pc[c] = "freezeLock"
    /\ TakeFreezeLock(c)
    /\ Goto(c, "stateLock")
    /\ UNCHANGED <<open, freezes, calls, devices, task, lock, gFreezeCount, fd, paths, pathList, frozen,
                   environment>>

TakeLock(a, l) ==
    /\ lock[FileOf(a)] = Nobody
    /\ lock' = [lock EXCEPT ![FileOf(a)] = a]
    /\ Goto(a, l)

LockState(c) ==
    /\ pc[c] = "stateLock"
    /\ TakeLock(c, "add")
    /\ UNCHANGED <<open, freezes, calls, devices, task, gFreezeLock, gFreezeCount, fd, paths, pathList,
                   frozen, environment>>

AlreadyFrozen(d) == frozen[d] > 0

Listed(c, d) == \E i \in 1 .. Len(devices[fd[c]]) : devices[fd[c]][i].dev = d

(***************************************************************************)
(* VmSyncAddPath of the next path.  -EINVAL (no block device) is ignored;   *)
(* any other error, the failure to allocate an entry (oom) included, ends   *)
(* the loop.                                                                *)
(***************************************************************************)
AddPath(c, oom) ==
    LET d == DeviceOf[Head(paths[c])]
        new == d \in Devices /\ ~AlreadyFrozen(d) /\ ~Listed(c, d)
        ends == d = NoPath \/ (d \in Devices /\ AlreadyFrozen(d)) \/ oom
        adds == new /\ ~oom
    IN  /\ pc[c] = "add" /\ paths[c] # <<>> /\ (oom => new)
        /\ paths' = [paths EXCEPT ![c] = IF ends THEN <<>> ELSE Tail(@)]
        /\ pathList' = IF adds THEN [pathList EXCEPT ![c] = Append(@, d)] ELSE pathList
        /\ IF ends THEN Goto(c, "clean")
           ELSE IF Len(paths[c]) = 1 THEN Goto(c, "freeze") ELSE UNCHANGED pc
        /\ UNCHANGED <<open, freezes, calls, devices, task, lock, gFreezeLock, gFreezeCount, fd, frozen,
                       environment>>

Counted(sb) == IF sb THEN gFreezeCount + 1 ELSE gFreezeCount

FreezeDevice(c) ==
    LET d == Head(pathList[c])
        sb == d \notin NoSuper
    IN  /\ pc[c] = "freeze" /\ pathList[c] # <<>>
        /\ nested \/ frozen[d] = 0
        /\ frozen' = IF sb THEN [frozen EXCEPT ![d] = @ + 1] ELSE frozen
        /\ gFreezeCount' = Counted(sb)
        /\ devices' = [devices EXCEPT ![fd[c]] = Append(@, [dev |-> d, sb |-> sb])]
        /\ pathList' = [pathList EXCEPT ![c] = Tail(@)]
        /\ UNCHANGED <<open, freezes, calls, task, lock, gFreezeLock, pc, fd, paths, environment>>

Unlocks(c) == Unlock(fd[c]) /\ gFreezeLock' = Nobody

\* A path could not be added: the entries are freed, their nameidata is not released.
CleanList(c) ==
    /\ pc[c] = "clean"
    /\ pathList' = [pathList EXCEPT ![c] = <<>>]
    /\ Unlocks(c)
    /\ Goto(c, "idle")
    /\ UNCHANGED <<open, freezes, calls, devices, task, gFreezeCount, fd, paths, frozen, environment>>

AfterFreezeIdle(c) == "idle"
AfterFreeze(c) == "schedule"

UnlockFrozen(c) ==
    /\ pc[c] = "freeze" /\ pathList[c] = <<>>
    /\ Unlocks(c)
    /\ Goto(c, AfterFreeze(c))
    /\ UNCHANGED <<open, freezes, calls, devices, task, gFreezeCount, fd, paths, pathList, frozen, environment>>

\* schedule_delayed_work does nothing to an item that is already pending.
Schedule(c) ==
    /\ pc[c] = "schedule"
    /\ task' = [task EXCEPT ![fd[c]] = IF @ = "idle" THEN "timer" ELSE @]
    /\ Goto(c, "idle")
    /\ UNCHANGED <<open, freezes, calls, devices, lock, gFreezeLock, gFreezeCount, fd, paths, pathList,
                   frozen, environment>>

-----------------------------------------------------------------------------
(***************************************************************************)
(* SYNC_IOC_THAW, and the work item: its timer fires, the item is queued,   *)
(* and a kernel thread runs it.                                             *)
(***************************************************************************)
Thaw(c, f) ==
    /\ pc[c] = "idle" /\ open[f] = "open"
    /\ fd' = [fd EXCEPT ![c] = f]
    /\ Goto(c, "thawLock")
    /\ UNCHANGED <<open, freezes, calls, devices, task, lock, gFreezeLock, gFreezeCount, paths, pathList,
                   frozen, environment>>

Expire(f) ==
    /\ task[f] = "timer"
    /\ task' = [task EXCEPT ![f] = "queued"]
    /\ UNCHANGED <<open, freezes, calls, devices, lock, gFreezeLock, gFreezeCount, pc, fd, paths, pathList,
                   frozen, environment>>

WorkStarts(f) ==
    /\ task[f] = "queued" /\ pc[f] = "idle"
    /\ task' = [task EXCEPT ![f] = "idle"]
    /\ Goto(f, "thawLock")
    /\ UNCHANGED <<open, freezes, calls, devices, lock, gFreezeLock, gFreezeCount, fd, paths, pathList,
                   frozen, environment>>

(***************************************************************************)
(* VmSyncThawDevices: cancel_delayed_work stops a timer, but not an item    *)
(* that is queued or running.                                               *)
(***************************************************************************)
CancelTask(f) == IF task[f] = "timer" THEN [task EXCEPT ![f] = "idle"] ELSE task

ThawBegins(a) ==
    /\ pc[a] \in {"thawLock", "releaseLock"}
    /\ TakeLock(a, IF pc[a] = "thawLock" THEN "thaw" ELSE "release")
    /\ task' = CancelTask(FileOf(a))
    /\ UNCHANGED <<open, freezes, calls, devices, gFreezeLock, gFreezeCount, fd, paths, pathList, frozen,
                   environment>>

MustThawAlways(e) == e.sb
MustThaw(e) == e.sb /\ frozen[e.dev] > 0

ThawDevice(a) ==
    LET f == FileOf(a)
        e == Head(devices[f])
    IN  /\ pc[a] \in {"thaw", "release"} /\ devices[f] # <<>>
        /\ IF MustThaw(e)
           THEN frozen' = [frozen EXCEPT ![e.dev] = @ - 1] /\ gFreezeCount' = gFreezeCount - 1
           ELSE UNCHANGED <<frozen, gFreezeCount>>
        /\ devices' = [devices EXCEPT ![f] = Tail(@)]
        /\ UNCHANGED <<open, freezes, calls, task, lock, gFreezeLock, pc, fd, paths, pathList, environment>>

ThawEnds(a) ==
    LET f == FileOf(a)
    IN  /\ pc[a] \in {"thaw", "release"} /\ devices[f] = <<>>
        /\ Unlock(f)
        /\ open' = IF pc[a] = "release" THEN [open EXCEPT ![f] = "closed"] ELSE open
        /\ Goto(a, "idle")
        /\ UNCHANGED <<freezes, calls, devices, task, gFreezeLock, gFreezeCount, fd, paths, pathList, frozen,
                       environment>>

(***************************************************************************)
(* VmSyncRelease, called when the last user of the file is done with it: it *)
(* flushes the work queue unless it cancelled the item's timer, thaws and   *)
(* frees the state.                                                         *)
(***************************************************************************)
MustFlushNever(f) == f \notin Files
MustFlush(f) == task[f] # "timer"

Release(c, f) ==
    /\ pc[c] = "idle" /\ open[f] = "open"
    /\ \A b \in Callers : fd[b] = f => pc[b] = "idle"
    /\ open' = [open EXCEPT ![f] = "closing"]
    /\ fd' = [fd EXCEPT ![c] = f]
    /\ task' = CancelTask(f)
    /\ Goto(c, IF MustFlush(f) THEN "flush" ELSE "releaseLock")
    /\ UNCHANGED <<freezes, calls, devices, lock, gFreezeLock, gFreezeCount, paths, pathList, frozen, environment>>

Flushed(c) ==
    /\ pc[c] = "flush"
    /\ \A f \in Files : task[f] # "queued" /\ pc[f] = "idle"
    /\ Goto(c, "releaseLock")
    /\ UNCHANGED <<open, freezes, calls, devices, task, lock, gFreezeLock, gFreezeCount, fd, paths, pathList,
                   frozen, environment>>

-----------------------------------------------------------------------------
\* FIFREEZE and FITHAW by somebody else, who may also thaw what the driver froze.
OthersFreeze(d) ==
    /\ strange < MaxOthers /\ frozen[d] = 0 /\ d \notin NoSuper
    /\ frozen' = [frozen EXCEPT ![d] = 1]
    /\ others' = others \cup {d} /\ strange' = strange + 1
    /\ UNCHANGED <<open, freezes, calls, devices, task, lock, gFreezeLock, gFreezeCount, pc, fd, paths,
                   pathList, intruded, nested>>

OthersThaw(d) ==
    /\ d \in others
    /\ frozen' = [frozen EXCEPT ![d] = IF @ > 0 THEN @ - 1 ELSE @]
    /\ others' = others \ {d}
    /\ UNCHANGED <<open, freezes, calls, devices, task, lock, gFreezeLock, gFreezeCount, pc, fd, paths,
                   pathList, strange, intruded, nested>>

Intrude(d) ==
    /\ ~intruded /\ d \notin others /\ frozen[d] > 0 /\ strange < MaxOthers
    /\ frozen' = [frozen EXCEPT ![d] = @ - 1]
    /\ intruded' = TRUE /\ strange' = strange + 1
    /\ UNCHANGED <<open, freezes, calls, devices, task, lock, gFreezeLock, gFreezeCount, pc, fd, paths,
                   pathList, others, nested>>

FreezeStep(c) ==
    LockFreeze(c) \/ LockState(c) \/ (\E oom \in BOOLEAN : AddPath(c, oom)) \/ FreezeDevice(c) \/ CleanList(c)
    \/ UnlockFrozen(c) \/ Schedule(c)
ThawStep(a) == ThawBegins(a) \/ ThawDevice(a) \/ ThawEnds(a)

Next ==
    \/ \E c \in Callers :
          \/ \E f \in Files :
                Open(c, f) \/ Thaw(c, f) \/ Release(c, f) \/ \E ps \in PathLists : Freeze(c, f, ps)
          \/ FreezeStep(c) \/ Flushed(c)
    \/ \E f \in Files : Expire(f) \/ WorkStarts(f)
    \/ \E a \in Actors : ThawStep(a)
    \/ \E d \in Devices : OthersFreeze(d) \/ OthersThaw(d) \/ Intrude(d)

(***************************************************************************)
(* A call that has begun goes on, timers fire, the kernel runs its work     *)
(* queue, mutexes are granted in turn, and others thaw what they froze.     *)
(***************************************************************************)
Fairness ==
    /\ \A c \in Callers : /\ SF_vars(LockFreeze(c) \/ LockState(c) \/ ThawBegins(c))
                          /\ WF_vars(FreezeStep(c) \/ ThawStep(c) \/ Flushed(c))
    /\ \A f \in Files : SF_vars(ThawBegins(f)) /\ WF_vars(Expire(f) \/ WorkStarts(f) \/ ThawStep(f))
    /\ WF_vars(\E d \in Devices : OthersThaw(d))

Spec == Init /\ [][Next]_vars
FairSpec == Spec /\ Fairness
-----------------------------------------------------------------------------
Live(f) == open[f] # "closed"
Entries == UNION {{<<f, i>> : i \in 1 .. Len(devices[f])} : f \in Files}
At(x) == devices[x[1]][x[2]]
FrozenEntries == {x \in Entries : At(x).sb}

(***************************************************************************)
(* A device is in the list of one file only, and only once: gFreezeLock     *)
(* "make[s] sure that two different fds aren't allowed to freeze the same   *)
(* device".  (Unless somebody else thawed it meanwhile.)                    *)
(***************************************************************************)
FreezeOnce ==
    ~intruded => \A x, y \in FrozenEntries : At(x).dev = At(y).dev => x = y

(***************************************************************************)
(* The driver's devices are frozen and no others of its making are, and     *)
(* SYNC_IOC_QUERY "returns the number of block devices currently frozen by  *)
(* the driver", unless somebody else thawed one.  Even then no freeze is    *)
(* taken back twice.                                                        *)
(***************************************************************************)
CountMatches ==
    /\ \A d \in Devices : frozen[d] >= 0
    /\ ~intruded =>
         /\ gFreezeCount = Cardinality(FrozenEntries)
         /\ {d \in Devices : frozen[d] > 0} = {At(x).dev : x \in FrozenEntries} \cup others

(***************************************************************************)
(* A freed state is as its constructor left it, because the next VmSyncOpen *)
(* gets it from the slab without another call of the constructor, and its   *)
(* work item is neither queued nor running; as long as the file is used for *)
(* one freeze, as VmSync_Freeze does.                                       *)
(***************************************************************************)
FreedClean ==
    \A f \in Files : freezes[f] <= 1 /\ ~Live(f) =>
        devices[f] = <<>> /\ lock[f] = Nobody /\ task[f] = "idle" /\ pc[f] = "idle"

(***************************************************************************)
(* After VmSyncRelease the thaw task is cancelled for good ("Devices are    *)
(* thawed, thaw task is cancelled"), however the file was used.             *)
(***************************************************************************)
ThawTaskCancelled == \A f \in Files : ~Live(f) => task[f] = "idle" /\ pc[f] = "idle"

(***************************************************************************)
(* Whatever the callers do, a frozen device is thawed again: by its file's  *)
(* users, or by the work item 30 seconds later.                             *)
(***************************************************************************)
FrozenThawed == \A d \in Devices \ NoSuper : frozen[d] > 0 ~> frozen[d] = 0
=============================================================================
