---------------------------- MODULE VmSyncLists -----------------------------
(***************************************************************************)
(* The parts of the inductive invariant of the vmsync driver (module       *)
(* VmSync), and the proofs of those about types, locks and the lists of    *)
(* devices: what is in them, in which of them, and how often.              *)
(***************************************************************************)
EXTENDS VmSync, TLAPS

-----------------------------------------------------------------------------
(* The parts of the inductive invariant.                                    *)

Entry == [dev : Devices, sb : BOOLEAN]
Pcs == {"idle", "freezeLock", "stateLock", "add", "freeze", "clean", "schedule",
        "thawLock", "thaw", "flush", "releaseLock", "release"}

TypeFile ==
    /\ open \in [Files -> {"closed", "open", "closing"}] /\ freezes \in [Files -> Nat]
    /\ task \in [Files -> {"idle", "timer", "queued"}] /\ lock \in [Files -> Actors \cup {Nobody}]

TypeCall ==
    /\ pc \in [Actors -> Pcs] /\ \A f \in Files : pc[f] \in {"idle", "thawLock", "thaw"}
    /\ fd \in [Callers -> Files]

TypeList ==
    /\ devices \in [Files -> Seq(Entry)] /\ pathList \in [Callers -> Seq(Devices)]
    /\ paths \in [Callers -> Seq(DOMAIN DeviceOf)]

TypeCount ==
    /\ frozen \in [Devices -> Nat] /\ gFreezeCount \in Int /\ others \subseteq Devices
    /\ intruded \in BOOLEAN

TypeOK == TypeFile /\ TypeCall /\ TypeList /\ TypeCount

\* The entries of devices of T that hold a freeze.
Within(T) == {x \in FrozenEntries : At(x).dev \in T}

\* What is listed is frozen.
ListedInv == ~intruded => \A x \in FrozenEntries : frozen[At(x).dev] > 0

\* Who is between taking and dropping gFreezeLock, state->lock.
FreezeLocked == {"stateLock", "add", "freeze", "clean"}
Locked == {"add", "freeze", "clean", "thaw", "release"}

LockInv ==
    /\ \A c \in Callers : pc[c] \in FreezeLocked => gFreezeLock = c
    /\ \A c \in Callers : pathList[c] # <<>> => pc[c] \in FreezeLocked
    /\ \A f \in Files : lock[f] # Nobody => FileOf(lock[f]) = f /\ pc[lock[f]] \in Locked

\* A device is in the list of one file only, and while a call is about to freeze it, in no list but
\* that of its file.
OneFile == ~intruded => \A x, y \in FrozenEntries : At(x).dev = At(y).dev => x[1] = y[1]

Pending(c) == {pathList[c][i] : i \in 1 .. Len(pathList[c])}

FileInv ==
    /\ OneFile
    /\ ~intruded => \A c \in Callers, x \in FrozenEntries : At(x).dev \in Pending(c) => x[1] = fd[c]

\* No call names two paths on one device.
DistinctDevices ==
    \A ps \in PathLists : \A i, j \in 1 .. Len(ps) :
        DeviceOf[ps[i]] = DeviceOf[ps[j]] /\ DeviceOf[ps[i]] \in Devices => i = j

\* Then a device goes from the paths of a call to its pathList to the list of its file once.
PathsOnce(c) ==
    \A i, j \in 1 .. Len(paths[c]) :
        DeviceOf[paths[c][i]] = DeviceOf[paths[c][j]] /\ DeviceOf[paths[c][i]] \in Devices => i = j
PathListOnce(c) == \A i, j \in 1 .. Len(pathList[c]) : pathList[c][i] = pathList[c][j] => i = j

OnceInv ==
    DistinctDevices =>
        /\ \A c \in Callers :
               /\ PathsOnce(c) /\ PathListOnce(c)
               /\ \A i \in 1 .. Len(paths[c]) : DeviceOf[paths[c][i]] \notin Pending(c)
               /\ ~intruded => \A x \in FrozenEntries : At(x).dev \notin Pending(c)
        /\ FreezeOnce

Freezing == {"freezeLock", "stateLock", "add", "freeze", "clean", "schedule"}
Releasing == {"flush", "releaseLock", "release"}

\* Nobody uses a file that is closed, and one call only a file that is being closed.
UseInv ==
    /\ \A f \in Files : open[f] = "closed" => devices[f] = <<>>
    /\ \A c \in Callers : pc[c] # "idle" =>
           open[fd[c]] = IF pc[c] \in Releasing THEN "closing" ELSE "open"
    /\ \A b, c \in Callers :
           fd[b] = fd[c] /\ pc[b] \in Releasing /\ pc[c] \in Releasing => b = c

\* One freeze makes one work item, which a release cancels or waits for.
ItemFile(f) ==
    freezes[f] <= 1 =>
        /\ task[f] # "idle" => pc[f] = "idle"
        /\ freezes[f] = 0 \/ open[f] = "closed" => task[f] = "idle" /\ pc[f] = "idle"

ItemCall(c) ==
    freezes[fd[c]] <= 1 =>
        /\ pc[c] \in Freezing => freezes[fd[c]] = 1
        /\ pc[c] \in Freezing \cup {"releaseLock", "release"} =>
               task[fd[c]] = "idle" /\ pc[fd[c]] = "idle"
        /\ pc[c] = "flush" => task[fd[c]] # "timer"

ItemInv ==
    /\ \A f \in Files : ItemFile(f)
    /\ \A c \in Callers : ItemCall(c)
    /\ \A b, c \in Callers :
           freezes[fd[c]] <= 1 /\ fd[b] = fd[c] /\ pc[b] \in Freezing /\ pc[c] \in Freezing => b = c

-----------------------------------------------------------------------------
(* The lists: an entry is appended at the end, and the first is removed.    *)

LEMMA EntryIn ==
    ASSUME TypeOK, NEW x
    PROVE  /\ x \in FrozenEntries <=> \E f \in Files : \E i \in 1 .. Len(devices[f]) :
                                          x = <<f, i>> /\ devices[f][i].sb
           /\ x \in FrozenEntries => At(x).dev \in Devices
<1>1. x \in FrozenEntries <=> \E f \in Files : \E i \in 1 .. Len(devices[f]) :
                                  x = <<f, i>> /\ devices[f][i].sb
  BY DEF FrozenEntries, Entries, At
<1>2. ASSUME NEW f \in Files, NEW i \in 1 .. Len(devices[f]) PROVE devices[f][i] \in Entry
  BY DEF TypeOK, TypeList
<1> QED BY <1>1, <1>2 DEF At, Entry

LEMMA AppendEntries ==
    ASSUME TypeOK, NEW f \in Files, NEW e \in Entry, NEW n, n = Len(devices[f]) + 1,
           devices' = [devices EXCEPT ![f] = Append(@, e)]
    PROVE  /\ <<f, n>> \notin FrozenEntries /\ At(<<f, n>>)' = e
           /\ \A x \in FrozenEntries : At(x)' = At(x)
           /\ FrozenEntries' = FrozenEntries \cup (IF e.sb THEN {<<f, n>>} ELSE {})
<1>1. devices[f] \in Seq(Entry) /\ n \in Nat
  BY DEF TypeOK, TypeList
<1>2. /\ Len(devices'[f]) = n /\ devices'[f][n] = e
      /\ \A i \in 1 .. Len(devices[f]) : devices'[f][i] = devices[f][i]
      /\ \A g \in Files \ {f} : devices'[g] = devices[g]
  BY <1>1 DEF TypeOK, TypeList
<1>3. <<f, n>> \notin FrozenEntries
  BY <1>1, EntryIn
<1>4. ASSUME NEW x \in FrozenEntries PROVE x \in FrozenEntries' /\ At(x)' = At(x)
  <2>1. PICK g \in Files, i \in Nat : i \in 1 .. Len(devices[g]) /\ x = <<g, i>> /\ devices[g][i].sb
    BY <1>4, EntryIn
  <2>2. i \in 1 .. Len(devices'[g]) /\ devices'[g][i] = devices[g][i]
    BY <1>1, <1>2, <2>1
  <2> QED BY <2>1, <2>2 DEF FrozenEntries, Entries, At
<1>5. ASSUME NEW x \in FrozenEntries' PROVE x \in FrozenEntries \/ (e.sb /\ x = <<f, n>>)
  <2>1. PICK g \in Files, i \in Nat : i \in 1 .. Len(devices'[g]) /\ x = <<g, i>> /\ devices'[g][i].sb
    BY <1>5 DEF FrozenEntries, Entries, At
  <2>2. (g = f /\ i = n) \/ (i \in 1 .. Len(devices[g]) /\ devices'[g][i] = devices[g][i])
    BY <1>1, <1>2, <2>1
  <2> QED BY <1>2, <2>1, <2>2, EntryIn
<1>6. e.sb => <<f, n>> \in FrozenEntries'
  BY <1>1, <1>2 DEF FrozenEntries, Entries, At
<1>7. At(<<f, n>>)' = e
  BY <1>2 DEF At
<1> QED BY <1>3, <1>4, <1>5, <1>6, <1>7

\* Where the entry x was before the first one of file f went.
Before(f, x) == IF x[1] = f THEN <<f, x[2] + 1>> ELSE x

LEMMA TailEntries ==
    ASSUME TypeOK, NEW f \in Files, devices[f] # <<>>,
           devices' = [devices EXCEPT ![f] = Tail(@)]
    PROVE  /\ \A x \in FrozenEntries' :
                  /\ Before(f, x) \in FrozenEntries \ {<<f, 1>>} /\ Before(f, x)[1] = x[1]
                  /\ At(x)' = At(Before(f, x))
           /\ \A x, y \in FrozenEntries' : Before(f, x) = Before(f, y) => x = y
           /\ \A y \in FrozenEntries \ {<<f, 1>>} : \E x \in FrozenEntries' : y = Before(f, x)
           /\ <<f, 1>> \in FrozenEntries <=> Head(devices[f]).sb
           /\ At(<<f, 1>>) = Head(devices[f])
<1>1. devices[f] \in Seq(Entry) /\ Len(devices[f]) \in Nat \ {0}
  BY DEF TypeOK, TypeList
<1>2. /\ Len(devices'[f]) = Len(devices[f]) - 1
      /\ \A i \in 1 .. Len(devices'[f]) : devices'[f][i] = devices[f][i + 1]
      /\ \A g \in Files \ {f} : devices'[g] = devices[g]
      /\ Head(devices[f]) = devices[f][1]
  BY <1>1 DEF TypeOK, TypeList
<1>3. ASSUME NEW x \in FrozenEntries'
      PROVE  /\ x[1] \in Files /\ x[2] \in Nat \ {0} /\ x = <<x[1], x[2]>>
             /\ Before(f, x) \in FrozenEntries \ {<<f, 1>>}
             /\ Before(f, x)[1] = x[1] /\ At(x)' = At(Before(f, x))
  <2>1. PICK g \in Files, i \in Nat : i \in 1 .. Len(devices'[g]) /\ x = <<g, i>> /\ devices'[g][i].sb
    BY <1>3 DEF FrozenEntries, Entries, At
  <2>2. CASE g = f
    <3>1. Before(f, x) = <<f, i + 1>> /\ i + 1 \in 1 .. Len(devices[f]) /\ i + 1 # 1
      BY <1>1, <1>2, <2>1, <2>2 DEF Before
    <3>2. devices'[f][i] = devices[f][i + 1]
      BY <1>2, <2>1, <2>2
    <3> QED BY <2>1, <2>2, <3>1, <3>2, EntryIn DEF At
  <2>3. CASE g # f
    <3>1. Before(f, x) = x /\ devices'[g] = devices[g]
      BY <1>2, <2>1, <2>3 DEF Before
    <3> QED BY <2>1, <2>3, <3>1, EntryIn DEF At
  <2> QED BY <2>2, <2>3
<1>4. ASSUME NEW x \in FrozenEntries', NEW y \in FrozenEntries', Before(f, x) = Before(f, y)
      PROVE  x = y
  <2>1. x[1] = y[1] /\ x = <<x[1], x[2]>> /\ y = <<y[1], y[2]>> /\ x[2] \in Nat /\ y[2] \in Nat
    BY <1>3, <1>4
  <2>2. x[2] = y[2]
    BY <1>4, <2>1 DEF Before
  <2> QED BY <2>1, <2>2
<1>5. ASSUME NEW y \in FrozenEntries \ {<<f, 1>>} PROVE \E x \in FrozenEntries' : y = Before(f, x)
  <2>1. PICK g \in Files, i \in Nat : i \in 1 .. Len(devices[g]) /\ y = <<g, i>> /\ devices[g][i].sb
    BY <1>5, EntryIn
  <2>2. CASE g = f
    <3>1. i - 1 \in 1 .. Len(devices'[f]) /\ devices'[f][i - 1] = devices[f][i]
      BY <1>1, <1>2, <1>5, <2>1, <2>2
    <3>2. <<f, i - 1>> \in FrozenEntries'
      BY <2>1, <2>2, <3>1 DEF FrozenEntries, Entries, At
    <3>3. Before(f, <<f, i - 1>>) = y
      BY <2>1, <2>2 DEF Before
    <3> QED BY <3>2, <3>3
  <2>3. CASE g # f
    <3>1. y \in FrozenEntries'
      BY <1>2, <2>1, <2>3 DEF FrozenEntries, Entries, At
    <3>2. Before(f, y) = y
      BY <2>1, <2>3 DEF Before
    <3> QED BY <3>1, <3>2
  <2> QED BY <2>2, <2>3
<1>6. <<f, 1>> \in FrozenEntries <=> Head(devices[f]).sb
  <2>1. <<f, 1>> \in FrozenEntries <=> devices[f][1].sb
    BY <1>1, EntryIn
  <2> QED BY <1>2, <2>1
<1>7. At(<<f, 1>>) = Head(devices[f])
  BY <1>2 DEF At
<1> QED BY <1>3, <1>4, <1>5, <1>6, <1>7

-----------------------------------------------------------------------------
(* Which steps change the lists and the counts.                             *)

LEMMA ListsKept ==
    ASSUME Next
    PROVE  \/ UNCHANGED <<devices, pathList, paths>>
           \/ \E c \in Callers, f \in Files, ps \in PathLists : Freeze(c, f, ps)
           \/ \E c \in Callers, oom \in BOOLEAN : AddPath(c, oom)
           \/ \E c \in Callers : FreezeDevice(c) \/ CleanList(c)
           \/ \E a \in Actors : ThawDevice(a)
<1>1. ASSUME NEW c \in Callers, NEW f \in Files, Open(c, f) \/ Thaw(c, f) \/ Release(c, f)
      PROVE  UNCHANGED <<devices, pathList, paths>>
  BY <1>1, Zenon DEF Open, Thaw, Release
<1>2. ASSUME NEW c \in Callers, LockFreeze(c) \/ LockState(c) \/ UnlockFrozen(c) \/ Schedule(c)
                                \/ Flushed(c)
      PROVE  UNCHANGED <<devices, pathList, paths>>
  BY <1>2, Zenon DEF LockFreeze, LockState, UnlockFrozen, Schedule, Flushed
<1>3. ASSUME NEW f \in Files, Expire(f) \/ WorkStarts(f)
      PROVE  UNCHANGED <<devices, pathList, paths>>
  BY <1>3, Zenon DEF Expire, WorkStarts
<1>4. ASSUME NEW a \in Actors, ThawBegins(a) \/ ThawEnds(a)
      PROVE  UNCHANGED <<devices, pathList, paths>>
  BY <1>4, Zenon DEF ThawBegins, ThawEnds
<1>5. ASSUME NEW d \in Devices, OthersFreeze(d) \/ OthersThaw(d) \/ Intrude(d)
      PROVE  UNCHANGED <<devices, pathList, paths>>
  BY <1>5, Zenon DEF OthersFreeze, OthersThaw, Intrude
<1> QED BY <1>1, <1>2, <1>3, <1>4, <1>5, Zenon DEF Next, FreezeStep, ThawStep

LEMMA CountsKept ==
    ASSUME Next
    PROVE  \/ UNCHANGED <<frozen, gFreezeCount, environment>>
           \/ \E c \in Callers : FreezeDevice(c)
           \/ \E a \in Actors : ThawDevice(a)
           \/ \E d \in Devices : OthersFreeze(d) \/ OthersThaw(d) \/ Intrude(d)
<1>1. ASSUME NEW c \in Callers, NEW f \in Files,
             Open(c, f) \/ Thaw(c, f) \/ Release(c, f) \/ \E ps \in PathLists : Freeze(c, f, ps)
      PROVE  UNCHANGED <<frozen, gFreezeCount, environment>>
  BY <1>1, Zenon DEF Open, Thaw, Release, Freeze
<1>2. ASSUME NEW c \in Callers, LockFreeze(c) \/ LockState(c) \/ CleanList(c) \/ UnlockFrozen(c)
                                \/ Schedule(c) \/ Flushed(c) \/ \E oom \in BOOLEAN : AddPath(c, oom)
      PROVE  UNCHANGED <<frozen, gFreezeCount, environment>>
  BY <1>2, Zenon DEF LockFreeze, LockState, CleanList, UnlockFrozen, Schedule, Flushed, AddPath
<1>3. ASSUME NEW f \in Files, Expire(f) \/ WorkStarts(f)
      PROVE  UNCHANGED <<frozen, gFreezeCount, environment>>
  BY <1>3, Zenon DEF Expire, WorkStarts
<1>4. ASSUME NEW a \in Actors, ThawBegins(a) \/ ThawEnds(a)
      PROVE  UNCHANGED <<frozen, gFreezeCount, environment>>
  BY <1>4, Zenon DEF ThawBegins, ThawEnds
<1> QED BY <1>1, <1>2, <1>3, <1>4, Zenon DEF Next, FreezeStep, ThawStep

LEMMA DevicesKept ==
    ASSUME Next
    PROVE  devices' = devices \/ (\E c \in Callers : FreezeDevice(c)) \/ \E a \in Actors : ThawDevice(a)
<1>1. \A c \in Callers, f \in Files, ps \in PathLists : Freeze(c, f, ps) => devices' = devices
  BY Zenon DEF Freeze
<1>2. \A c \in Callers, oom \in BOOLEAN : AddPath(c, oom) => devices' = devices
  BY Zenon DEF AddPath
<1>3. \A c \in Callers : CleanList(c) => devices' = devices
  BY Zenon DEF CleanList
<1> QED BY <1>1, <1>2, <1>3, ListsKept, Zenon

LEMMA EntriesKept ==
    ASSUME devices' = devices
    PROVE  FrozenEntries' = FrozenEntries /\ \A x : At(x)' = At(x)
  BY DEF FrozenEntries, Entries, At

LEMMA IntrudedKept ==
    ASSUME Next, intruded
    PROVE  intruded'
<1>1. \A c \in Callers : FreezeDevice(c) => intruded'
  BY Zenon DEF FreezeDevice, environment
<1>2. \A a \in Actors : ThawDevice(a) => intruded'
  BY Zenon DEF ThawDevice, environment
<1>3. \A d \in Devices : OthersFreeze(d) \/ OthersThaw(d) \/ Intrude(d) => intruded'
  BY Zenon DEF OthersFreeze, OthersThaw, Intrude
<1> QED BY <1>1, <1>2, <1>3, CountsKept, Zenon DEF environment

LEMMA OpenKept ==
    ASSUME Next
    PROVE  \/ open' = open
           \/ \E c \in Callers, f \in Files : Open(c, f) \/ Release(c, f)
           \/ \E a \in Actors : ThawEnds(a)
<1>1. ASSUME NEW c \in Callers, NEW f \in Files, Thaw(c, f) \/ \E ps \in PathLists : Freeze(c, f, ps)
      PROVE  open' = open
  BY <1>1, Zenon DEF Thaw, Freeze
<1>2. ASSUME NEW c \in Callers, FreezeStep(c) \/ Flushed(c) PROVE open' = open
  BY <1>2, Zenon DEF FreezeStep, LockFreeze, LockState, AddPath, FreezeDevice, CleanList,
                     UnlockFrozen, Schedule, Flushed
<1>3. ASSUME NEW f \in Files, Expire(f) \/ WorkStarts(f) PROVE open' = open
  BY <1>3, Zenon DEF Expire, WorkStarts
<1>4. ASSUME NEW a \in Actors, ThawBegins(a) \/ ThawDevice(a) PROVE open' = open
  BY <1>4, Zenon DEF ThawBegins, ThawDevice
<1>5. ASSUME NEW d \in Devices, OthersFreeze(d) \/ OthersThaw(d) \/ Intrude(d) PROVE open' = open
  BY <1>5, Zenon DEF OthersFreeze, OthersThaw, Intrude
<1> QED BY <1>1, <1>2, <1>3, <1>4, <1>5, Zenon DEF Next, ThawStep

-----------------------------------------------------------------------------
(* Each step keeps the types.                                               *)

LEMMA TypeFileStep ==
    ASSUME TypeOK, Next
    PROVE  TypeFile'
<1>1. ASSUME NEW a \in Actors PROVE FileOf(a) \in Files
  BY <1>1 DEF FileOf, TypeOK, TypeCall, Actors
<1>2. ASSUME NEW f \in Files
      PROVE  /\ CancelTask(f) \in [Files -> {"idle", "timer", "queued"}]
             /\ Unlock(f) => lock' \in [Files -> Actors \cup {Nobody}]
  BY DEF CancelTask, Unlock, TypeOK, TypeFile
<1>3. ASSUME NEW c \in Callers, NEW f \in Files, Open(c, f) \/ Thaw(c, f) PROVE TypeFile'
  BY <1>3 DEF Open, Thaw, TypeOK, TypeFile
<1>4. ASSUME NEW c \in Callers, NEW f \in Files, Release(c, f) PROVE TypeFile'
  BY <1>2, <1>4 DEF Release, TypeOK, TypeFile
<1>5. ASSUME NEW c \in Callers, NEW f \in Files, NEW ps \in PathLists, Freeze(c, f, ps)
      PROVE  TypeFile'
  BY <1>5 DEF Freeze, TypeOK, TypeFile
<1>6. ASSUME NEW c \in Callers, LockFreeze(c) \/ FreezeDevice(c) \/ Flushed(c)
                                \/ \E oom \in BOOLEAN : AddPath(c, oom)
      PROVE  TypeFile'
  <2>1. UNCHANGED <<open, freezes, task, lock>>
    BY <1>6, Zenon DEF LockFreeze, FreezeDevice, Flushed, AddPath
  <2> QED BY <2>1 DEF TypeOK, TypeFile
<1>7. ASSUME NEW c \in Callers, LockState(c) PROVE TypeFile'
  BY <1>7, Zenon DEF LockState, TakeLock, Actors, TypeOK, TypeFile
<1>8. ASSUME NEW c \in Callers, CleanList(c) \/ UnlockFrozen(c) PROVE TypeFile'
  BY <1>8, Zenon DEF CleanList, UnlockFrozen, Unlocks, Unlock, TypeOK, TypeFile
<1>9. ASSUME NEW c \in Callers, Schedule(c) PROVE TypeFile'
  BY <1>9, Zenon DEF Schedule, TypeOK, TypeFile
<1>10. ASSUME NEW f \in Files, Expire(f) \/ WorkStarts(f) PROVE TypeFile'
  BY <1>10 DEF Expire, WorkStarts, TypeOK, TypeFile
<1>11. ASSUME NEW a \in Actors, ThawBegins(a) PROVE TypeFile'
  BY <1>1, <1>2, <1>11 DEF ThawBegins, TakeLock, TypeOK, TypeFile
<1>12. ASSUME NEW a \in Actors, ThawDevice(a) PROVE TypeFile'
  BY <1>12 DEF ThawDevice, TypeOK, TypeFile
<1>13. ASSUME NEW a \in Actors, ThawEnds(a) PROVE TypeFile'
  BY <1>1, <1>2, <1>13 DEF ThawEnds, TypeOK, TypeFile
<1>14. ASSUME NEW d \in Devices, OthersFreeze(d) \/ OthersThaw(d) \/ Intrude(d) PROVE TypeFile'
  BY <1>14 DEF OthersFreeze, OthersThaw, Intrude, TypeOK, TypeFile
<1> QED BY <1>3, <1>4, <1>5, <1>6, <1>7, <1>8, <1>9, <1>10, <1>11, <1>12, <1>13, <1>14, Zenon
        DEF Next, FreezeStep, ThawStep

LEMMA TypeCallStep ==
    ASSUME TypeOK, Next
    PROVE  TypeCall'
<1>1. ASSUME NEW c \in Callers, NEW l \in Pcs, Goto(c, l), fd' \in [Callers -> Files]
      PROVE  TypeCall'
  BY <1>1, VmSyncAssumption DEF Goto, TypeOK, TypeCall, Actors
<1>2. ASSUME NEW f \in Files, NEW l \in {"idle", "thawLock", "thaw"}, Goto(f, l), UNCHANGED fd
      PROVE  TypeCall'
  BY <1>2 DEF Goto, TypeOK, TypeCall, Actors, Pcs
<1>3. fd \in [Callers -> Files]
  BY DEF TypeOK, TypeCall
<1>4. ASSUME NEW c \in Callers, NEW f \in Files, Thaw(c, f) \/ Release(c, f) PROVE TypeCall'
  BY <1>1, <1>3, <1>4 DEF Thaw, Release, Pcs
<1>5. ASSUME NEW c \in Callers, NEW f \in Files, NEW ps \in PathLists, Freeze(c, f, ps)
      PROVE  TypeCall'
  BY <1>1, <1>3, <1>5 DEF Freeze, Pcs
<1>6. ASSUME NEW c \in Callers, LockFreeze(c) \/ LockState(c) \/ Schedule(c) \/ Flushed(c)
      PROVE  TypeCall'
  BY <1>1, <1>3, <1>6 DEF LockFreeze, LockState, TakeLock, Schedule, Flushed, Pcs
<1>7. ASSUME NEW c \in Callers, CleanList(c) \/ UnlockFrozen(c) PROVE TypeCall'
  BY <1>1, <1>3, <1>7 DEF CleanList, UnlockFrozen, AfterFreeze, Pcs
<1>8. ASSUME NEW c \in Callers, NEW oom \in BOOLEAN, AddPath(c, oom) PROVE TypeCall'
  <2>1. UNCHANGED fd /\ (UNCHANGED pc \/ Goto(c, "clean") \/ Goto(c, "freeze"))
    BY <1>8, Zenon DEF AddPath
  <2> QED BY <1>1, <1>3, <2>1 DEF Pcs, TypeOK, TypeCall
<1>9. ASSUME NEW f \in Files, WorkStarts(f) PROVE TypeCall'
  BY <1>2, <1>9 DEF WorkStarts
<1>10. ASSUME NEW a \in Actors, ThawBegins(a) \/ ThawEnds(a) PROVE TypeCall'
  <2>1. UNCHANGED fd /\ pc[a] \in {"thawLock", "releaseLock", "thaw", "release"}
        /\ \/ Goto(a, "idle")
           \/ pc[a] = "thawLock" /\ Goto(a, "thaw")
           \/ pc[a] = "releaseLock" /\ Goto(a, "release")
    BY <1>10, Zenon DEF ThawBegins, ThawEnds, TakeLock
  <2>2. CASE a \in Callers
    BY <1>1, <1>3, <2>1, <2>2 DEF Pcs
  <2>3. CASE a \in Files
    BY <1>2, <2>1, <2>3 DEF TypeOK, TypeCall
  <2> QED BY <2>2, <2>3 DEF Actors
<1>11. ASSUME UNCHANGED <<pc, fd>> PROVE TypeCall'
  BY <1>11 DEF TypeOK, TypeCall
<1>12. ASSUME NEW c \in Callers, FreezeDevice(c) \/ \E f \in Files : Open(c, f)
       PROVE  UNCHANGED <<pc, fd>>
  BY <1>12, Zenon DEF FreezeDevice, Open
<1>13. ASSUME NEW d \in Devices, OthersFreeze(d) \/ OthersThaw(d) \/ Intrude(d)
       PROVE  UNCHANGED <<pc, fd>>
  BY <1>13, Zenon DEF OthersFreeze, OthersThaw, Intrude
<1>14. (\A a \in Actors : ThawDevice(a) => UNCHANGED <<pc, fd>>)
       /\ (\A f \in Files : Expire(f) => UNCHANGED <<pc, fd>>)
  BY Zenon DEF ThawDevice, Expire
<1> QED BY <1>4, <1>5, <1>6, <1>7, <1>8, <1>9, <1>10, <1>11, <1>12, <1>13, <1>14, Zenon
        DEF Next, FreezeStep, ThawStep

LEMMA TypeListStep ==
    ASSUME TypeOK, Next
    PROVE  TypeList'
<1>1. ASSUME NEW c \in Callers, NEW f \in Files, NEW ps \in PathLists, Freeze(c, f, ps)
      PROVE  TypeList'
  <2>1. ps \in Seq(DOMAIN DeviceOf)
    BY VmSyncAssumption
  <2> QED BY <1>1, <2>1 DEF Freeze, TypeOK, TypeList
<1>2. ASSUME NEW c \in Callers, NEW oom \in BOOLEAN, AddPath(c, oom) PROVE TypeList'
  <2>1. paths[c] \in Seq(DOMAIN DeviceOf) /\ paths[c] # <<>> /\ pathList[c] \in Seq(Devices)
    BY <1>2 DEF AddPath, TypeOK, TypeList
  <2>2. paths' = [paths EXCEPT ![c] = <<>>] \/ paths' = [paths EXCEPT ![c] = Tail(@)]
    BY <1>2, Zenon DEF AddPath
  <2>3. paths' \in [Callers -> Seq(DOMAIN DeviceOf)]
    <3>1. <<>> \in Seq(DOMAIN DeviceOf) /\ Tail(paths[c]) \in Seq(DOMAIN DeviceOf)
      <4>1. \A S : \A s \in Seq(S) : s # <<>> => Tail(s) \in Seq(S)
        OBVIOUS
      <4>2. \A S : <<>> \in Seq(S)
        OBVIOUS
      <4> QED BY <2>1, <4>1, <4>2, Zenon
    <3> QED BY <2>2, <3>1, Zenon DEF TypeOK, TypeList
  <2>4. pathList' = pathList \/ \E d \in Devices : pathList' = [pathList EXCEPT ![c] = Append(@, d)]
    BY <1>2, Zenon DEF AddPath
  <2>5. pathList' \in [Callers -> Seq(Devices)]
    <3>1. \A d \in Devices : Append(pathList[c], d) \in Seq(Devices)
      BY <2>1
    <3> QED BY <2>4, <3>1, Zenon DEF TypeOK, TypeList
  <2>6. devices' = devices
    BY <1>2 DEF AddPath
  <2> QED BY <2>3, <2>5, <2>6 DEF TypeOK, TypeList
<1>3. ASSUME NEW c \in Callers, FreezeDevice(c) PROVE TypeList'
  <2>1. pathList[c] \in Seq(Devices) /\ pathList[c] # <<>> /\ fd[c] \in Files
        /\ devices[fd[c]] \in Seq(Entry)
    BY <1>3 DEF FreezeDevice, TypeOK, TypeList, TypeCall
  <2>2. PICK e \in Entry : devices' = [devices EXCEPT ![fd[c]] = Append(@, e)]
    <3>1. Head(pathList[c]) \in Devices
      BY <2>1
    <3>2. [dev |-> Head(pathList[c]), sb |-> Head(pathList[c]) \notin NoSuper] \in Entry
      BY <3>1 DEF Entry
    <3> QED BY <1>3, <3>2, Zenon DEF FreezeDevice
  <2>3. devices' \in [Files -> Seq(Entry)]
    BY <2>1, <2>2 DEF TypeOK, TypeList
  <2> QED BY <1>3, <2>1, <2>3 DEF FreezeDevice, TypeOK, TypeList
<1>4. ASSUME NEW c \in Callers, CleanList(c) PROVE TypeList'
  BY <1>4 DEF CleanList, TypeOK, TypeList
<1>5. ASSUME NEW a \in Actors, ThawDevice(a) PROVE TypeList'
  <2>1. FileOf(a) \in Files
    BY DEF FileOf, TypeOK, TypeCall, Actors
  <2>2. devices[FileOf(a)] \in Seq(Entry) /\ devices[FileOf(a)] # <<>>
        /\ devices' = [devices EXCEPT ![FileOf(a)] = Tail(@)] /\ UNCHANGED <<paths, pathList>>
    BY <1>5, <2>1 DEF ThawDevice, TypeOK, TypeList
  <2> QED BY <2>1, <2>2 DEF TypeOK, TypeList
<1>6. ASSUME UNCHANGED <<devices, pathList, paths>> PROVE TypeList'
  BY <1>6 DEF TypeOK, TypeList
<1> QED BY <1>1, <1>2, <1>3, <1>4, <1>5, <1>6, ListsKept, Zenon

LEMMA TypeCountStep ==
    ASSUME TypeOK, Next
    PROVE  TypeCount'
<1>1. ASSUME NEW c \in Callers, FreezeDevice(c) PROVE TypeCount'
  <2>1. Head(pathList[c]) \in Devices
    BY <1>1 DEF FreezeDevice, TypeOK, TypeList
  <2> QED BY <1>1, <2>1 DEF FreezeDevice, Counted, environment, TypeOK, TypeCount
<1>2. ASSUME NEW a \in Actors, ThawDevice(a) PROVE TypeCount'
  <2>1. FileOf(a) \in Files
    BY DEF FileOf, TypeOK, TypeCall, Actors
  <2>2. Head(devices[FileOf(a)]) \in Entry
    BY <1>2, <2>1 DEF ThawDevice, TypeOK, TypeList
  <2>3. PICK d \in Devices :
            \/ frozen' = [frozen EXCEPT ![d] = @ - 1] /\ frozen[d] > 0
               /\ gFreezeCount' = gFreezeCount - 1
            \/ UNCHANGED <<frozen, gFreezeCount>>
    BY <1>2, <2>2 DEF ThawDevice, MustThaw, Entry
  <2> QED BY <1>2, <2>3 DEF ThawDevice, environment, TypeOK, TypeCount
<1>3. ASSUME NEW d \in Devices, OthersFreeze(d) \/ OthersThaw(d) \/ Intrude(d) PROVE TypeCount'
  <2>1. frozen[d] + 1 \in Nat /\ (frozen[d] > 0 => frozen[d] - 1 \in Nat)
    BY DEF TypeOK, TypeCount
  <2>2. CASE OthersFreeze(d)
    BY <2>2 DEF OthersFreeze, TypeOK, TypeCount
  <2>3. CASE OthersThaw(d)
    BY <2>1, <2>3 DEF OthersThaw, TypeOK, TypeCount
  <2>4. CASE Intrude(d)
    BY <2>1, <2>4 DEF Intrude, TypeOK, TypeCount
  <2> QED BY <1>3, <2>2, <2>3, <2>4
<1>4. ASSUME UNCHANGED <<frozen, gFreezeCount, environment>> PROVE TypeCount'
  BY <1>4 DEF environment, TypeOK, TypeCount
<1> QED BY <1>1, <1>2, <1>3, <1>4, CountsKept, Zenon

LEMMA TypeStep ==
    ASSUME TypeOK, Next
    PROVE  TypeOK'
  BY TypeFileStep, TypeCallStep, TypeListStep, TypeCountStep DEF TypeOK

-----------------------------------------------------------------------------
(* The locks are held by those who are between taking and dropping them.    *)

LEMMA FreezeLockStep ==
    ASSUME TypeOK, LockInv, Next
    PROVE  \A c \in Callers : pc'[c] \in FreezeLocked => gFreezeLock' = c
<1> DEFINE Held == \A c \in Callers : pc[c] \in FreezeLocked => gFreezeLock = c
<1>1. Held
  BY DEF LockInv
<1>2. ASSUME NEW a \in Actors, NEW l \in Pcs, Goto(a, l), gFreezeLock' = gFreezeLock,
             l \in FreezeLocked => a \in Callers /\ pc[a] \in FreezeLocked
      PROVE  Held'
  BY <1>1, <1>2 DEF Goto, TypeOK, TypeCall
<1>3. ASSUME UNCHANGED <<pc, gFreezeLock>> PROVE Held'
  BY <1>1, <1>3
<1> HIDE DEF Held
<1>4. ASSUME NEW c \in Callers PROVE c \in Actors
  BY DEF Actors
<1>5. ASSUME NEW c \in Callers, NEW f \in Files,
             Thaw(c, f) \/ Release(c, f) \/ \E ps \in PathLists : Freeze(c, f, ps)
      PROVE  Held'
  <2>1. \E l \in Pcs \ FreezeLocked : Goto(c, l) /\ gFreezeLock' = gFreezeLock
    BY <1>5 DEF Thaw, Release, Freeze, Pcs, FreezeLocked
  <2> QED BY <1>2, <1>4, <2>1, Zenon
<1>6. ASSUME NEW c \in Callers, LockFreeze(c) PROVE Held'
  BY <1>1, <1>4, <1>6, VmSyncAssumption
     DEF Held, LockFreeze, TakeFreezeLock, Goto, TypeOK, TypeCall, Actors
<1>7. ASSUME NEW c \in Callers, LockState(c) \/ Schedule(c) \/ Flushed(c) PROVE Held'
  <2>1. \E l \in Pcs : Goto(c, l) /\ gFreezeLock' = gFreezeLock
                       /\ (l \in FreezeLocked => pc[c] \in FreezeLocked)
    BY <1>7 DEF LockState, TakeLock, Schedule, Flushed, Pcs, FreezeLocked
  <2> QED BY <1>2, <1>4, <2>1, Zenon
<1>8. ASSUME NEW c \in Callers, CleanList(c) \/ UnlockFrozen(c) PROVE Held'
  <2>1. pc[c] \in FreezeLocked /\ \E l \in Pcs \ FreezeLocked : Goto(c, l)
    BY <1>8 DEF CleanList, UnlockFrozen, AfterFreeze, Pcs, FreezeLocked
  <2> QED BY <1>1, <1>4, <2>1 DEF Held, Goto, TypeOK, TypeCall
<1>9. ASSUME NEW c \in Callers, NEW oom \in BOOLEAN, AddPath(c, oom) PROVE Held'
  <2>1. gFreezeLock' = gFreezeLock /\ pc[c] = "add"
        /\ (UNCHANGED pc \/ Goto(c, "clean") \/ Goto(c, "freeze"))
    BY <1>9, Zenon DEF AddPath
  <2> QED BY <1>2, <1>3, <1>4, <2>1 DEF Pcs, FreezeLocked
<1>10. ASSUME NEW f \in Files, WorkStarts(f) PROVE Held'
  <2>1. f \in Actors /\ "thawLock" \in Pcs \ FreezeLocked
    BY DEF Actors, Pcs, FreezeLocked
  <2> QED BY <1>2, <1>10, <2>1 DEF WorkStarts
<1>11. ASSUME NEW a \in Actors, ThawBegins(a) \/ ThawEnds(a) PROVE Held'
  <2>1. \E l \in Pcs \ FreezeLocked : Goto(a, l) /\ gFreezeLock' = gFreezeLock
    BY <1>11 DEF ThawBegins, ThawEnds, TakeLock, Pcs, FreezeLocked
  <2> QED BY <1>2, <2>1, Zenon
<1>12. ASSUME NEW c \in Callers, FreezeDevice(c) \/ \E f \in Files : Open(c, f)
       PROVE  Held'
  BY <1>3, <1>12, Zenon DEF FreezeDevice, Open
<1>13. ASSUME NEW d \in Devices, OthersFreeze(d) \/ OthersThaw(d) \/ Intrude(d) PROVE Held'
  BY <1>3, <1>13, Zenon DEF OthersFreeze, OthersThaw, Intrude
<1>14. (\A a \in Actors : ThawDevice(a) => Held') /\ (\A f \in Files : Expire(f) => Held')
  BY <1>3, Zenon DEF ThawDevice, Expire
<1>15. Held'
  BY <1>5, <1>6, <1>7, <1>8, <1>9, <1>10, <1>11, <1>12, <1>13, <1>14, Zenon
     DEF Next, FreezeStep, ThawStep
<1> QED BY <1>15, Zenon DEF Held

\* Only the call that holds gFreezeLock has devices to freeze.
LEMMA PathListStep ==
    ASSUME TypeOK, LockInv, Next
    PROVE  \A c \in Callers : pathList'[c] # <<>> => pc'[c] \in FreezeLocked
<1> DEFINE Held == \A c \in Callers : pathList[c] # <<>> => pc[c] \in FreezeLocked
<1>1. Held
  BY DEF LockInv
<1>2. ASSUME NEW a \in Actors, NEW l \in Pcs, Goto(a, l), pathList' = pathList,
             pc[a] \in FreezeLocked => l \in FreezeLocked
      PROVE  Held'
  BY <1>1, <1>2 DEF Goto, TypeOK, TypeCall
<1>3. ASSUME UNCHANGED <<pc, pathList>> PROVE Held'
  BY <1>1, <1>3
<1> HIDE DEF Held
<1>4. ASSUME NEW c \in Callers PROVE c \in Actors
  BY DEF Actors
<1>5. ASSUME NEW c \in Callers, NEW f \in Files,
             Thaw(c, f) \/ Release(c, f) \/ \E ps \in PathLists : Freeze(c, f, ps)
      PROVE  Held'
  <2>1. \E l \in Pcs : Goto(c, l) /\ pathList' = pathList /\ pc[c] \notin FreezeLocked
    BY <1>5 DEF Thaw, Release, Freeze, Pcs, FreezeLocked
  <2> QED BY <1>2, <1>4, <2>1, Zenon
<1>6. ASSUME NEW c \in Callers, LockFreeze(c) \/ LockState(c) \/ Schedule(c) \/ Flushed(c) PROVE Held'
  <2>1. \E l \in Pcs : Goto(c, l) /\ pathList' = pathList
                       /\ (pc[c] \in FreezeLocked => l \in FreezeLocked)
    BY <1>6 DEF LockFreeze, LockState, TakeLock, Schedule, Flushed, Pcs, FreezeLocked
  <2> QED BY <1>2, <1>4, <2>1, Zenon
<1>7. ASSUME NEW c \in Callers, CleanList(c) PROVE Held'
  BY <1>1, <1>4, <1>7 DEF Held, CleanList, Goto, TypeOK, TypeCall, TypeList
<1>8. ASSUME NEW c \in Callers, UnlockFrozen(c) PROVE Held'
  BY <1>1, <1>4, <1>8 DEF Held, UnlockFrozen, AfterFreeze, Goto, TypeOK, TypeCall
<1>9. ASSUME NEW c \in Callers, NEW oom \in BOOLEAN, AddPath(c, oom) PROVE Held'
  <2>1. pc'[c] \in FreezeLocked /\ \A b \in Callers \ {c} : pc'[b] = pc[b]
    <3>1. pc[c] = "add" /\ (UNCHANGED pc \/ Goto(c, "clean") \/ Goto(c, "freeze"))
      BY <1>9, Zenon DEF AddPath
    <3> QED BY <1>4, <3>1 DEF Goto, FreezeLocked, TypeOK, TypeCall
  <2>2. \A b \in Callers \ {c} : pathList'[b] = pathList[b]
    BY <1>9, Zenon DEF AddPath, TypeOK, TypeList
  <2> QED BY <1>1, <2>1, <2>2, Zenon DEF Held
<1>10. ASSUME NEW c \in Callers, FreezeDevice(c) PROVE Held'
  BY <1>1, <1>10 DEF Held, FreezeDevice, FreezeLocked, TypeOK, TypeList
<1>11. ASSUME NEW f \in Files, WorkStarts(f) PROVE Held'
  <2>1. f \in Actors /\ "thawLock" \in Pcs /\ "idle" \notin FreezeLocked
    BY DEF Actors, Pcs, FreezeLocked
  <2> QED BY <1>2, <1>11, <2>1 DEF WorkStarts
<1>12. ASSUME NEW a \in Actors, ThawBegins(a) \/ ThawEnds(a) PROVE Held'
  <2>1. \E l \in Pcs : Goto(a, l) /\ pathList' = pathList /\ pc[a] \notin FreezeLocked
    BY <1>12 DEF ThawBegins, ThawEnds, TakeLock, Pcs, FreezeLocked
  <2> QED BY <1>2, <2>1, Zenon
<1>13. ASSUME NEW d \in Devices, OthersFreeze(d) \/ OthersThaw(d) \/ Intrude(d) PROVE Held'
  BY <1>3, <1>13, Zenon DEF OthersFreeze, OthersThaw, Intrude
<1>14. /\ \A a \in Actors : ThawDevice(a) => Held'
       /\ \A f \in Files : Expire(f) => Held'
       /\ \A c \in Callers, f \in Files : Open(c, f) => Held'
  BY <1>3, Zenon DEF ThawDevice, Expire, Open
<1>15. Held'
  BY <1>5, <1>6, <1>7, <1>8, <1>9, <1>10, <1>11, <1>12, <1>13, <1>14, Zenon
     DEF Next, FreezeStep, ThawStep
<1> QED BY <1>15, Zenon DEF Held

LEMMA StateLockStep ==
    ASSUME TypeOK, LockInv, Next
    PROVE  \A f \in Files : lock'[f] # Nobody => /\ lock'[f] \in Actors
                                                 /\ FileOf(lock[f])' = f /\ pc'[lock'[f]] \in Locked
<1> DEFINE Held == \A f \in Files : lock[f] # Nobody => /\ lock[f] \in Actors
                                                        /\ FileOf(lock[f]) = f /\ pc[lock[f]] \in Locked
<1>1. Held
  BY DEF LockInv, TypeOK, TypeFile
<1>2. ASSUME NEW a \in Actors, NEW l \in Pcs, Goto(a, l), lock' = lock,
             pc[a] \in Locked => l \in Locked /\ fd' = fd,
             \A c \in Callers \ {a} : fd'[c] = fd[c]
      PROVE  Held'
  <2>1. ASSUME NEW f \in Files, lock[f] # Nobody
        PROVE  FileOf(lock[f])' = f /\ pc'[lock[f]] \in Locked
    <3>1. lock[f] \in Actors /\ FileOf(lock[f]) = f /\ pc[lock[f]] \in Locked
      BY <1>1, <2>1, Zenon
    <3>2. pc'[lock[f]] \in Locked
      BY <1>2, <3>1 DEF Goto, TypeOK, TypeCall
    <3>3. lock[f] \in Files \/ fd'[lock[f]] = fd[lock[f]]
      BY <1>2, <3>1, Zenon DEF Actors
    <3> QED BY <1>2, <3>1, <3>2, <3>3 DEF FileOf
  <2> QED BY <1>1, <1>2, <2>1
<1>3. ASSUME UNCHANGED <<pc, fd, lock>> PROVE Held'
  BY <1>1, <1>3 DEF FileOf
<1>4. ASSUME NEW a \in Actors, NEW l \in Pcs, Goto(a, l), Unlock(FileOf(a)), fd' = fd
      PROVE  Held'
  BY <1>1, <1>4 DEF Goto, Unlock, FileOf, TypeOK, TypeCall, TypeFile
<1>5. ASSUME NEW a \in Actors, NEW l \in Locked, TakeLock(a, l), fd' = fd PROVE Held'
  BY <1>1, <1>5 DEF TakeLock, Goto, FileOf, TypeOK, TypeCall, TypeFile
<1> HIDE DEF Held
<1>6. ASSUME NEW c \in Callers PROVE c \in Actors /\ FileOf(c) = fd[c]
  BY VmSyncAssumption DEF Actors, FileOf
<1>7. ASSUME NEW c \in Callers, NEW f \in Files,
             Thaw(c, f) \/ Release(c, f) \/ \E ps \in PathLists : Freeze(c, f, ps)
      PROVE  Held'
  <2>1. pc[c] \notin Locked /\ lock' = lock /\ fd' = [fd EXCEPT ![c] = f] /\ \E l \in Pcs : Goto(c, l)
    BY <1>7 DEF Thaw, Release, Freeze, Pcs, Locked
  <2>2. \A b \in Callers \ {c} : fd'[b] = fd[b]
    BY <2>1 DEF TypeOK, TypeCall
  <2> QED BY <1>2, <1>6, <2>1, <2>2, Zenon
<1>8. ASSUME NEW c \in Callers, LockFreeze(c) \/ Schedule(c) \/ Flushed(c) PROVE Held'
  <2>1. pc[c] \notin Locked /\ UNCHANGED <<lock, fd>> /\ \E l \in Pcs : Goto(c, l)
    BY <1>8 DEF LockFreeze, Schedule, Flushed, Pcs, Locked
  <2> QED BY <1>2, <1>6, <2>1, Zenon
<1>9. ASSUME NEW c \in Callers, LockState(c) PROVE Held'
  BY <1>5, <1>6, <1>9 DEF LockState, Locked
<1>10. ASSUME NEW c \in Callers, CleanList(c) \/ UnlockFrozen(c) PROVE Held'
  BY <1>4, <1>6, <1>10 DEF CleanList, UnlockFrozen, AfterFreeze, Unlocks, Pcs
<1>11. ASSUME NEW c \in Callers, NEW oom \in BOOLEAN, AddPath(c, oom) PROVE Held'
  <2>1. UNCHANGED <<lock, fd>> /\ pc[c] = "add"
        /\ (UNCHANGED pc \/ Goto(c, "clean") \/ Goto(c, "freeze"))
    BY <1>11, Zenon DEF AddPath
  <2> QED BY <1>2, <1>3, <1>6, <2>1 DEF Pcs, Locked
<1>12. ASSUME NEW f \in Files, WorkStarts(f) PROVE Held'
  <2>1. f \in Actors /\ "thawLock" \in Pcs /\ "idle" \notin Locked
    BY DEF Actors, Pcs, Locked
  <2> QED BY <1>2, <1>12, <2>1 DEF WorkStarts
<1>13. ASSUME NEW a \in Actors, ThawBegins(a) PROVE Held'
  BY <1>5, <1>13 DEF ThawBegins, Locked
<1>14. ASSUME NEW a \in Actors, ThawEnds(a) PROVE Held'
  BY <1>4, <1>14 DEF ThawEnds, Pcs
<1>15. ASSUME NEW d \in Devices, OthersFreeze(d) \/ OthersThaw(d) \/ Intrude(d) PROVE Held'
  BY <1>3, <1>15, Zenon DEF OthersFreeze, OthersThaw, Intrude
<1>16. /\ \A a \in Actors : ThawDevice(a) => Held'
       /\ \A f \in Files : Expire(f) => Held'
       /\ \A c \in Callers : FreezeDevice(c) => Held'
       /\ \A c \in Callers, f \in Files : Open(c, f) => Held'
  BY <1>3, Zenon DEF ThawDevice, Expire, FreezeDevice, Open
<1>17. Held'
  BY <1>7, <1>8, <1>9, <1>10, <1>11, <1>12, <1>13, <1>14, <1>15, <1>16, Zenon
     DEF Next, FreezeStep, ThawStep
<1> QED BY <1>17, Zenon DEF Held

LEMMA LockStep ==
    ASSUME TypeOK, LockInv, Next
    PROVE  LockInv'
  BY FreezeLockStep, PathListStep, StateLockStep DEF LockInv

-----------------------------------------------------------------------------
(* What a call is about to freeze, and the lists.                           *)

LEMMA PendingKept ==
    ASSUME TypeList, NEW c \in Callers
    PROVE  /\ Pending(c) \subseteq Devices
           /\ pathList[c] = <<>> => Pending(c) = {}
           /\ pathList'[c] = pathList[c] => Pending(c)' = Pending(c)
           /\ pathList'[c] = <<>> => Pending(c)' = {}
           /\ pathList[c] # <<>> /\ pathList'[c] = Tail(pathList[c]) =>
                  Pending(c)' \subseteq Pending(c) /\ Head(pathList[c]) \in Pending(c)
           /\ \A d : pathList'[c] = Append(pathList[c], d) => Pending(c)' = Pending(c) \cup {d}
<1>1. pathList[c] \in Seq(Devices)
  BY DEF TypeList
<1>2. Pending(c) \subseteq Devices
  BY <1>1 DEF Pending
<1>3. ASSUME pathList'[c] = <<>> \/ pathList[c] = <<>>
      PROVE  (pathList[c] = <<>> => Pending(c) = {}) /\ (pathList'[c] = <<>> => Pending(c)' = {})
  BY DEF Pending
<1>4. ASSUME pathList[c] # <<>>, pathList'[c] = Tail(pathList[c])
      PROVE  Pending(c)' \subseteq Pending(c) /\ Head(pathList[c]) \in Pending(c)
  <2>1. /\ Len(pathList'[c]) = Len(pathList[c]) - 1 /\ Len(pathList[c]) \in Nat \ {0}
        /\ \A i \in 1 .. Len(pathList'[c]) : pathList'[c][i] = pathList[c][i + 1]
        /\ Head(pathList[c]) = pathList[c][1]
    BY <1>1, <1>4
  <2>2. \A i \in 1 .. Len(pathList'[c]) : i + 1 \in 1 .. Len(pathList[c])
    BY <2>1
  <2>3. 1 \in 1 .. Len(pathList[c]) BY <2>1
  <2> QED BY ZenonT(60), <2>1, <2>2, <2>3 DEF Pending
<1>5. ASSUME NEW d, pathList'[c] = Append(pathList[c], d) PROVE Pending(c)' = Pending(c) \cup {d}
  <2>1. /\ Len(pathList'[c]) = Len(pathList[c]) + 1 /\ Len(pathList[c]) \in Nat
        /\ \A i \in 1 .. Len(pathList[c]) : pathList'[c][i] = pathList[c][i]
        /\ pathList'[c][Len(pathList[c]) + 1] = d
    BY <1>1, <1>5
  <2>2. \A i \in 1 .. Len(pathList[c]) + 1 : i \in 1 .. Len(pathList[c]) \/ i = Len(pathList[c]) + 1
    BY <2>1
  <2> QED BY <2>1, <2>2, SMTT(30) DEF Pending
<1>6. ASSUME pathList'[c] = pathList[c] PROVE Pending(c)' = Pending(c)
  BY <1>6 DEF Pending
<1> QED BY <1>2, <1>3, <1>4, <1>5, <1>6, Zenon

\* A step adds to what a call is about to freeze only what is not frozen.
Adds(c, d) ==
    /\ frozen[d] = 0 /\ d = DeviceOf[Head(paths[c])] /\ pc[c] = "add" /\ paths[c] # <<>>
    /\ paths' \in {[paths EXCEPT ![c] = Tail(@)], [paths EXCEPT ![c] = <<>>]}
    /\ pathList' = [pathList EXCEPT ![c] = Append(@, d)]
    /\ UNCHANGED <<devices, fd>>

LEMMA AddPathEffect ==
    ASSUME TypeOK, NEW c \in Callers, NEW oom \in BOOLEAN, AddPath(c, oom)
    PROVE  \/ \E d \in Devices : Adds(c, d)
           \/ /\ pathList' = pathList /\ UNCHANGED <<devices, fd>> /\ paths[c] # <<>>
              /\ paths' \in {[paths EXCEPT ![c] = Tail(@)], [paths EXCEPT ![c] = <<>>]}
<1> DEFINE d == DeviceOf[Head(paths[c])]
<1>1. /\ pc[c] = "add" /\ paths[c] # <<>> /\ UNCHANGED <<devices, fd>>
      /\ paths' \in {[paths EXCEPT ![c] = Tail(@)], [paths EXCEPT ![c] = <<>>]}
      /\ \/ d \in Devices /\ ~AlreadyFrozen(d) /\ pathList' = [pathList EXCEPT ![c] = Append(@, d)]
         \/ pathList' = pathList
  BY Zenon DEF AddPath
<1>2. d \in Devices /\ ~AlreadyFrozen(d) => frozen[d] = 0
  BY DEF AlreadyFrozen, TypeOK, TypeCount
<1> QED BY <1>1, <1>2, Zenon DEF Adds

LEMMA PendingStep ==
    ASSUME TypeOK, LockInv, Next, NEW c \in Callers
    PROVE  \/ Pending(c)' \subseteq Pending(c) /\ fd'[c] = fd[c]
           \/ Pending(c)' = {}
           \/ \E d \in Devices : Adds(c, d) /\ Pending(c)' = Pending(c) \cup {d}
<1>1. ASSUME UNCHANGED <<pathList, fd>>
      PROVE  Pending(c)' \subseteq Pending(c) /\ fd'[c] = fd[c]
  BY <1>1 DEF Pending
<1>2. ASSUME NEW b \in Callers, NEW f \in Files,
             Thaw(b, f) \/ Release(b, f) \/ \E ps \in PathLists : Freeze(b, f, ps)
      PROVE  (Pending(c)' \subseteq Pending(c) /\ fd'[c] = fd[c]) \/ Pending(c)' = {}
  <2>1. pc[b] = "idle" /\ pathList' = pathList /\ fd' = [fd EXCEPT ![b] = f]
    BY <1>2, Zenon DEF Thaw, Release, Freeze
  <2>2. CASE b = c
    <3>1. pathList[c] = <<>>
      BY <2>1, <2>2 DEF LockInv, FreezeLocked
    <3> QED BY <2>1, <3>1, PendingKept DEF TypeOK
  <2>3. CASE b # c
    BY <2>1, <2>3, PendingKept DEF TypeOK, TypeCall
  <2> QED BY <2>2, <2>3
<1>3. ASSUME NEW b \in Callers, NEW oom \in BOOLEAN, AddPath(b, oom)
      PROVE  \/ Pending(c)' \subseteq Pending(c) /\ fd'[c] = fd[c]
             \/ \E d \in Devices : Adds(c, d) /\ Pending(c)' = Pending(c) \cup {d}
  <2>1. CASE UNCHANGED <<pathList, fd>>
    BY <1>1, <2>1
  <2>2. ASSUME NEW d \in Devices, Adds(b, d)
        PROVE  \/ Pending(c)' \subseteq Pending(c) /\ fd'[c] = fd[c]
               \/ Adds(c, d) /\ Pending(c)' = Pending(c) \cup {d}
    <3>1. pathList' = [pathList EXCEPT ![b] = Append(@, d)] /\ fd' = fd
      BY <2>2, Zenon DEF Adds
    <3>2. CASE b = c
      <4>1. pathList'[c] = Append(pathList[c], d)
        BY <3>1, <3>2 DEF TypeOK, TypeList
      <4> QED BY <2>2, <3>2, <4>1, PendingKept DEF TypeOK
    <3>3. CASE b # c
      <4>1. pathList'[c] = pathList[c]
        BY <3>1, <3>3 DEF TypeOK, TypeList
      <4> QED BY <3>1, <4>1, PendingKept DEF TypeOK
    <3> QED BY <3>2, <3>3
  <2> QED BY <1>3, <2>1, <2>2, AddPathEffect, Zenon
<1>4. ASSUME NEW b \in Callers, FreezeDevice(b) \/ CleanList(b)
      PROVE  Pending(c)' \subseteq Pending(c) /\ fd'[c] = fd[c]
  <2>1. fd' = fd /\ \/ pathList[b] # <<>> /\ pathList' = [pathList EXCEPT ![b] = Tail(@)]
                    \/ pathList' = [pathList EXCEPT ![b] = <<>>]
    BY <1>4, Zenon DEF FreezeDevice, CleanList
  <2>2. \/ pathList'[c] = pathList[c] \/ pathList'[c] = <<>>
        \/ pathList[c] # <<>> /\ pathList'[c] = Tail(pathList[c])
    BY <2>1 DEF TypeOK, TypeList
  <2>3. Pending(c)' \subseteq Pending(c)
    BY <2>2, PendingKept DEF TypeOK
  <2> QED BY <2>1, <2>3
<1>5. ASSUME NEW b \in Callers, LockFreeze(b) \/ LockState(b) \/ UnlockFrozen(b) \/ Schedule(b)
                                \/ Flushed(b) \/ \E f \in Files : Open(b, f)
      PROVE  UNCHANGED <<pathList, fd>>
  BY <1>5, Zenon DEF LockFreeze, LockState, UnlockFrozen, Schedule, Flushed, Open
<1>6. ASSUME NEW f \in Files, Expire(f) \/ WorkStarts(f)
      PROVE  UNCHANGED <<pathList, fd>>
  BY <1>6, Zenon DEF Expire, WorkStarts
<1>7. ASSUME NEW a \in Actors, ThawStep(a)
      PROVE  UNCHANGED <<pathList, fd>>
  BY <1>7, Zenon DEF ThawStep, ThawBegins, ThawDevice, ThawEnds
<1>8. ASSUME NEW d \in Devices, OthersFreeze(d) \/ OthersThaw(d) \/ Intrude(d)
      PROVE  UNCHANGED <<pathList, fd>>
  BY <1>8, Zenon DEF OthersFreeze, OthersThaw, Intrude
<1> QED BY <1>1, <1>2, <1>3, <1>4, <1>5, <1>6, <1>7, <1>8, Zenon DEF Next, FreezeStep

\* A call that freezes a device is the only one that has devices to freeze.
LEMMA FreezeEffect ==
    ASSUME TypeOK, LockInv, NEW c \in Callers, FreezeDevice(c)
    PROVE  \E d \in Pending(c), n \in Nat :
             /\ d = Head(pathList[c]) /\ fd[c] \in Files
             /\ <<fd[c], n>> \notin FrozenEntries /\ At(<<fd[c], n>>)'.dev = d
             /\ \A x \in FrozenEntries : At(x)' = At(x)
             /\ FrozenEntries' \subseteq FrozenEntries \cup {<<fd[c], n>>}
             /\ pathList[c] # <<>> /\ pathList' = [pathList EXCEPT ![c] = Tail(@)]
             /\ UNCHANGED <<fd, paths, intruded>>
             /\ \A b \in Callers \ {c} : Pending(b) = {} /\ Pending(b)' = {}
<1> DEFINE d == Head(pathList[c])
           e == [dev |-> d, sb |-> d \notin NoSuper]
<1>1. /\ pc[c] = "freeze" /\ devices' = [devices EXCEPT ![fd[c]] = Append(@, e)]
      /\ pathList[c] # <<>> /\ pathList' = [pathList EXCEPT ![c] = Tail(@)]
      /\ UNCHANGED <<fd, paths, intruded>>
  BY Zenon DEF FreezeDevice, environment
<1>2. fd[c] \in Files /\ pathList[c] \in Seq(Devices) /\ pathList'[c] = Tail(pathList[c])
  BY <1>1 DEF TypeOK, TypeCall, TypeList
<1>3. d \in Pending(c) /\ d \in Devices
  BY <1>1, <1>2, PendingKept, Zenon DEF TypeOK
<1>4. e \in Entry /\ e.dev = d
  BY <1>3 DEF Entry
<1>5. PICK n \in Nat : n = Len(devices[fd[c]]) + 1
  <2>1. Len(devices[fd[c]]) \in Nat
    BY <1>2 DEF TypeOK, TypeList
  <2> QED BY <2>1
<1> HIDE DEF d, e
<1>6. /\ <<fd[c], n>> \notin FrozenEntries /\ At(<<fd[c], n>>)' = e
      /\ \A x \in FrozenEntries : At(x)' = At(x)
      /\ FrozenEntries' = FrozenEntries \cup (IF e.sb THEN {<<fd[c], n>>} ELSE {})
  <2> DEFINE g == fd[c]
  <2>1. g \in Files /\ n = Len(devices[g]) + 1 /\ devices' = [devices EXCEPT ![g] = Append(@, e)]
    BY <1>1, <1>2, <1>5
  <2>2. /\ <<g, n>> \notin FrozenEntries /\ \A x \in FrozenEntries : At(x)' = At(x)
        /\ FrozenEntries' = FrozenEntries \cup (IF e.sb THEN {<<g, n>>} ELSE {})
    BY <1>4, <2>1, AppendEntries, Zenon
  <2>3. devices'[g][n] = e
    BY <2>1, <1>4 DEF TypeOK, TypeList
  <2> QED BY <1>1, <2>2, <2>3, Zenon DEF At
<1>7. ASSUME NEW b \in Callers \ {c} PROVE Pending(b) = {} /\ Pending(b)' = {}
  <2>1. gFreezeLock = c
    BY <1>1 DEF LockInv, FreezeLocked
  <2>2. pathList[b] = <<>>
    BY <1>7, <2>1 DEF LockInv
  <2>3. pathList'[b] = <<>>
    BY <1>1, <1>7, <2>2 DEF TypeOK, TypeList
  <2> QED BY <2>2, <2>3, PendingKept DEF TypeOK
<1>8. At(<<fd[c], n>>)'.dev = d
  BY <1>4, <1>6
<1>9. FrozenEntries' \subseteq FrozenEntries \cup {<<fd[c], n>>}
  BY <1>6
<1> QED BY <1>1, <1>2, <1>3, <1>6, <1>7, <1>8, <1>9, Zenon DEF d

LEMMA ThawEffect ==
    ASSUME TypeOK, NEW a \in Actors, ThawDevice(a)
    PROVE  \E f \in Files :
             /\ \A x \in FrozenEntries' :
                  /\ Before(f, x) \in FrozenEntries /\ Before(f, x)[1] = x[1]
                  /\ At(x)' = At(Before(f, x))
             /\ \A x, y \in FrozenEntries' : Before(f, x) = Before(f, y) => x = y
             /\ UNCHANGED <<fd, paths, pathList, intruded>>
<1>1. FileOf(a) \in Files
  BY DEF FileOf, TypeOK, TypeCall, Actors
<1>2. /\ devices[FileOf(a)] # <<>> /\ devices' = [devices EXCEPT ![FileOf(a)] = Tail(@)]
      /\ UNCHANGED <<fd, paths, pathList, intruded>>
  BY Zenon DEF ThawDevice, environment
<1> QED BY <1>1, <1>2, TailEntries, Zenon

LEMMA FileStep ==
    ASSUME TypeOK, LockInv, ListedInv, FileInv, Next
    PROVE  FileInv'
<1> SUFFICES ASSUME ~intruded, ~intruded'
             PROVE  /\ \A x, y \in FrozenEntries' : At(x)'.dev = At(y)'.dev => x[1] = y[1]
                    /\ \A c \in Callers, x \in FrozenEntries' :
                           At(x)'.dev \in Pending(c)' => x[1] = fd'[c]
  BY IntrudedKept, Zenon DEF FileInv, OneFile
<1>1. /\ \A x, y \in FrozenEntries : At(x).dev = At(y).dev => x[1] = y[1]
      /\ \A c \in Callers, x \in FrozenEntries : At(x).dev \in Pending(c) => x[1] = fd[c]
  BY DEF FileInv, OneFile
<1>2. ASSUME devices' = devices PROVE /\ \A x, y \in FrozenEntries' : At(x)'.dev = At(y)'.dev => x[1] = y[1]
                                      /\ \A c \in Callers, x \in FrozenEntries' :
                                           At(x)'.dev \in Pending(c)' => x[1] = fd'[c]
  <2>1. FrozenEntries' = FrozenEntries /\ \A x : At(x)' = At(x)
    BY <1>2, EntriesKept
  <2>2. ASSUME NEW c \in Callers, NEW x \in FrozenEntries, At(x).dev \in Pending(c)'
        PROVE  x[1] = fd'[c]
    <3>1. CASE Pending(c)' \subseteq Pending(c) /\ fd'[c] = fd[c]
      BY <1>1, <2>2, <3>1
    <3>2. ASSUME NEW d \in Devices, Adds(c, d), Pending(c)' = Pending(c) \cup {d} PROVE x[1] = fd'[c]
      <4>1. At(x).dev # d
        BY <3>2 DEF Adds, ListedInv
      <4> QED BY <1>1, <2>2, <3>2, <4>1 DEF Adds
    <3> QED BY <2>2, <3>1, <3>2, PendingStep, Zenon
  <2> QED BY <1>1, <2>1, <2>2, Zenon
<1>3. ASSUME NEW b \in Callers, FreezeDevice(b)
      PROVE  /\ \A x, y \in FrozenEntries' : At(x)'.dev = At(y)'.dev => x[1] = y[1]
             /\ \A c \in Callers, x \in FrozenEntries' :
                    At(x)'.dev \in Pending(c)' => x[1] = fd'[c]
  <2>1. PICK d \in Pending(b), n \in Nat :
             /\ d = Head(pathList[b]) /\ fd[b] \in Files
             /\ <<fd[b], n>> \notin FrozenEntries /\ At(<<fd[b], n>>)'.dev = d
             /\ \A x \in FrozenEntries : At(x)' = At(x)
             /\ FrozenEntries' \subseteq FrozenEntries \cup {<<fd[b], n>>}
             /\ pathList[b] # <<>> /\ pathList' = [pathList EXCEPT ![b] = Tail(@)]
             /\ UNCHANGED <<fd, paths, intruded>>
             /\ \A c \in Callers \ {b} : Pending(c) = {} /\ Pending(c)' = {}
    BY <1>3, FreezeEffect, Zenon
  <2>2. ASSUME NEW x \in FrozenEntries' PROVE x \in FrozenEntries \/ (x[1] = fd[b] /\ At(x)'.dev = d)
    BY <2>1, <2>2
  <2>3. ASSUME NEW x \in FrozenEntries', At(x)'.dev = d PROVE x[1] = fd[b]
    BY <1>1, <2>1, <2>2, <2>3
  <2>4. ASSUME NEW x \in FrozenEntries', NEW y \in FrozenEntries', At(x)'.dev = At(y)'.dev
        PROVE  x[1] = y[1]
    BY <1>1, <2>1, <2>2, <2>3, <2>4
  <2>5. ASSUME NEW c \in Callers, NEW x \in FrozenEntries', At(x)'.dev \in Pending(c)'
        PROVE  x[1] = fd'[c]
    <3>1. c = b
      BY <2>1, <2>5
    <3>2. pathList'[b] = Tail(pathList[b])
      BY <2>1 DEF TypeOK, TypeList
    <3>3. Pending(b)' \subseteq Pending(b)
      BY <2>1, <3>2, PendingKept, Zenon DEF TypeOK
    <3> QED BY <1>1, <2>1, <2>2, <2>5, <3>1, <3>3
  <2> QED BY <2>4, <2>5
<1>4. ASSUME NEW a \in Actors, ThawDevice(a)
      PROVE  /\ \A x, y \in FrozenEntries' : At(x)'.dev = At(y)'.dev => x[1] = y[1]
             /\ \A c \in Callers, x \in FrozenEntries' :
                    At(x)'.dev \in Pending(c)' => x[1] = fd'[c]
  <2>1. PICK f \in Files :
             /\ \A x \in FrozenEntries' :
                  /\ Before(f, x) \in FrozenEntries /\ Before(f, x)[1] = x[1]
                  /\ At(x)' = At(Before(f, x))
             /\ UNCHANGED <<fd, paths, pathList, intruded>>
    BY <1>4, ThawEffect, Zenon
  <2>2. \A c \in Callers : Pending(c)' = Pending(c)
    BY <2>1 DEF Pending
  <2> QED BY <1>1, <2>1, <2>2
<1> QED BY <1>2, <1>3, <1>4, DevicesKept, Zenon

-----------------------------------------------------------------------------
(* A device passes the lists once, if no call names it twice.               *)

LEMMA PathsOnceStep ==
    ASSUME TypeOK, DistinctDevices, Next, NEW c \in Callers, PathsOnce(c)
    PROVE  PathsOnce(c)'
<1>1. paths[c] \in Seq(DOMAIN DeviceOf)
  BY DEF TypeOK, TypeList
<1>2. ASSUME paths'[c] = paths[c] PROVE PathsOnce(c)'
  BY <1>2 DEF PathsOnce
<1>3. ASSUME paths'[c] \in PathLists \cup {<<>>} PROVE PathsOnce(c)'
  BY <1>3 DEF PathsOnce, DistinctDevices
<1>4. ASSUME paths[c] # <<>>, paths'[c] = Tail(paths[c]) PROVE PathsOnce(c)'
  <2>1. /\ Len(paths'[c]) = Len(paths[c]) - 1 /\ Len(paths[c]) \in Nat
        /\ \A i \in 1 .. Len(paths'[c]) : paths'[c][i] = paths[c][i + 1]
    BY <1>1, <1>4
  <2>2. \A i \in 1 .. Len(paths'[c]) : i \in Nat /\ i + 1 \in 1 .. Len(paths[c])
    BY <2>1
  <2>3. ASSUME NEW i \in 1 .. Len(paths'[c]), NEW j \in 1 .. Len(paths'[c]),
               DeviceOf[paths'[c][i]] = DeviceOf[paths'[c][j]], DeviceOf[paths'[c][i]] \in Devices
        PROVE  i = j
    <3>1. /\ paths'[c][i] = paths[c][i + 1] /\ paths'[c][j] = paths[c][j + 1]
          /\ i + 1 \in 1 .. Len(paths[c]) /\ j + 1 \in 1 .. Len(paths[c])
      BY <2>1, <2>2, <2>3
    <3>2. i + 1 = j + 1
      BY <2>3, <3>1, Zenon DEF PathsOnce
    <3> QED BY <2>2, <3>2
  <2> QED BY <2>3 DEF PathsOnce
<1>5. ASSUME NEW b \in Callers, NEW f \in Files, NEW ps \in PathLists, Freeze(b, f, ps)
      PROVE  paths'[c] = paths[c] \/ paths'[c] \in PathLists
  BY <1>5 DEF Freeze, TypeOK, TypeList
<1>6. ASSUME NEW b \in Callers, NEW oom \in BOOLEAN, AddPath(b, oom)
      PROVE  \/ paths'[c] = paths[c] \/ paths'[c] = <<>>
             \/ paths[c] # <<>> /\ paths'[c] = Tail(paths[c])
  <2>1. /\ paths[b] # <<>>
        /\ paths' \in {[paths EXCEPT ![b] = Tail(@)], [paths EXCEPT ![b] = <<>>]}
    BY <1>6, AddPathEffect, Zenon DEF Adds
  <2> QED BY <2>1 DEF TypeOK, TypeList
<1>7. ASSUME NEW b \in Callers, FreezeDevice(b) \/ CleanList(b) PROVE paths'[c] = paths[c]
  BY <1>7, Zenon DEF FreezeDevice, CleanList
<1>8. ASSUME NEW a \in Actors, ThawDevice(a) PROVE paths'[c] = paths[c]
  BY <1>8, Zenon DEF ThawDevice
<1>9. UNCHANGED <<devices, pathList, paths>> => paths'[c] = paths[c]
  OBVIOUS
<1>10. \/ paths'[c] = paths[c] \/ paths'[c] \in PathLists \cup {<<>>}
       \/ paths[c] # <<>> /\ paths'[c] = Tail(paths[c])
  <2>1. \/ paths'[c] = paths[c] \/ paths'[c] \in PathLists \/ paths'[c] = <<>>
        \/ paths[c] # <<>> /\ paths'[c] = Tail(paths[c])
    BY <1>5, <1>6, <1>7, <1>8, <1>9, ListsKept, Zenon
  <2> QED BY <2>1
<1> QED BY <1>2, <1>3, <1>4, <1>10

\* The device of the first path is not that of a later one.
LEMMA HeadOnce ==
    ASSUME TypeOK, NEW c \in Callers, PathsOnce(c), paths[c] # <<>>, paths'[c] = Tail(paths[c]),
           DeviceOf[Head(paths[c])] \in Devices
    PROVE  \A i \in 1 .. Len(paths'[c]) : DeviceOf[paths'[c][i]] # DeviceOf[Head(paths[c])]
<1>1. paths[c] \in Seq(DOMAIN DeviceOf)
  BY DEF TypeOK, TypeList
<1>2. /\ Len(paths'[c]) = Len(paths[c]) - 1 /\ Len(paths[c]) \in Nat
      /\ \A i \in 1 .. Len(paths'[c]) : paths'[c][i] = paths[c][i + 1]
      /\ Head(paths[c]) = paths[c][1]
  BY <1>1
<1>3. \A i \in 1 .. Len(paths'[c]) : i \in Nat /\ i + 1 # 1 /\ i + 1 \in 1 .. Len(paths[c])
                                     /\ 1 \in 1 .. Len(paths[c])
  BY <1>2
<1> QED BY <1>2, <1>3 DEF PathsOnce

LEMMA PathListOnceStep ==
    ASSUME TypeOK, LockInv, Next, NEW c \in Callers, PathListOnce(c),
           \A i \in 1 .. Len(paths[c]) : DeviceOf[paths[c][i]] \notin Pending(c)
    PROVE  PathListOnce(c)'
<1>1. pathList[c] \in Seq(Devices) /\ paths[c] \in Seq(DOMAIN DeviceOf)
  BY DEF TypeOK, TypeList
<1>2. ASSUME pathList'[c] = pathList[c] \/ pathList'[c] = <<>> PROVE PathListOnce(c)'
  BY <1>2 DEF PathListOnce
<1>3. ASSUME pathList[c] # <<>>, pathList'[c] = Tail(pathList[c]) PROVE PathListOnce(c)'
  <2>1. /\ Len(pathList'[c]) = Len(pathList[c]) - 1 /\ Len(pathList[c]) \in Nat
        /\ \A i \in 1 .. Len(pathList'[c]) : pathList'[c][i] = pathList[c][i + 1]
    BY <1>1, <1>3
  <2>2. \A i \in 1 .. Len(pathList'[c]) : i \in Nat /\ i + 1 \in 1 .. Len(pathList[c])
    BY <2>1
  <2>3. ASSUME NEW i \in 1 .. Len(pathList'[c]), NEW j \in 1 .. Len(pathList'[c]),
               pathList'[c][i] = pathList'[c][j]
        PROVE  i = j
    <3>1. i + 1 = j + 1
      BY <2>1, <2>2, <2>3 DEF PathListOnce
    <3> QED BY <2>2, <3>1
  <2> QED BY <2>3 DEF PathListOnce
<1>4. ASSUME NEW d, d \notin Pending(c), pathList'[c] = Append(pathList[c], d) PROVE PathListOnce(c)'
  <2>1. /\ Len(pathList'[c]) = Len(pathList[c]) + 1 /\ Len(pathList[c]) \in Nat
        /\ \A i \in 1 .. Len(pathList[c]) : pathList'[c][i] = pathList[c][i] /\ pathList[c][i] # d
        /\ pathList'[c][Len(pathList[c]) + 1] = d
    BY <1>1, <1>4 DEF Pending
  <2>2. \A i \in 1 .. Len(pathList'[c]) : i \in 1 .. Len(pathList[c]) \/ i = Len(pathList[c]) + 1
    BY <2>1
  <2> QED BY <2>1, <2>2, Zenon DEF PathListOnce
<1>5. ASSUME NEW b \in Callers, NEW oom \in BOOLEAN, AddPath(b, oom) PROVE PathListOnce(c)'
  <2>1. CASE pathList' = pathList
    BY <1>2, <2>1
  <2>2. ASSUME NEW d \in Devices, Adds(b, d) PROVE PathListOnce(c)'
    <3>1. CASE b # c
      <4>1. pathList'[c] = pathList[c]
        BY <2>2, <3>1 DEF Adds, TypeOK, TypeList
      <4> QED BY <1>2, <4>1
    <3>2. CASE b = c
      <4>1. pathList'[c] = Append(pathList[c], d) /\ paths[c] # <<>> /\ d = DeviceOf[Head(paths[c])]
        BY <2>2, <3>2 DEF Adds, TypeOK, TypeList
      <4>2. Head(paths[c]) = paths[c][1] /\ 1 \in 1 .. Len(paths[c])
        BY <1>1, <4>1
      <4> QED BY <1>4, <4>1, <4>2
    <3> QED BY <3>1, <3>2
  <2> QED BY <1>5, <2>1, <2>2, AddPathEffect, Zenon
<1>6. ASSUME NEW b \in Callers, FreezeDevice(b) \/ CleanList(b) PROVE PathListOnce(c)'
  <2>1. \/ pathList[b] # <<>> /\ pathList' = [pathList EXCEPT ![b] = Tail(@)]
        \/ pathList' = [pathList EXCEPT ![b] = <<>>]
    BY <1>6, Zenon DEF FreezeDevice, CleanList
  <2>2. \/ pathList'[c] = pathList[c] \/ pathList'[c] = <<>>
        \/ pathList[c] # <<>> /\ pathList'[c] = Tail(pathList[c])
    BY <2>1 DEF TypeOK, TypeList
  <2> QED BY <1>2, <1>3, <2>2
<1>7. ASSUME UNCHANGED pathList PROVE PathListOnce(c)'
  BY <1>2, <1>7
<1>8. \A b \in Callers, f \in Files, ps \in PathLists : Freeze(b, f, ps) => UNCHANGED pathList
  BY Zenon DEF Freeze
<1>9. \A a \in Actors : ThawDevice(a) => UNCHANGED pathList
  BY Zenon DEF ThawDevice
<1> QED BY <1>5, <1>6, <1>7, <1>8, <1>9, ListsKept, Zenon

LEMMA PathsPendingStep ==
    ASSUME TypeOK, LockInv, Next, NEW c \in Callers, PathsOnce(c),
           \A i \in 1 .. Len(paths[c]) : DeviceOf[paths[c][i]] \notin Pending(c)
    PROVE  \A i \in 1 .. Len(paths'[c]) : DeviceOf[paths'[c][i]] \notin Pending(c)'
<1> DEFINE Apart == \A i \in 1 .. Len(paths[c]) : DeviceOf[paths[c][i]] \notin Pending(c)
<1>1. paths[c] \in Seq(DOMAIN DeviceOf)
  BY DEF TypeOK, TypeList
<1>2. ASSUME Pending(c)' = {} \/ paths'[c] = <<>> PROVE Apart'
  BY <1>2
<1>3. ASSUME Pending(c)' \subseteq Pending(c), paths'[c] = paths[c] PROVE Apart'
  BY <1>3
<1>4. ASSUME paths[c] # <<>>, paths'[c] = Tail(paths[c])
      PROVE  \A i \in 1 .. Len(paths'[c]) : DeviceOf[paths'[c][i]] \notin Pending(c)
  <2>1. /\ Len(paths'[c]) = Len(paths[c]) - 1 /\ Len(paths[c]) \in Nat
        /\ \A i \in 1 .. Len(paths'[c]) : paths'[c][i] = paths[c][i + 1]
    BY <1>1, <1>4
  <2>2. \A i \in 1 .. Len(paths'[c]) : i + 1 \in 1 .. Len(paths[c])
    BY <2>1
  <2> QED BY <2>1, <2>2
<1>5. ASSUME NEW b \in Callers, NEW oom \in BOOLEAN, AddPath(b, oom) PROVE Apart'
  <2>1. CASE b # c
    <3>1. paths'[c] = paths[c] /\ pathList'[c] = pathList[c]
      <4>1. /\ paths' \in {[paths EXCEPT ![b] = Tail(@)], [paths EXCEPT ![b] = <<>>]}
            /\ (pathList' = pathList \/ \E d \in Devices : pathList' = [pathList EXCEPT ![b] = Append(@, d)])
        BY <1>5, AddPathEffect, Zenon DEF Adds
      <4> QED BY <2>1, <4>1 DEF TypeOK, TypeList
    <3>2. Pending(c)' = Pending(c)
      BY <3>1, Zenon DEF Pending
    <3> QED BY <1>3, <3>1, <3>2
  <2>2. CASE b = c
    <3>1. paths[c] # <<>> /\ (paths'[c] = <<>> \/ paths'[c] = Tail(paths[c]))
      <4>1. /\ paths[c] # <<>>
            /\ paths' \in {[paths EXCEPT ![c] = Tail(@)], [paths EXCEPT ![c] = <<>>]}
        BY <1>5, <2>2, AddPathEffect, Zenon DEF Adds
      <4> QED BY <4>1 DEF TypeOK, TypeList
    <3>2. CASE paths'[c] = Tail(paths[c]) /\ pathList' = pathList
      <4>1. Pending(c)' = Pending(c)
        BY <3>2 DEF Pending
      <4> QED BY ZenonT(60), <1>4, <3>1, <3>2, <4>1
    <3>3. ASSUME paths'[c] = Tail(paths[c]), NEW d \in Devices, Adds(c, d) PROVE Apart'
      <4>1. Pending(c)' = Pending(c) \cup {d} /\ d = DeviceOf[Head(paths[c])]
        <5>1. pathList'[c] = Append(pathList[c], d) /\ d = DeviceOf[Head(paths[c])]
          BY <3>3 DEF Adds, TypeOK, TypeList
        <5> QED BY <5>1, PendingKept, Zenon DEF TypeOK
      <4>2. \A i \in 1 .. Len(paths'[c]) : DeviceOf[paths'[c][i]] # d
        BY <3>1, <3>3, <4>1, HeadOnce, Zenon
      <4> QED BY <1>4, <3>1, <3>3, <4>1, <4>2
    <3> QED BY <1>2, <1>5, <2>2, <3>1, <3>2, <3>3, AddPathEffect, Zenon
  <2> QED BY <2>1, <2>2
<1>6. ASSUME NEW b \in Callers, NEW f \in Files, NEW ps \in PathLists, Freeze(b, f, ps) PROVE Apart'
  <2>1. pc[b] = "idle" /\ pathList' = pathList /\ paths' = [paths EXCEPT ![b] = ps]
    BY <1>6, Zenon DEF Freeze
  <2>2. CASE b = c
    <3>1. pathList[c] = <<>>
      BY ZenonT(60), <2>1, <2>2 DEF LockInv, FreezeLocked
    <3> QED BY <1>2, <2>1, <3>1, PendingKept DEF TypeOK
  <2>3. CASE b # c
    <3>1. paths'[c] = paths[c] /\ Pending(c)' = Pending(c)
      BY <2>1, <2>3 DEF Pending, TypeOK, TypeList
    <3> QED BY <1>3, <3>1
  <2> QED BY <2>2, <2>3
<1>7. ASSUME UNCHANGED paths, \A oom \in BOOLEAN : ~AddPath(c, oom) PROVE Apart'
  <2>1. ASSUME NEW d \in Devices, Adds(c, d) PROVE FALSE
    <3>1. paths[c] # <<>> /\ (paths'[c] = <<>> \/ paths'[c] = Tail(paths[c]))
      BY <2>1 DEF Adds, TypeOK, TypeList
    <3>2. Len(Tail(paths[c])) # Len(paths[c])
      BY <1>1, <3>1
    <3> QED BY <1>7, <3>1, <3>2, Zenon
  <2> QED BY <1>2, <1>3, <1>7, <2>1, PendingStep, Zenon
<1>8. ASSUME NEW b \in Callers, FreezeDevice(b) \/ CleanList(b) PROVE UNCHANGED paths
  BY <1>8, Zenon DEF FreezeDevice, CleanList
<1>9. ASSUME NEW a \in Actors, ThawDevice(a) PROVE UNCHANGED paths
  BY <1>9, Zenon DEF ThawDevice
<1>10. Apart'
  BY <1>5, <1>6, <1>7, <1>8, <1>9, ListsKept, Zenon
<1> QED BY <1>10

LEMMA OnceStep ==
    ASSUME TypeOK, LockInv, ListedInv, OnceInv, Next
    PROVE  OnceInv'
<1> SUFFICES ASSUME DistinctDevices PROVE OnceInv'
  BY DEF OnceInv, DistinctDevices
<1>1. \A c \in Callers : /\ PathsOnce(c) /\ PathListOnce(c)
                         /\ \A i \in 1 .. Len(paths[c]) : DeviceOf[paths[c][i]] \notin Pending(c)
  BY Zenon DEF OnceInv
<1>2. \A c \in Callers : /\ PathsOnce(c)' /\ PathListOnce(c)'
                         /\ \A i \in 1 .. Len(paths'[c]) : DeviceOf[paths'[c][i]] \notin Pending(c)'
  BY <1>1, PathsOnceStep, PathListOnceStep, PathsPendingStep, Zenon
<1> DEFINE Apart == /\ \A c \in Callers, x \in FrozenEntries : At(x).dev \notin Pending(c)
                    /\ \A x, y \in FrozenEntries : At(x).dev = At(y).dev => x = y
<1>3. ASSUME ~intruded, ~intruded' PROVE Apart'
  <2>1. Apart
    BY <1>3, Zenon DEF OnceInv, FreezeOnce
  <2>2. ASSUME devices' = devices PROVE Apart'
    <3>1. FrozenEntries' = FrozenEntries /\ \A x : At(x)' = At(x)
      BY <2>2, EntriesKept
    <3>2. ASSUME NEW c \in Callers, NEW x \in FrozenEntries PROVE At(x).dev \notin Pending(c)'
      <4>1. CASE Pending(c)' \subseteq Pending(c)
        BY <2>1, <3>2, <4>1
      <4>2. ASSUME NEW d \in Devices, Adds(c, d), Pending(c)' = Pending(c) \cup {d}
            PROVE  At(x).dev \notin Pending(c)'
        <5>1. At(x).dev # d
          BY <1>3, <4>2 DEF Adds, ListedInv
        <5> QED BY <2>1, <3>2, <4>2, <5>1
      <4> QED BY <3>2, <4>1, <4>2, PendingStep, Zenon
    <3> QED BY <2>1, <3>1, <3>2
  <2>3. ASSUME NEW b \in Callers, FreezeDevice(b) PROVE Apart'
    <3>1. PICK d \in Pending(b), n \in Nat :
             /\ d = Head(pathList[b]) /\ fd[b] \in Files
             /\ <<fd[b], n>> \notin FrozenEntries /\ At(<<fd[b], n>>)'.dev = d
             /\ \A x \in FrozenEntries : At(x)' = At(x)
             /\ FrozenEntries' \subseteq FrozenEntries \cup {<<fd[b], n>>}
             /\ pathList[b] # <<>> /\ pathList' = [pathList EXCEPT ![b] = Tail(@)]
             /\ UNCHANGED <<fd, paths, intruded>>
             /\ \A c \in Callers \ {b} : Pending(c) = {} /\ Pending(c)' = {}
      BY <2>3, FreezeEffect, Zenon
    <3>2. pathList[b] \in Seq(Devices) /\ pathList'[b] = Tail(pathList[b])
      BY <3>1 DEF TypeOK, TypeList
    <3>3. Pending(b)' \subseteq Pending(b)
      BY <3>1, <3>2, PendingKept, Zenon DEF TypeOK
    <3>4. d \notin Pending(b)'
      <4>1. pathList[b] # <<>> /\ d = Head(pathList[b])
        BY <3>1
      <4>2. /\ Len(pathList'[b]) = Len(pathList[b]) - 1 /\ Len(pathList[b]) \in Nat
            /\ \A i \in 1 .. Len(pathList'[b]) : pathList'[b][i] = pathList[b][i + 1]
            /\ d = pathList[b][1]
        BY <3>2, <4>1
      <4>3. \A i \in 1 .. Len(pathList'[b]) : i + 1 # 1 /\ i + 1 \in 1 .. Len(pathList[b])
                                              /\ 1 \in 1 .. Len(pathList[b])
        BY <4>2
      <4>4. \A i \in 1 .. Len(pathList'[b]) : pathList[b][i + 1] # pathList[b][1]
        BY ZenonT(60), <1>1, <4>3 DEF PathListOnce
      <4> QED BY ZenonT(60), <4>2, <4>4 DEF Pending
    <3>5. ASSUME NEW x \in FrozenEntries'
          PROVE  (x \in FrozenEntries /\ At(x)' = At(x) /\ At(x).dev # d)
                 \/ (x = <<fd[b], n>> /\ At(x)'.dev = d)
      BY <2>1, <3>1, <3>5
    <3>6. ASSUME NEW c \in Callers, NEW x \in FrozenEntries' PROVE At(x)'.dev \notin Pending(c)'
      BY <2>1, <3>1, <3>3, <3>4, <3>5, <3>6
    <3>7. ASSUME NEW x \in FrozenEntries', NEW y \in FrozenEntries', At(x)'.dev = At(y)'.dev
          PROVE  x = y
      BY SMTT(30), <2>1, <3>5, <3>7
    <3> QED BY <3>6, <3>7
  <2>4. ASSUME NEW a \in Actors, ThawDevice(a) PROVE Apart'
    <3>1. PICK f \in Files :
             /\ \A x \in FrozenEntries' :
                  /\ Before(f, x) \in FrozenEntries /\ Before(f, x)[1] = x[1]
                  /\ At(x)' = At(Before(f, x))
             /\ \A x, y \in FrozenEntries' : Before(f, x) = Before(f, y) => x = y
             /\ UNCHANGED <<fd, paths, pathList, intruded>>
      BY <2>4, ThawEffect, Zenon
    <3>2. \A c \in Callers : Pending(c)' = Pending(c)
      BY <3>1, Zenon DEF Pending
    <3> QED BY <2>1, <3>1, <3>2
  <2> HIDE DEF Apart
  <2> QED BY <2>2, <2>3, <2>4, DevicesKept, Zenon
<1>4. intruded => intruded'
  BY IntrudedKept
<1> QED BY <1>2, <1>3, <1>4, Zenon DEF OnceInv, FreezeOnce

=============================================================================
