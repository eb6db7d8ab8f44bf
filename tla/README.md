# TLA+ models of open-vm-tools

This directory models the concurrent and failure-prone parts of open-vm-tools in
TLA+, checks them with TLC on small instances and proves the most important
properties with TLAPS for every instance. All source paths below are relative to
`src/open-vm-tools/`.

## 1. The system

open-vm-tools is the guest side of VMware's guest/host cooperation. Its parts:

| part | source | state and operations | what makes it hard |
|---|---|---|---|
| quiesced snapshots (vmbackup plugin) | `services/plugins/vmbackup` | the backup state machine, script list, sync provider; RPCs start/snapshotDone/abort, poll timer, abort timer, pool thread | main thread and pool thread share the backup state; abort at any time; scripts that fail |
| sync driver | `lib/syncDriver` | list of frozen mount points behind a handle; freeze, thaw, close | the third of five mounts fails to freeze |
| thread pool of vmtoolsd | `services/vmtoolsd/threadPool.c` | queue of tasks, pool tokens, standalone threads; submit, cancel, start, shutdown | cancel races the worker that pops the task |
| vmsync kernel driver | `modules/linux/vmsync/sync.c` | per open file: frozen devices and a delayed thaw; global freeze count; ioctls freeze and thaw, close, the work item | two mutexes, a work item that thaws behind the caller, devices others freeze or thaw |
| blocks on files (vmblock) | `modules/shared/vmblock/block.c`, `vmblock-fuse/fsops.c` | list of blocks with reference counts and completions; add, remove, wait, close | waiters sleep on memory whose last reference frees it |
| GuestRPC in (TCLO) | `lib/rpcIn`, `lib/rpcChannel` | channel, poll delay, last result, error count, vsock connection | resets, restarts, dispatch that stops its own channel |
| GuestRPC out | `lib/rpcOut`, `lib/message`, `lib/backdoor` | one message channel per call | retries |
| vmtoolsd main loop, plugin manager | `services/vmtoolsd` | plugin list, RPC registration, signals | order of shutdown |
| file locks | `lib/file/fileLockPrimitive.c` | member files and entry directories of Lamport's bakery algorithm in a shared directory | processes on several hosts, crashes, stale locks |
| balloon driver | `modules/shared/vmmemctl` | page chunks, target, rate | host resets, pages refused |
| vsock kernel module | `modules/linux/vsock/linux/af_vsock.c` | sockets with their lists, tables and reference counts; connect, accept, shutdown, close, packets, work items, timeouts | two ends that share a queue pair; packets that are lost, handled late or after the close |
| VMCI kernel module | `modules/linux/vmci` | queue pairs, datagrams, doorbells | two ends, lost notifications |
| HGFS server and clients | `lib/hgfsServer`, `modules/linux/vmhgfs`, `vmhgfs-fuse` | sessions, node and search handles, oplocks | async requests, session teardown |
| poll and async sockets | `lib/poll`, `lib/pollGtk`, `lib/asyncsocket` | callback tables, send queues | callbacks that remove themselves |
| locks | `lib/lock` | ranked recursive mutexes, rw locks, semaphores | rank order |
| drag and drop, copy and paste | `services/plugins/dndcp` | DnD state machines of both ends, file transfer | host and guest disagree on the state |
| time sync | `services/plugins/timeSync` | slewing state, PLL | |
| power operations | `services/plugins/powerOps` | current state, script pid | script still running when the next request arrives |
| guest info, vix, deployPkg, resolutionSet, grabbitmqProxy, desktopEvents, hgfsServer plugin | `services/plugins/*` | caches, requests in flight, proxy connections | |
| vgauth | `vgauth` | alias store, tickets | atomic update of the store |
| common agent | `common-agent` | C++ messaging framework | |
| network drivers | `modules/*/vmxnet*` | rings | |
| utility libraries | `lib/misc`, `lib/string`, `lib/unicode`, `lib/dataMap`, `lib/hashMap`, ... | containers and conversions | |

How they interact: `vmtoolsd` loads plugins into one GLib main loop. RPCs from the
host arrive on the TCLO channel and are dispatched to the plugins on that loop; a
plugin that must block hands a task to the thread pool. The vmbackup plugin freezes
through the sync driver library, which uses the `FIFREEZE` ioctl or, on old kernels,
the vmsync driver. The dndcp plugin adds blocks through vmblock so that a program
which opens a dropped file waits until its transfer is done.

What must be right, most important first:

1. A guest that was frozen is thawed; the host is told to take a snapshot only of a
   guest that is quiesced; a backup ends whatever fails.
2. A task given to the pool runs once, and its destructor runs once; a shutdown
   waits for everything that still uses the service's memory.
3. A device is frozen at most once per file and thawed by its timer at the latest;
   nothing runs on a freed state.
4. A blocked file stays blocked until its blocker removes the block; waiters wake then
   and never touch freed memory.
5. The two ends of a stream connection agree: whatever is lost or comes late, no end
   believes in a connection the other does not have, and every socket is freed.
6. A file lock excludes, also between machines, and a process that dies does not take the
   lock along.

## 2. Modules

| module | models | TLC | TLAPS |
|---|---|---|---|
| `Quiesce` | abstract promise of a quiescing agent: freeze, commit, thaw | as a property of `VmBackup` | refinement |
| `VmBackupScripts` | `scriptOps.c`: the list of freeze/thaw scripts and its walk | through `VmBackup` | `VmBackupScriptsProofs` |
| `VmBackup` | `stateMachine.c`, `syncDriverOps.c`, `nullProvider.c`; composed with the scripts | `MCVmBackup` | `VmBackupProofs`, `VmBackupProtocolProofs` |
| `ThreadPool` | `services/vmtoolsd/threadPool.c` | `MCThreadPool` | `ThreadPoolProofs` |
| `VmSync` | `modules/linux/vmsync/sync.c` | `MCVmSync` | `VmSyncLists`, `VmSyncProofs` |
| `VMBlock` | `modules/shared/vmblock/block.c` as `vmblock-fuse/fsops.c` calls it | `MCVMBlock` | `VMBlockProofs` |
| `VSock` | stream connections of `modules/linux/vsock/linux/af_vsock.c` and `util.c`, both ends | `MCVSock` | none |
| `FileLock` | the portable lock of `lib/file/fileLockPrimitive.c` | `MCFileLock` | `FileLockProofs` |

### VmBackup and VmBackupScripts

State: the fields of `VmBackupState` by their names (`machineState`, `freezeStatus`,
`currentOp`, `callback`, `clientData`, `timerEvent`, `abortTimer`, `keepAlive`,
`scripts`, `currentScript`, ...), `active` for `gBackupState != NULL`, one `cell` per
backup for the `SyncDriverHandle` the freeze operation allocates, one `worker` per
backup for the pool thread in `VmBackupSyncDriverStart`, and what the outside sees:
`frozen` (some file system), `ioFrozen` (the last `TOOLS_CORE_SIG_IO_FREEZE`), and
`committed` (the host holds a commit event).

The main thread runs one handler at a time, so a handler is one step except where it
releases `opLock` or polls: `mainPc` names these places (`switch`, `onError`, `abortThaw`,
`exit`), and a pool thread may take steps between them. `session` numbers the backup
states, so that a pointer kept by a pool thread past the end of its backup is
recognised as stale.

| action | code |
|---|---|
| `Start` | `VmBackupStart`, `VmBackupStartCommon` with `VmBackupNewScriptOp` |
| `PollPending`, `PollError`, `PollFinished` | `VmBackupAsyncCallback` up to the switch, with `VmBackupPostProcessCurrentOp` |
| `EnableSyncWait`, `EnableSync`, `StayFrozen`, `StartThawScripts`, `StartFailScripts` and the end of the backup | the switch of `VmBackupAsyncCallback` |
| `OnErrorRunScripts`, `OnErrorSync`, `OnErrorThaw` | `VmBackupOnError` |
| `Worker(s)` | the pool thread: freeze, publish the handle, set the operation |
| `SnapshotDone`, `Abort`, `AbortTimer`, `Shutdown` | the RPC handlers, the timeout, `VmBackupShutdown` |
| `ScriptExits` | a child process ends; the next query reaps it |
| `Crash` | what ends the process: `g_error`, a NULL script path or process, a thaw without handle |

Outcomes chosen with `\E`: what `SyncDriver_Freeze` returns (`FreezeResults`), every
call that may fail (`Faults`), what is installed under `backupScripts.d` (`Layouts`).

### ThreadPool

State: `workQueue`, `tokens` (GThreadPool's own queue), the tasks' allocation, IDs, idle
sources and run counts, dedicated threads and the shutdown's place in its loop. A step is
a critical section of `gState.lock`. A freed task's memory can be allocated again. `Submit`,
`Cancel` and `Shutdown` belong to the main loop; `TakeToken`, `RunWorker`, `WorkerDone` to
pool threads; `IdleRun`, `IdleDone` to the fallback on the main loop; `ThreadReturns`,
`ThreadLeaves` to dedicated threads. GThreadPool is external: threads take tokens in any
number up to `MaxThreads`, and creating a thread may fail.

### VmSync

State: per open file the frozen devices, the timer and the work item of its delayed work
and its mutex; per thread its place in `VmSyncFreezeDevices`, `VmSyncThawDevices` or
`VmSyncRelease`; `gFreezeCount`; per device how often it is frozen and whether others froze
it. The kernel's `freeze_bdev` waits on a device already frozen in old versions and counts
in newer ones; `nested` is chosen in `Init`, so both are checked.

### VMBlock

State: per block its file, blocker, reference count, completion and whether it is in the
list; the lock; per thread its place in `BlockAddFileBlock`, `BlockRemoveFileBlock`,
`BlockWaitOnFile` or `BlockRemoveAllBlocks` and the block it points to. Blocks are memory
that is reused after the last reference is dropped. A step is a stretch of code under
the reader/writer lock of the list, and what happens between dropping the lock and waiting is a step of its
own.

### VSock

Two machines: one with the clients, one with a listener and the children it makes. State:
`sk`, the fields of `VSockVmciSock` and `struct sock` the protocol uses; `refs`, the reference
counts; the listener's `pendingLinks`, `acceptQueue` and `backlog`; what processes have open
(`user`), are closing (`closing`), have called (`call`) and call without waiting (`nonblocking`); and what is on its way: packets
(`net`), work items (`works`), delayed works (`dwork`) and detach events (`events`). Packets
and items are bags, so they come in any order; a packet is lost when there is no memory for its
work item.

| action | code |
|---|---|
| `Connect`, `ConnectAgain`, `ConnectReturns`, `ConnectTimeout` | `VSockVmciStreamConnect` before and after it sleeps, `VSockVmciConnectTimeout` |
| `Accept`, `Shutdown`, `RecvLast` | `VSockVmciAccept`, `VSockVmciShutdown`, a read that finds the stream at its end |
| `Close` and `Orphan`, `CloseChild` | `__VSockVmciRelease`; the release of a client or the listener is two steps, as it leaves the tables before it takes the socket's lock |
| `RecvStreamCB`, `RecvNoMem` | `VSockVmciRecvStreamCB`: finds the socket, queues the item |
| `RecvPktWork`, `RecvListen` | the item: `VSockVmciRecvPktWork` with the handler of the socket's state |
| `ClientRecord`, `ServerRecord`, `ServerConnected` | the ends of the handlers that attach to the queue pair; detach events may come before the handle is recorded |
| `PendingWork` | `VSockVmciPendingWork`, the timeout of a pending child |
| `PeerDetachCB`, `QPResumedCB` | the events of the queue pair layer |

`oops` records that the code would dereference NULL (section 5); the model stops there. `missed`
records detach events that came before the socket had recorded its queue pair. `dwork` counts, since a
`connect()` with O_NONBLOCK that is repeated schedules the delayed work again; `forgotten` records that the
first of the two never ran.

### FileLock

State: the directory (`lockDir`, the numbers with an entry directory `D` or an entry file `E`, the
contents of the member files `M`) and, per locker, its place and the variables of its call. A step is
one operation on the directory. A locker may die at every step; on its own machine that can be
found out, on another it cannot (`KnownDead`).

| action | code |
|---|---|
| `Lock`, `CreateLockDir`, `Draw`, `CheckMember`, `Undraw`, `CannotCreateLockDir`, `CannotCreateEntry` | `FileLockCreateEntryDirectory` |
| `CreateEntryFile`, `RemoveEntryDirectory`, `UndoMember`, `UndoEntryFile`, `UndoEntryDirectory` | `FileLockIntrinsicPortable` |
| `ListNumbers`, `NumberScan`, `NumberScanFails`, `ReadGone`, `ReadStale`, `RemoveStale` | `FileLockScanDirectory` with `FileLockNumberScan` |
| `CreateMemberFile` | the ticket, and `FileLockCreateMemberFile` |
| `ListEntering`, `ListMembers`, `DiscardDead`, `DiscardSlow` | `FileLockScanner` |
| `Win`, `Wait`, `WaitEnds`, `WaitTimesOut`, `PossessionFails` | `FileLockWaitForPossession`, `FileLockSleeper` |
| `RemoveMember`, `RemoveMemberFails`, `RemoveLock`, `UnlockImplicit` | `FileUnlockIntrinsic`, and the same files after EAGAIN |

Two histories mark what the scheme does not promise. `broken`: a number was drawn a second time
(any reuse counts, whether some scan still remembers the number or not), or a locker that lives was taken for dead because it needed more than FILELOCK_PROGRESS_DEARTH to enter;
the model stops there. `deserted`: the files an error or an untimely death leaves for good.

## 3. Runs

| run | configuration | what it shows |
|---|---|---|
| `backup` | up to 2 backups, 4 script installations (none, two scripts, a legacy pair, a legacy thaw script with other files), both providers, every result of the freeze, all handled failures, aborts in all states but `SCRIPT_FREEZE` and `SYNC_FREEZE_WAIT` | ownership of frozen file systems, meaning of a commit, undo order of the scripts, the documented transitions, every backup ends, refinement of `Quiesce` |
| `backup_any` | up to 2 backups, all faults, 3 odd installations (a legacy freeze script beside a regular one, only a legacy thaw script, only directories), aborts and shutdowns in every state | timers and the I/O signal survive even what breaks the rest; the run stops where the process dies |
| `abort_while_freezing` | abort in `SYNC_FREEZE_WAIT` | violates `FrozenHasOwner` |
| `commit_after_abort` | abort in `SYNC_FREEZE_WAIT`, either provider | violates `CommitMeansQuiesced` |
| `legacy_thaw_error` | legacy freeze script without legacy thaw script | violates `ThawErrorMeansFailure` |
| `pool` | 2 tasks, 1 dedicated thread, 0 or 2 pool threads, IDs that wrap at 3, one fault | a task runs and ends once, tokens match tasks, shutdown is complete and terminates |
| `cancelled_token` | one cancellation | violates `PopFindsTask` |
| `vmsync` | 2 threads, 2 files, 2 devices (one for which `freeze_bdev` returns NULL), 2 freezes, 1 action of others | nothing is frozen twice or thawed twice, the count is right, freed states are quiet, all is thawed in the end |
| `vmsync_release` | one file, frozen twice | violates `ThawTaskCancelled` |
| `vmblock` | 3 threads, 2 files, 2 blockers, memory for 2 blocks | reference counts, no use of freed memory, waiters wait for the removal and then wake |
| `vsock` | 1 client that connects twice, a listener with a backlog of 1 and 2 children, 1 extra (a lost packet, a failed allocation, send or attach, a resume, a non-blocking `connect()`, a shutdown, the close of the listener) | references cover what leads to a socket, the backlog covers the lists, `connect()` finds the states it asserts, nothing pends, is half open or leaks at rest, and both machines come to rest |
| `filelock` | 2 lockers on one machine and 1 on another, one call each, 3 numbers, 1 disturbance of the first locker (death, error, collision; or it discards a slow entrant) | exclusion, order of the tickets, every file has an owner, nothing is left at rest, every call ends |

Why the bounds are enough. Two backups let a thread of the first write into the second;
nothing in the code looks further back. Two slots are enough for a legacy script beside a
regular one and for an order between scripts. Two tasks compete for one token or one idle
source; three IDs, of an unsigned counter that overflows after 3, let `nextWorkId` wrap onto a live ID. In `vmsync` one
path list holds both devices and the other a path without device and one that does
not exist, so a freeze fails at the first or at the second path; two freezes are needed for a
timer that is set while the previous item runs. Callers are interchangeable there and so are files, so
`MCFairSpec` lets the first freeze be that of the first caller for the first file (`FirstFreeze`); TLC's
symmetry sets are no choice where liveness is checked. In `vmblock` three threads are an adder, a
remover and a waiter; two blocks let freed memory come back as another block.
In `vsock` the second connect() of the client meets what its first attempt left behind on either
machine, and two children fill a backlog of 1 and let the second be refused. A failure may come in either
attempt. `shutdown()` alone more than doubles the states, so it is called up to the first attempt
(`ShutdownConnects`). O_NONBLOCK is one extra per client, so every call of a client may use it; `MaxConnects`
counts the calls that start an attempt or renew its timeout, so that two of them reach a delayed work that is scheduled
again by the same attempt or by the next. A client that has shut down cannot connect again, as its file stays `SS_DISCONNECTING`,
and what is lost is a shutdown of the second connection. The contents of a freed socket are reset (`Freed`), which
merges states that differ only in memory nobody may read. In `filelock` the
disturbed locker asks for a shared lock and does not wait for ever, a second one on its machine for an
exclusive one, and a third one on the other machine for a shared one, waiting for ever: so readers share, a
writer excludes readers of both machines, a death is found out on one machine and not on the other. Two
writers would add nothing to a writer and a reader, since whom a locker waits for depends only on one of
the two being exclusive (`Conflict`), and the theorems cover any mix. One
locker shows all kinds of disturbances; what it does to the others depends only on the machine.

Deadlock is checked except where the system may really stop: `backup_any` (the process
has ended), the thread pool runs (after the shutdown), `vmblock` (all threads may
wait while a blocker that is still open does nothing), `vsock` and `filelock` (all calls are
done, or the histories above end the model).

Fairness, and why the code has it:

- `backup`: weak for the main loop, pool threads and script processes (an operating system
  runs its threads; scripts are assumed to end); strong for the abort timer, whose
  source stays attached while handlers run between its expiry and its dispatch. Nothing is
  assumed of the host: `snapshotDone` and `abort` need never come, and `BackupEnds`
  rests on the timeout. It therefore needs `Timeout = TRUE`, the default of the code.
- `pool`: weak for threads and for the loop of the shutdown; strong for idle sources, which
  compete with other sources; a dedicated thread returns once it is interrupted, which is what
  its interrupt function is for.
- `vmsync`: strong for taking a mutex (kernel mutexes queue their waiters), weak for the rest.
  Others thaw what they froze.
- `vmblock`: weak for the steps of a thread inside an operation; nothing is assumed of a
  blocker, which may never remove its block.
- `vsock`: weak for the kernel as a whole: as long as a packet, an item, a timer or a handler is
  outstanding, some of them goes on. Nothing is assumed of the processes.
- `filelock`: weak for the lockers as a whole: as long as one that lives can go on, one does, which
  includes that a lock is released. Polling changes nothing and is no step, so nobody can keep the others from going on.

## 4. Proofs

All theorems hold for every value of the constants that satisfies the named assumption of
the module (`ScriptsAssumption`, `VmBackupAssumption`, `ThreadPoolAssumption`,
`VMBlockAssumption`, `VmSyncAssumption`, `FileLockAssumption`); TLC evaluates these assumptions in the
runs. What a theorem assumes beyond that is in its `ASSUME`.

**VmBackup, its types, timers and signal.** `TypeCorrect` needs no strengthening of `TypeOK`; the work is
in the script walk, where `VmBackupScriptsProofs` shows that the index stays in -1 .. `MaxScripts`.
`SourcesCorrect` and `IoSignalCorrect` hold for all faults, aborts and shutdowns.
`SourcesInv` adds to `SourcesOwned` what holds inside handlers; `IoInv` adds to
`IoSignalMatchesState` the value the signal has at each `mainPc`.

**VmBackup, the freeze.** `FrozenCorrect`, `CommitCorrect`, `WorkerCorrect` and `Refinement` assume
`OrderlyEnvironment`: no abort in `SYNC_FREEZE_WAIT`, no shutdown before the thaw, no failing
thaw. The violation runs and section 5 show that this cannot be dropped. Their inductive
invariant `FreezeInv` follows the handle: from the pool thread (`WorkerInv`) to the operation
(`CurrentOpInv`) and the callback (`CallbackInv`), and into `clientData` (`HandleInv`).
It is needed because `FrozenHasOwner` alone does not say why the handle in a poll is the one
that was frozen. `Refinement` maps each action to a step of `Quiesce` or a stutter, with
`QuiescePhase` as mapping.

**VmBackup, the scripts and the protocol.** `ScriptsUndone`, `ThawErrorsReal`, `ServiceSurvives` and
`FollowsDiagram` assume `HandledScripts` as well: no abort while freeze scripts run, no shutdown while fail
scripts run, and `UndoableScripts` (slot 0 of every list has a thaw script, and fail scripts start).
Without them a run ends in the crash of `backup_any` or in `legacy_thaw_error`. `FollowsDiagram` also
excludes a shutdown other than in `SCRIPT_THAW`, since a shutdown goes to `IDLE` from any state.
The argument: `ForwardShape` and `BackwardShape` say where each of the two walks over the list can stop;
from them `ScriptInv` follows for each operation on the list: the scripts below the current
one ran, and those undone are an upper part of those that ran. `UndoInv` adds which operation belongs to which
machine state and when a list may be left over, so that a backup that ends has nothing left to undo.

**ThreadPool.** `TokensCorrect`: without cancellations every token, waiting or taken, stands for
a task in the queue, so a thread that pops finds a task. `TasksCorrect`: a task runs at most
once and is in one place (queue, idle source, thread) as long as `g_thread_pool_push` never
failed; `QueueInv` has the places (`OnePlace`), the runner (`OneRunner`) and the counts.
`InterruptCorrect`, `ArrayCorrect`, `ShutdownCorrect`: the shutdown interrupts every dedicated
thread it waits for, the array is stable while it is walked, and nothing runs when it is done.
`IdsCorrect`: no task has the ID 0, whatever the width of the counter.

**VMBlock.** `RefsCorrect`, `LiveCorrect`, `ListCorrect`, `BlockedCorrect`,
`RemovesCorrect` follow from one inductive invariant: the properties themselves with
`LockInv` (who holds the lock at which place), `PointerInv` (what a thread's pointer points to at
each place) and `CloseInv` (what a closing blocker has removed so far). The reference count is the
cardinality of the set of holders; the lemmas about adding and removing one holder use
`FiniteSetTheorems`.

**VmSync.** `VmSyncLists` shows what each step does to the lists and locks: `LockInv` (who holds which
mutex where), `FileInv` (a device is in the list of one file only, also while a call is about to freeze it), `OnceInv`
(a device goes from the paths of a call to its `pathList` to the list of its file once), `UseInv` (nobody uses a
closed file) and `ItemInv` (one freeze makes one work item, which the release cancels or waits for).
`VmSyncProofs` adds `CountInv`: `gFreezeCount` is the number of list entries that hold a freeze, and a device is frozen
as often as the lists and the others say. From these follow `CountsRight` and
`OneFileFreezes` for every instance; `FrozenOnce` assumes `DistinctDevices`, that the paths of one call are on
different devices, because `VmSyncAddPath` looks for a device in the file's list only and not among the paths
of the call; `FreesClean` is about files frozen at most once, and the run `vmsync_release` shows why.

**FileLock.** `Excludes`, `HonoursTickets`, `FilesHaveOwners` and `RestsClean` hold for any number of lockers,
machines, calls and disturbances. The inductive invariant is `TypeOK /\ (broken \/ Inv)`: `NumInv` (the numbers of calls
in progress differ), `MemberInv` (a locker's member file says what the locker knows), `ScanInv` (what a scan remembers of
its listing is true or has gone), `TicketInv` (the bakery argument: a locker that tests has each earlier member still before it,
and whoever is still choosing a ticket has yet to read that locker's or has taken a later one), `FilesInv` and `DirInv` (who owns
each file, and who will remove the directory). `MutualExclusion` alone is not inductive: it does not say why a locker that is
choosing its ticket while another one wins will wait. The 33 actions have nine kinds of effect (`Enters`, `Scans`, `Leaves`, ...);
each action is shown to have one of them, and the invariant is proved once for each effect.

Only model-checked, and why:

- liveness (`BackupEnds`, `TasksEnd`, `ShutdownTerminates`, `FrozenThawed`, `RemovedWakes`, the two
  `Settles`): out of the prover's reach;
- all of `VSock`: its properties rest on one invariant that ties each reference count to the number of packets, items,
  list entries and timers that lead to the socket. TLC checks `RefsHeld`; its proof for every instance needs sums over bags of
  packets and sequences of children for each of 30 actions, and was left out.

Only proved, and not repeated in a run: `TypeOK` of the modules with proofs, `QueueHoldsWaiting`, `ArrayStable`,
`OnlyBlockerRemoves`, `OneFileFreezes`.

## 5. Where the code and what is said of it differ

Five violation runs, each with its quotation in `PROJECT.json`:

- An abort in `SYNC_FREEZE_WAIT` releases the freeze operation the pool thread has just completed; its handle
  is freed without a thaw and nobody can thaw the file systems (`abort_while_freezing`).
- The same abort leaves `callback` in place, and the next poll sends the commit event
  (`commit_after_abort`).
- A legacy freeze script without a legacy thaw script makes a successful thaw report an
  error (`legacy_thaw_error`).
- A cancelled task leaves its token in the GThreadPool, and `ASSERT(work != NULL)` does not
  hold (`cancelled_token`).
- `VmSyncRelease` frees a state whose work item may still run (`vmsync_release`).

Met while modelling and described here only:

- `stateMachine.c`: when the freezeFail scripts cannot be started the backup ends at once; a
  shutdown while frozen does not thaw; the abort timer fires once and is ignored in the error
  states, so it does not bound a freezeFail script that hangs.
- `scriptOps.c`: with only subdirectories in `backupScripts.d` the list has no first path and
  the thaw compares a NULL pointer (`Crash` in `backup_any`).
- `threadPool.c`: after a failing `g_thread_pool_push` the task gets an idle source and stays in
  the queue, where a pool thread with an older token may pop it as well; `TasksCorrect` is stated up to the first such failure.
- `sync.c`: a path list with two paths on one device waits for itself on kernels whose
  `freeze_bdev` does not count; when `VmSyncFreezeDevices` fails it drops its path list without
  releasing the references of the path lookups;
  `gFreezeCount` is not decremented for a device somebody else thawed, so `CountMatches` is
  stated up to the first time somebody else thaws a device of the driver; the capability is looked up
  again by the close, so a process that lost it leaves its state and frozen devices behind.
- `block.c`: the list is expected to be empty in `BlockCleanup`, which holds when all control
  files are closed (`ListSound`).
- `lib/syncDriver`: with no path to freeze the Linux driver returns `SD_ERROR`, which the
  callers read as a true value (the `noPaths` result of `VmBackup`).

Of `af_vsock.c`; where a property of `VSock` needs an exception for one, its comment says so:

- `VSockVmciRecvConnectingServer` returns 0 after a RST, so `VSockVmciRecvListen` leaves the child in the
  pending list although the comment at `destroy:` says "the listen handler will remove pending from the
  pending list upon our failure", and `VSockVmciPendingWork` puts it once too often (`RefsHeld`). When the
  handler does fail, the child leaves the list but `sk_ack_backlog` still counts it.
- `VSockVmciAccept` says that finding the child in the queue "guarantees that the cleanup function hasn't
  run yet"; it may have, and a child rejected then is never freed (`NoLeak`). Otherwise a rejected child is
  counted down twice (`BacklogCovers`).
- `__VSockVmciRelease` leaves `sk_state` as it was, so items that run after the close are handled rather
  than reset: a closed listener accepts another child into a queue nobody reads, and the ATTACH of a
  closed client goes through the `sk_socket` that is no longer there (`oops`). It also takes the client out of
  the tables before the lock; an ATTACH handled in between puts it back for good (`NoLeak`).
- The handlers subscribe to the detach event "before attaching so we don't miss an event", but compare it with
  `qpHandle`, which they record after attaching (`missed`, `NoHalfOpen`).
- A `connect()` that times out just after its ATTACH leaves an unconnected socket in the connected table. A
  `connect()` with O_NONBLOCK says "We hold on to the socket until the timeout fires" and initialises the delayed
  work without looking whether it is scheduled. A repeated call, of the same attempt or of the next, damages the
  list its timer is in, or makes it run once for two references, and the socket is never freed (`NoLeak`).
- `VSOCK_SEND_RESET` on the listener sends nothing, as a listener has no peer.

Of `fileLockPrimitive.c`:

- The comment of `FileLockIntrinsicPortable` says "The lock does not require any sort of time-based leases or
  heartbeats". It does require that a locker enters within 8 seconds: a slower one has its entry directory
  and even a member file made meanwhile removed, and then holds a lock nobody sees (`broken`).
- Members are known by their numbers. When a number is drawn again while somebody waits for its earlier
  owner, two lockers can wait for each other for ever, and a stale member removed by name can be a new one (`broken`).
- An error other than EAGAIN in the possession scan leaves the member file, and so does an unlock that cannot
  delete it (`deserted`); the directory is left when an entry directory cannot be made; a death after a failed rename, between removing the entry
  directory and the entry file, leaves an entry file that makes a later draw of its number fail.
- A locker that waits does not look at other members. It may wait for a locker of another
  machine that waits for a dead process of its own machine, and only it could remove that member; with waits
  that never end both stay (`Settles`).
- `FileLockScanner` does not advance its list pointer after unlinking and keeps every second of a run of removed
  entries for another round, which costs a scan and no more.

## 6. What is not modelled

`PROJECT.json` lists every part with its reason. The network drivers, the screen and
resolution plugins, the guest SDK and the string libraries are I/O, hardware access or pure
conversion without a protocol of their own. The common agent and the authentication service
are separate programs. The modelled parts are less than one percent of the repository's lines: most of it
is drivers, file system and protocol code for several systems, generated and third-party code and libraries
without shared state, and a model of those would restate the code. Inside the modelled parts: log messages, configuration parsing, the
contents of messages, and the Windows, Solaris and FreeBSD variants are left out. No completer exists on
Linux, so `VmBackup` has no `COMPLETE_WAIT`. In `VMBlock` the name space that redirects a path is left out; a file is a name.
In `VSock` datagrams, the data path with its notifications and the packets of older protocol versions are left out, and a
shutdown is of both directions; a client is used by one thread, which makes no other call while it sleeps in
`connect()`. In `FileLock` damaged member files, files of other programs, a lock directory that is moved,
mandatory locks, the device lock files of `fileLockPosix.c` and several threads of one process are left out; a listing of
the directory is one step, as the comment of `FileLockIntrinsicPortable` demands of the file system; the three files
of a discarded locker go in one step, and so do the test for the lock directory and its mkdir.

## 7. Plan

In this order, since each next part is used by the ones above:

1. `RpcIn`/`RpcChannel`: the TCLO loop, its backoff, resets and restarts, a callback that stops
   its own channel. Properties: one reply per request, no dispatch after stop, a reset is
   answered; abstract specification: a channel that delivers each request once.
2. `SyncDriver`: the freeze loop over mount points, refining one atomic freeze; composition
   with `VmBackup` and `VmSync`.
3. `VSockProofs`: reference counts of the sockets for every number of clients, children and packets.
4. An abstract lock that `FileLock` implements.
5. The notify protocol of vsock streams; VMCI queue pairs.
6. Balloon driver, plugin shutdown order, power operations, hash map (a pure algorithm checked
   against a reference definition), HGFS sessions.
