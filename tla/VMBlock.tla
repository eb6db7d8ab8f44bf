------------------------------ MODULE VMBlock ------------------------------
(***************************************************************************)
(* Blocks on files (modules/shared/vmblock/block.c), as vmblock-fuse and    *)
(* the Linux module use them: while a drag-and-drop transfer copies a file, *)
(* its blocker makes everybody who opens the file wait.  Blocks are counted *)
(* references; the list of blocks has a reader-writer lock, but references  *)
(* are dropped and completions signalled to threads that do not hold it.    *)
(* A set stands for the list: it has one block per file, and the order of   *)
(* the others does not matter.                                              *)
(***************************************************************************)
EXTENDS Integers, FiniteSets

CONSTANTS
    Threads,       \* of the FUSE daemon, or of the kernel
    Files,         \* file names
    Blockers,      \* open control files
    Blocks,        \* memory for BlockInfos
    None           \* no thread, no block, no blocker

ASSUME VMBlockAssumption ==
    /\ IsFiniteSet(Threads)
    /\ Files # {} /\ Blockers # {}
    /\ None \notin Threads \cup Blocks \cup Blockers

VARIABLES
    open,          \* per blocker: its control file is "closed", "open" or "closing"
    live,          \* the allocated BlockInfos
    refcount, completed, filename, blocker,     \* their fields
    blockedFiles,  \* the list
    writer,        \* holder of blockedFilesLock for writing
    readers,       \* its holders for reading
    pc,            \* per thread: its place in an operation
    block,         \* per thread: its local variable block
    todo,          \* per thread: what BlockRemoveAllBlocks has still to remove
    client         \* per thread: the blocker it works for

fields == <<refcount, completed, filename, blocker>>
vars == <<open, live, fields, blockedFiles, writer, readers, pc, block, todo, client>>

Pcs == {"idle", "grab", "wait", "complete", "drop", "free", "next"}

(***************************************************************************)
(* Type correctness.                                                        *)
(***************************************************************************)
TypeOK ==
    /\ open \in [Blockers -> {"closed", "open", "closing"}]
    /\ live \subseteq Blocks
    /\ refcount \in [Blocks -> Nat]
    /\ completed \in [Blocks -> BOOLEAN]
    /\ filename \in [Blocks -> Files]
    /\ blocker \in [Blocks -> Blockers]
    /\ blockedFiles \subseteq Blocks
    /\ writer \in Threads \cup {None}
    /\ readers \subseteq Threads
    /\ pc \in [Threads -> Pcs]
    /\ block \in [Threads -> Blocks \cup {None}]
    /\ todo \in [Threads -> SUBSET Blocks]
    /\ client \in [Threads -> Blockers \cup {None}]

Init ==
    /\ open = [o \in Blockers |-> "closed"]
    /\ live = {} /\ blockedFiles = {}
    /\ refcount = [b \in Blocks |-> 0] /\ completed = [b \in Blocks |-> FALSE]
    /\ filename \in {[b \in Blocks |-> f] : f \in Files}
    /\ blocker \in {[b \in Blocks |-> o] : o \in Blockers}
    /\ writer = None /\ readers = {}
    /\ pc = [t \in Threads |-> "idle"] /\ block = [t \in Threads |-> None]
    /\ todo = [t \in Threads |-> {}] /\ client = [t \in Threads |-> None]

Goto(t, l) == pc' = [pc EXCEPT ![t] = l]
Unlocked == writer = None /\ readers = {}

\* GetBlock(f, OS_UNKNOWN_BLOCKER) and GetBlock(f, o).
GetBlock(f) == {b \in blockedFiles : filename[b] = f}
GetBlockOf(f, o) == {b \in blockedFiles : filename[b] = f /\ blocker[b] = o}

-----------------------------------------------------------------------------
(***************************************************************************)
(* VMBlockOpen: the blocker's identity is unique among the open files.      *)
(***************************************************************************)
Open(o) ==
    /\ open[o] = "closed"
    /\ open' = [open EXCEPT ![o] = "open"]
    /\ UNCHANGED <<live, fields, blockedFiles, writer, readers, pc, block, todo, client>>

(***************************************************************************)
(* VMBlockWrite of VMBLOCK_ADD_FILEBLOCK: BlockAddFileBlock and AllocBlock, *)
(* under the write lock.  OS_EEXIST and OS_ENOMEM change nothing.           *)
(***************************************************************************)
MayAddOwn(f, o) == GetBlockOf(f, o) = {}
MayAdd(f, o) == GetBlock(f) = {}
CompletionKept(b) == completed
CompletionInit(b) == [completed EXCEPT ![b] = FALSE]

Add(t, f, o, b) ==
    /\ pc[t] = "idle" /\ open[o] = "open" /\ Unlocked
    /\ MayAdd(f, o)
    /\ b \notin live
    /\ live' = live \cup {b} /\ blockedFiles' = blockedFiles \cup {b}
    /\ refcount' = [refcount EXCEPT ![b] = 1]
    /\ completed' = CompletionInit(b)
    /\ filename' = [filename EXCEPT ![b] = f] /\ blocker' = [blocker EXCEPT ![b] = o]
    /\ UNCHANGED <<open, writer, readers, pc, block, todo, client>>

(***************************************************************************)
(* VMBlockWrite of VMBLOCK_DEL_FILEBLOCK: BlockRemoveFileBlock takes the    *)
(* write lock and finds the block; BlockDoRemoveBlock unlinks it.           *)
(***************************************************************************)
Unlink(t, b) ==
    /\ blockedFiles' = blockedFiles \ {b}
    /\ block' = [block EXCEPT ![t] = b]
    /\ Goto(t, "complete")

Remove(t, f, o) ==
    /\ pc[t] = "idle" /\ open[o] = "open" /\ Unlocked
    /\ writer' = t /\ client' = [client EXCEPT ![t] = o]
    /\ \E b \in GetBlockOf(f, o) : Unlink(t, b)
    /\ UNCHANGED <<open, live, fields, readers, todo>>

(***************************************************************************)
(* VMBlockRelease, called when no operation on the control file is under    *)
(* way any more: BlockRemoveAllBlocks visits the list under the write lock. *)
(***************************************************************************)
OwnBlocks(o) == {b \in blockedFiles : blocker[b] = o}

Release(t, o) ==
    /\ pc[t] = "idle" /\ open[o] = "open" /\ Unlocked
    /\ \A u \in Threads : client[u] # o
    /\ open' = [open EXCEPT ![o] = "closing"]
    /\ writer' = t /\ client' = [client EXCEPT ![t] = o]
    /\ todo' = [todo EXCEPT ![t] = OwnBlocks(o)]
    /\ Goto(t, "next")
    /\ UNCHANGED <<live, fields, blockedFiles, readers, block>>

RemoveNext(t) ==
    /\ pc[t] = "next"
    /\ \E b \in todo[t] :
          /\ Unlink(t, b)
          /\ todo' = [todo EXCEPT ![t] = @ \ {b}]
    /\ UNCHANGED <<open, live, fields, writer, readers, client>>

WriteUnlock(t) ==
    /\ pc[t] = "next" /\ todo[t] = {}
    /\ writer' = None
    /\ open' = [o \in Blockers |-> IF o = client[t] /\ open[o] = "closing" THEN "closed" ELSE open[o]]
    /\ client' = [client EXCEPT ![t] = None]
    /\ Goto(t, "idle")
    /\ UNCHANGED <<live, fields, blockedFiles, readers, block, todo>>

\* The rest of BlockDoRemoveBlock: os_complete_all, then BlockDropReference.
Complete(t) ==
    /\ pc[t] = "complete"
    /\ completed' = [completed EXCEPT ![block[t]] = TRUE]
    /\ Goto(t, "drop")
    /\ UNCHANGED <<open, live, refcount, filename, blocker, blockedFiles, writer, readers, block, todo,
                   client>>

-----------------------------------------------------------------------------
(***************************************************************************)
(* BlockWaitOnFile of a file that is blocked: it finds the block and takes  *)
(* a reference under the read lock, waits for the completion without it,    *)
(* and drops the reference.                                                 *)
(***************************************************************************)
ReadLockNone(t) == readers
ReadLock(t) == readers \cup {t}

WaitOnFile(t, f) ==
    /\ pc[t] = "idle" /\ writer = None
    /\ \E b \in GetBlock(f) : block' = [block EXCEPT ![t] = b]
    /\ readers' = ReadLock(t)
    /\ Goto(t, "grab")
    /\ UNCHANGED <<open, live, fields, blockedFiles, writer, todo, client>>

GrabbedNot(b) == refcount
Grabbed(b) == [refcount EXCEPT ![b] = @ + 1]

GrabReference(t) ==
    /\ pc[t] = "grab"
    /\ refcount' = Grabbed(block[t])
    /\ readers' = readers \ {t}
    /\ Goto(t, "wait")
    /\ UNCHANGED <<open, live, completed, filename, blocker, blockedFiles, writer, block, todo, client>>

\* A completion stays completed; complete() instead of complete_all() would be used up.
UsedUp(b) == [completed EXCEPT ![b] = FALSE]
StaysCompleted(b) == completed

Wake(t) ==
    /\ pc[t] = "wait" /\ completed[block[t]]
    /\ completed' = StaysCompleted(block[t])
    /\ Goto(t, "drop")
    /\ UNCHANGED <<open, live, refcount, filename, blocker, blockedFiles, writer, readers, block, todo,
                   client>>

(***************************************************************************)
(* BlockDropReference: whoever drops the last reference frees the block.    *)
(***************************************************************************)
AfterDrop(t) == IF writer = t THEN "next" ELSE "idle"

DropReference(t) ==
    LET b == block[t]
    IN  /\ pc[t] = "drop"
        /\ refcount' = [refcount EXCEPT ![b] = @ - 1]
        /\ Goto(t, IF refcount[b] = 1 THEN "free" ELSE AfterDrop(t))
        /\ block' = IF refcount[b] = 1 THEN block ELSE [block EXCEPT ![t] = None]
        /\ UNCHANGED <<open, live, completed, filename, blocker, blockedFiles, writer, readers, todo,
                       client>>

\* FreeBlock leaks a block that is still in the list.
FreeBlock(t) ==
    /\ pc[t] = "free"
    /\ live' = IF block[t] \in blockedFiles THEN live ELSE live \ {block[t]}
    /\ block' = [block EXCEPT ![t] = None]
    /\ Goto(t, AfterDrop(t))
    /\ UNCHANGED <<open, fields, blockedFiles, writer, readers, todo, client>>

Step(t) ==
    RemoveNext(t) \/ WriteUnlock(t) \/ Complete(t) \/ GrabReference(t) \/ Wake(t)
    \/ DropReference(t) \/ FreeBlock(t)

Next ==
    \/ \E o \in Blockers : Open(o)
    \/ \E t \in Threads, f \in Files, o \in Blockers, b \in Blocks : Add(t, f, o, b)
    \/ \E t \in Threads, f \in Files, o \in Blockers : Remove(t, f, o)
    \/ \E t \in Threads, o \in Blockers : Release(t, o)
    \/ \E t \in Threads, f \in Files : WaitOnFile(t, f)
    \/ \E t \in Threads : Step(t)

Spec == Init /\ [][Next]_vars

\* Threads that can run do.
FairSpec == Spec /\ \A t \in Threads : WF_vars(Step(t))
-----------------------------------------------------------------------------
\* The threads that own a reference to b, and the one that removes it from the list.
Holders(b) == {t \in Threads : block[t] = b /\ pc[t] \in {"wait", "complete", "drop"}}

(***************************************************************************)
(* The reference count of an allocated block is the number of threads with  *)
(* a reference, plus one while it is in the list; it is 0 only for the one  *)
(* thread that is about to free it.                                         *)
(***************************************************************************)
RefsCounted ==
    \A b \in live :
        /\ refcount[b] = Cardinality(Holders(b)) + (IF b \in blockedFiles THEN 1 ELSE 0)
        /\ refcount[b] = 0 => \E t \in Threads : block[t] = b /\ pc[t] = "free"

(***************************************************************************)
(* Whoever uses a block uses allocated memory, blocks in the list are       *)
(* allocated, and nobody else has a block that is about to be freed.        *)
(***************************************************************************)
UsersHoldLive ==
    /\ blockedFiles \subseteq live
    /\ \A t \in Threads : block[t] # None => block[t] \in live
    /\ \A t, u \in Threads : block[t] # None /\ block[t] = block[u] /\ pc[t] = "free" => t = u

(***************************************************************************)
(* A file has one block, although BlockAddFileBlock is called by several    *)
(* blockers ("this function assumes a block on filename does not already    *)
(* exist").                                                                 *)
(***************************************************************************)
OneBlockPerFile == \A b, c \in blockedFiles : filename[b] = filename[c] => b = c

(***************************************************************************)
(* A closed control file has left no block behind ("Removes any blocks      *)
(* created via this file"); there would be nobody to remove it.             *)
(***************************************************************************)
ClosedLeavesNone == \A b \in blockedFiles : open[blocker[b]] # "closed"

(***************************************************************************)
(* What BlockAddFileBlock and VMBlockRelease promise together: a file has   *)
(* at most one block, and that is the block of an open control file.        *)
(***************************************************************************)
ListSound == OneBlockPerFile /\ ClosedLeavesNone

(***************************************************************************)
(* "All calls to BlockWaitOnFile() with the same filename will not return   *)
(* until BlockRemoveFileBlock() is called": a block in the list has not     *)
(* completed, also when its memory was that of an earlier block.            *)
(***************************************************************************)
BlockedUntilRemoved == \A b \in blockedFiles : ~completed[b]

(***************************************************************************)
(* "Note that only the blocker that added a block can remove it": a block   *)
(* leaves the list only in an operation of its blocker.                     *)
(***************************************************************************)
OnlyBlockerRemoves ==
    [][\A b \in blockedFiles \ blockedFiles' : writer' # None /\ client'[writer'] = blocker[b]]_vars

(***************************************************************************)
(* Who waits for a block that is no longer in the list comes back.          *)
(***************************************************************************)
RemovedWakes ==
    \A t \in Threads : (pc[t] = "wait" /\ block[t] \notin blockedFiles) ~> pc[t] = "idle"
=============================================================================
