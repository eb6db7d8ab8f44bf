--------------------------- MODULE VMBlockProofs ---------------------------
(***************************************************************************)
(* Proofs about VMBlock, for any number of threads, files, blockers and     *)
(* blocks.                                                                  *)
(***************************************************************************)
EXTENDS VMBlock, FiniteSetTheorems, TLAPS

(***************************************************************************)
(* Who holds which lock, and what follows for its local variables.          *)
(***************************************************************************)
LockInv ==
    /\ \A t \in Threads : t \in readers <=> pc[t] = "grab"
    /\ writer # None => readers = {}
    /\ \A t \in Threads : writer = t <=> client[t] # None
    /\ \A t \in Threads : pc[t] \in {"complete", "next"} => writer = t
    /\ \A t \in Threads : writer = t => pc[t] \in {"complete", "drop", "free", "next"}
    /\ \A t \in Threads : todo[t] # {} => writer = t
    /\ \A t \in Threads : \A b \in todo[t] : b \in blockedFiles /\ blocker[b] = client[t]

(***************************************************************************)
(* Who has a pointer to a block, and whether that block is in the list.     *)
(***************************************************************************)
PointerInv ==
    /\ \A t \in Threads : block[t] # None <=> pc[t] \in {"grab", "wait", "complete", "drop", "free"}
    /\ \A t \in Threads : pc[t] = "grab" => block[t] \in blockedFiles
    /\ \A t \in Threads : pc[t] \in {"complete", "drop", "free"} => block[t] \notin blockedFiles
    /\ \A t \in Threads : pc[t] = "free" => refcount[block[t]] = 0

(***************************************************************************)
(* While a control file is being closed, its blocks are those still to be   *)
(* removed.                                                                 *)
(***************************************************************************)
CloseInv ==
    \A b \in blockedFiles :
        /\ open[blocker[b]] # "closed"
        /\ open[blocker[b]] = "closing" => writer # None /\ b \in todo[writer]

IInv ==
    /\ TypeOK /\ LockInv /\ PointerInv /\ CloseInv
    /\ RefsCounted /\ UsersHoldLive /\ OneBlockPerFile /\ BlockedUntilRemoved
-----------------------------------------------------------------------------
(***************************************************************************)
(* The holders of references are finitely many, so that they can be counted.*)
(***************************************************************************)
LEMMA HoldersFinite ==
  ASSUME NEW b
  PROVE  IsFiniteSet(Holders(b)) /\ Cardinality(Holders(b)) \in Nat
<1>1. Holders(b) \subseteq Threads
  BY DEF Holders
<1> QED
  BY <1>1, VMBlockAssumption, FS_Subset, FS_CardinalityType

(***************************************************************************)
(* Taking one more reference counts up.                                     *)
(***************************************************************************)
LEMMA CountUp ==
  ASSUME NEW b, NEW t \in Threads, t \notin Holders(b), Holders(b)' = Holders(b) \cup {t}
  PROVE  Cardinality(Holders(b)') = Cardinality(Holders(b)) + 1
BY HoldersFinite, FS_AddElement

(***************************************************************************)
(* Dropping a reference counts down.                                        *)
(***************************************************************************)
LEMMA CountDown ==
  ASSUME NEW b, NEW t \in Holders(b), Holders(b)' = Holders(b) \ {t}
  PROVE  Cardinality(Holders(b)') = Cardinality(Holders(b)) - 1
BY HoldersFinite, FS_RemoveElement

(***************************************************************************)
(* A thread with a reference is counted; if the count is 1 it is the only   *)
(* one, and the block is not in the list.                                   *)
(***************************************************************************)
LEMMA HolderCounted ==
  ASSUME IInv, NEW t \in Threads, pc[t] \in {"wait", "complete", "drop"}
  PROVE  /\ block[t] \in live /\ t \in Holders(block[t]) /\ refcount[block[t]] \in Nat
         /\ refcount[block[t]] # 0
         /\ refcount[block[t]] = 1 => block[t] \notin blockedFiles /\ Holders(block[t]) = {t}
<1> USE VMBlockAssumption
<1> DEFINE b == block[t]
<1>1. b \in live /\ b \in Blocks /\ t \in Holders(b) /\ refcount[b] \in Nat
  BY DEF IInv, TypeOK, PointerInv, UsersHoldLive, Holders
<1>2. refcount[b] = Cardinality(Holders(b)) + (IF b \in blockedFiles THEN 1 ELSE 0)
  BY <1>1 DEF IInv, RefsCounted
<1>3. Cardinality(Holders(b)) \in Nat /\ Cardinality(Holders(b) \ {t}) \in Nat
      /\ Cardinality(Holders(b) \ {t}) = Cardinality(Holders(b)) - 1
      /\ IsFiniteSet(Holders(b) \ {t})
  BY <1>1, HoldersFinite, FS_RemoveElement, FS_CardinalityType
<1>4. Cardinality(Holders(b) \ {t}) = 0 => Holders(b) = {t}
  BY <1>1, <1>3, FS_EmptySet
<1> QED
  BY <1>1, <1>2, <1>3, <1>4

(***************************************************************************)
(* Every step keeps the types: a reference that BlockDropReference drops was *)
(* counted.                                                                 *)
(***************************************************************************)
LEMMA TypeStep == ASSUME IInv, [Next]_vars PROVE TypeOK'
<1> USE VMBlockAssumption
<1>1. CASE UNCHANGED vars
  BY <1>1, Zenon DEF vars, fields, IInv, TypeOK, Pcs
<1>2. ASSUME NEW o \in Blockers, Open(o) PROVE TypeOK'
  BY <1>2 DEF IInv, TypeOK, fields, TypeOK, Pcs, Open
<1>3. ASSUME NEW t \in Threads, NEW f \in Files, NEW o \in Blockers, NEW b \in Blocks, Add(t, f, o, b) PROVE TypeOK'
  BY <1>3 DEF IInv, TypeOK, fields, TypeOK, Pcs, Add, Unlocked, MayAdd, GetBlock, CompletionInit
<1>4. ASSUME NEW t \in Threads, NEW f \in Files, NEW o \in Blockers, Remove(t, f, o) PROVE TypeOK'
  BY <1>4 DEF IInv, TypeOK, fields, TypeOK, Pcs, Remove, Unlocked, GetBlockOf, Unlink, Goto
<1>5. ASSUME NEW t \in Threads, NEW o \in Blockers, Release(t, o) PROVE TypeOK'
  BY <1>5 DEF IInv, TypeOK, fields, TypeOK, Pcs, Release, Unlocked, OwnBlocks, Goto
<1>6. ASSUME NEW t \in Threads, NEW f \in Files, WaitOnFile(t, f) PROVE TypeOK'
  BY <1>6 DEF IInv, TypeOK, fields, TypeOK, Pcs, WaitOnFile, GetBlock, ReadLock, Goto
<1>7. ASSUME NEW t \in Threads, RemoveNext(t) PROVE TypeOK'
  BY <1>7 DEF IInv, TypeOK, fields, TypeOK, Pcs, RemoveNext, Unlink, Goto
<1>8. ASSUME NEW t \in Threads, WriteUnlock(t) PROVE TypeOK'
  BY <1>8 DEF IInv, TypeOK, fields, TypeOK, Pcs, WriteUnlock, Goto
<1>9. ASSUME NEW t \in Threads, Complete(t) PROVE TypeOK'
  BY Zenon, <1>9 DEF IInv, TypeOK, fields, TypeOK, Pcs, Complete, Goto
<1>10. ASSUME NEW t \in Threads, GrabReference(t) PROVE TypeOK'
  BY <1>10 DEF IInv, TypeOK, Pcs, PointerInv, UsersHoldLive, GrabReference, Grabbed, Goto
<1>11. ASSUME NEW t \in Threads, Wake(t) PROVE TypeOK'
  BY <1>11 DEF IInv, TypeOK, fields, TypeOK, Pcs, Wake, StaysCompleted, Goto
<1>12. ASSUME NEW t \in Threads, DropReference(t) PROVE TypeOK'
  BY <1>12, HolderCounted DEF IInv, TypeOK, Pcs, fields, PointerInv, DropReference, AfterDrop,
                              Goto
<1>13. ASSUME NEW t \in Threads, FreeBlock(t) PROVE TypeOK'
  BY <1>13 DEF IInv, TypeOK, fields, TypeOK, Pcs, FreeBlock, AfterDrop, Goto
<1>q. QED
  BY <1>1, <1>2, <1>3, <1>4, <1>5, <1>6, <1>7, <1>8, <1>9, <1>10, <1>11, <1>12, <1>13
     DEF Next, Step

(***************************************************************************)
(* Every step keeps the blocks in use allocated: whoever frees a block is   *)
(* the last to have it.                                                     *)
(***************************************************************************)
LEMMA LiveStep == ASSUME IInv, [Next]_vars PROVE UsersHoldLive'
<1> USE VMBlockAssumption
<1>1. CASE UNCHANGED vars
  BY <1>1, Zenon DEF vars, fields, IInv, UsersHoldLive, PointerInv, LockInv, BlockedUntilRemoved
<1>2. ASSUME NEW o \in Blockers, Open(o) PROVE UsersHoldLive'
  BY <1>2 DEF IInv, TypeOK, fields, UsersHoldLive, PointerInv, LockInv, BlockedUntilRemoved, Open
<1>3. ASSUME NEW t \in Threads, NEW f \in Files, NEW o \in Blockers, NEW b \in Blocks, Add(t, f, o, b) PROVE UsersHoldLive'
  BY <1>3 DEF IInv, TypeOK, fields, UsersHoldLive, PointerInv, LockInv, BlockedUntilRemoved, Add,
              Unlocked, MayAdd, GetBlock, CompletionInit
<1>4. ASSUME NEW t \in Threads, NEW f \in Files, NEW o \in Blockers, Remove(t, f, o) PROVE UsersHoldLive'
  BY <1>4 DEF IInv, TypeOK, fields, UsersHoldLive, PointerInv, LockInv, BlockedUntilRemoved,
              Remove, Unlocked, GetBlockOf, Unlink, Goto
<1>5. ASSUME NEW t \in Threads, NEW o \in Blockers, Release(t, o) PROVE UsersHoldLive'
  BY <1>5 DEF IInv, TypeOK, fields, UsersHoldLive, PointerInv, LockInv, BlockedUntilRemoved,
              Release, Unlocked, OwnBlocks, Goto
<1>6. ASSUME NEW t \in Threads, NEW f \in Files, WaitOnFile(t, f) PROVE UsersHoldLive'
  BY <1>6 DEF IInv, TypeOK, fields, UsersHoldLive, PointerInv, LockInv, BlockedUntilRemoved,
              WaitOnFile, GetBlock, ReadLock, Goto
<1>7. ASSUME NEW t \in Threads, RemoveNext(t) PROVE UsersHoldLive'
  BY <1>7 DEF IInv, TypeOK, fields, UsersHoldLive, PointerInv, LockInv, BlockedUntilRemoved,
              RemoveNext, Unlink, Goto
<1>8. ASSUME NEW t \in Threads, WriteUnlock(t) PROVE UsersHoldLive'
  BY <1>8 DEF IInv, TypeOK, fields, UsersHoldLive, PointerInv, LockInv, BlockedUntilRemoved,
              WriteUnlock, Goto
<1>9. ASSUME NEW t \in Threads, Complete(t) PROVE UsersHoldLive'
  BY <1>9 DEF IInv, TypeOK, fields, UsersHoldLive, PointerInv, LockInv, BlockedUntilRemoved,
              Complete, Goto
<1>10. ASSUME NEW t \in Threads, GrabReference(t) PROVE UsersHoldLive'
  BY <1>10 DEF IInv, TypeOK, fields, UsersHoldLive, PointerInv, LockInv, BlockedUntilRemoved,
               GrabReference, Grabbed, Goto
<1>11. ASSUME NEW t \in Threads, Wake(t) PROVE UsersHoldLive'
  BY <1>11 DEF IInv, TypeOK, fields, UsersHoldLive, PointerInv, LockInv, BlockedUntilRemoved,
               Wake, StaysCompleted, Goto
<1>12. ASSUME NEW t \in Threads, DropReference(t) PROVE UsersHoldLive'
  <2> DEFINE b == block[t]
  <2>1. /\ b \in live /\ t \in Holders(b) /\ refcount[b] \in Nat
        /\ refcount[b] = 1 => b \notin blockedFiles /\ Holders(b) = {t}
    BY <1>12, HolderCounted DEF DropReference
  <2>2. ASSUME refcount[b] = 1, NEW u \in Threads, block[u] = b PROVE u = t
    BY <1>12, <2>1, <2>2, VMBlockAssumption DEF IInv, TypeOK, PointerInv, Holders, DropReference
  <2> QED
    BY <1>12, <2>1, <2>2 DEF IInv, TypeOK, UsersHoldLive, PointerInv, DropReference, AfterDrop,
                             Goto
<1>13. ASSUME NEW t \in Threads, FreeBlock(t) PROVE UsersHoldLive'
  BY <1>13 DEF IInv, TypeOK, fields, UsersHoldLive, PointerInv, FreeBlock, AfterDrop, Goto
<1>q. QED
  BY <1>1, <1>2, <1>3, <1>4, <1>5, <1>6, <1>7, <1>8, <1>9, <1>10, <1>11, <1>12, <1>13
     DEF Next, Step

(***************************************************************************)
(* Every step that takes or drops a reference changes the count, and no     *)
(* other does.                                                              *)
(***************************************************************************)
LEMMA RefsStep == ASSUME IInv, [Next]_vars PROVE RefsCounted'
<1> USE VMBlockAssumption
<1>1. CASE UNCHANGED vars
  <2>1. \A b : Holders(b)' = Holders(b)
    BY <1>1, Zenon DEF vars, Holders
  <2>2. UNCHANGED <<live, refcount, blockedFiles, block, pc>>
    BY <1>1, Zenon DEF vars, fields
  <2> QED
    BY <2>1, <2>2 DEF IInv, RefsCounted
<1>2. ASSUME NEW o \in Blockers, Open(o) PROVE RefsCounted'
  <2>1. \A b \in Blocks : Holders(b)' = Holders(b)
    BY <1>2 DEF IInv, TypeOK, fields, Holders, PointerInv, LockInv, Open
  <2> QED
    BY <1>2, <2>1 DEF IInv, TypeOK, fields, RefsCounted, PointerInv, LockInv, Open
<1>3. ASSUME NEW t \in Threads, NEW f \in Files, NEW o \in Blockers, NEW b \in Blocks, Add(t, f, o, b) PROVE RefsCounted'
  <2>1. \A c \in Blocks : Holders(c)' = Holders(c)
    BY <1>3 DEF Add, fields, Holders
  <2>2. Holders(b) = {}
    BY <1>3 DEF Add, IInv, TypeOK, Holders, PointerInv, UsersHoldLive
  <2>3. b \in blockedFiles' /\ refcount'[b] = 1 /\ Cardinality(Holders(b)') = 0
    BY Zenon, <1>3, <2>1, <2>2, FS_EmptySet DEF Add, IInv, TypeOK
  <2>5. UNCHANGED <<block, pc>>
    BY <1>3 DEF Add
  <2>6. ASSUME NEW c \in live', c # b
        PROVE  /\ refcount'[c] = Cardinality(Holders(c)') + (IF c \in blockedFiles' THEN 1 ELSE 0)
               /\ refcount'[c] = 0 => \E u \in Threads : block'[u] = c /\ pc'[u] = "free"
    <3>0. c \in live /\ c \in Blocks /\ refcount'[c] = refcount[c] /\ (c \in blockedFiles' <=> c \in blockedFiles)
      BY <1>3, <2>6 DEF Add, IInv, TypeOK
    <3>1. Holders(c)' = Holders(c)
      BY <2>1, <3>0
    <3>2. /\ refcount[c] = Cardinality(Holders(c)) + (IF c \in blockedFiles THEN 1 ELSE 0)
          /\ refcount[c] = 0 => \E u \in Threads : block[u] = c /\ pc[u] = "free"
      BY <3>0 DEF IInv, RefsCounted
    <3> QED
      BY <2>5, <3>0, <3>1, <3>2
  <2> QED
    BY <2>3, <2>6 DEF RefsCounted
<1>4. ASSUME NEW t \in Threads, NEW f \in Files, NEW o \in Blockers, Remove(t, f, o) PROVE RefsCounted'
  <2>1. PICK b \in blockedFiles : Unlink(t, b)
    BY <1>4 DEF Remove, GetBlockOf
  <2>2. b \in live /\ b \in Blocks /\ block[t] = None /\ b # None
    BY <1>4, <2>1 DEF IInv, TypeOK, UsersHoldLive, PointerInv, Remove, GetBlockOf
  <2>3. Holders(b)' = Holders(b) \cup {t} /\ t \notin Holders(b)
    BY <1>4, <2>1, <2>2 DEF IInv, TypeOK, Holders, Unlink, Goto
  <2>4. \A c \in Blocks \ {b} : Holders(c)' = Holders(c)
    BY <1>4, <2>1, <2>2 DEF IInv, TypeOK, Holders, Unlink, Goto
  <2>5. Cardinality(Holders(b)') = Cardinality(Holders(b)) + 1
    BY <2>3, CountUp
  <2>6. UNCHANGED <<live, refcount>> /\ blockedFiles' = blockedFiles \ {b}
    BY <1>4, <2>1 DEF Remove, Unlink, fields
  <2>7. \A u \in Threads : pc[u] = "free" => pc'[u] = "free" /\ block'[u] = block[u]
    BY <1>4, <2>1 DEF Remove, IInv, TypeOK, Unlink, Goto
  <2>8. refcount[b] = Cardinality(Holders(b)) + 1 /\ Cardinality(Holders(b)) \in Nat /\ refcount[b] # 0
    BY <2>1, <2>2, HoldersFinite DEF IInv, RefsCounted
  <2> QED
    BY <2>1, <2>2, <2>4, <2>5, <2>6, <2>7, <2>8 DEF IInv, TypeOK, RefsCounted
<1>5. ASSUME NEW t \in Threads, NEW o \in Blockers, Release(t, o) PROVE RefsCounted'
  <2>1. \A b \in Blocks : Holders(b)' = Holders(b)
    BY <1>5 DEF IInv, TypeOK, fields, Holders, PointerInv, LockInv, Release, Unlocked, OwnBlocks,
                Goto
  <2> QED
    BY <1>5, <2>1 DEF IInv, TypeOK, fields, RefsCounted, PointerInv, LockInv, Release, Unlocked,
                      OwnBlocks, Goto
<1>6. ASSUME NEW t \in Threads, NEW f \in Files, WaitOnFile(t, f) PROVE RefsCounted'
  <2>1. \A b \in Blocks : Holders(b)' = Holders(b)
    BY <1>6 DEF IInv, TypeOK, fields, Holders, PointerInv, LockInv, WaitOnFile, GetBlock,
                ReadLock, Goto
  <2> QED
    BY <1>6, <2>1 DEF IInv, TypeOK, fields, RefsCounted, PointerInv, LockInv, WaitOnFile,
                      GetBlock, ReadLock, Goto
<1>7. ASSUME NEW t \in Threads, RemoveNext(t) PROVE RefsCounted'
  <2>1. PICK b \in blockedFiles : Unlink(t, b)
    BY <1>7 DEF RemoveNext, IInv, LockInv
  <2>2. b \in live /\ b \in Blocks /\ block[t] = None /\ b # None
    BY <1>7, <2>1 DEF IInv, TypeOK, UsersHoldLive, PointerInv, RemoveNext, IInv, LockInv
  <2>3. Holders(b)' = Holders(b) \cup {t} /\ t \notin Holders(b)
    BY <1>7, <2>1, <2>2 DEF IInv, TypeOK, Holders, Unlink, Goto
  <2>4. \A c \in Blocks \ {b} : Holders(c)' = Holders(c)
    BY <1>7, <2>1, <2>2 DEF IInv, TypeOK, Holders, Unlink, Goto
  <2>5. Cardinality(Holders(b)') = Cardinality(Holders(b)) + 1
    BY <2>3, CountUp
  <2>6. UNCHANGED <<live, refcount>> /\ blockedFiles' = blockedFiles \ {b}
    BY <1>7, <2>1 DEF RemoveNext, Unlink, fields
  <2>7. \A u \in Threads : pc[u] = "free" => pc'[u] = "free" /\ block'[u] = block[u]
    BY <1>7, <2>1 DEF RemoveNext, IInv, TypeOK, Unlink, Goto
  <2>8. refcount[b] = Cardinality(Holders(b)) + 1 /\ Cardinality(Holders(b)) \in Nat /\ refcount[b] # 0
    BY <2>1, <2>2, HoldersFinite DEF IInv, RefsCounted
  <2> QED
    BY <2>1, <2>2, <2>4, <2>5, <2>6, <2>7, <2>8 DEF IInv, TypeOK, RefsCounted
<1>8. ASSUME NEW t \in Threads, WriteUnlock(t) PROVE RefsCounted'
  <2>1. \A b \in Blocks : Holders(b)' = Holders(b)
    BY <1>8 DEF IInv, TypeOK, fields, Holders, PointerInv, LockInv, WriteUnlock, Goto
  <2> QED
    BY <1>8, <2>1 DEF IInv, TypeOK, fields, RefsCounted, PointerInv, LockInv, WriteUnlock, Goto
<1>9. ASSUME NEW t \in Threads, Complete(t) PROVE RefsCounted'
  <2>1. \A b \in Blocks : Holders(b)' = Holders(b)
    BY <1>9 DEF IInv, TypeOK, fields, Holders, PointerInv, LockInv, Complete, Goto
  <2> QED
    BY <1>9, <2>1 DEF IInv, TypeOK, fields, RefsCounted, PointerInv, LockInv, Complete, Goto
<1>10. ASSUME NEW t \in Threads, GrabReference(t) PROVE RefsCounted'
  <2>1. PICK b \in Blocks : b = block[t] /\ b \in live /\ b \in blockedFiles
    BY <1>10 DEF IInv, TypeOK, UsersHoldLive, PointerInv, GrabReference
  <2>2. Holders(b)' = Holders(b) \cup {t} /\ t \notin Holders(b)
    BY <1>10, <2>1 DEF IInv, TypeOK, Holders, GrabReference, Goto
  <2>3. \A c \in Blocks \ {b} : Holders(c)' = Holders(c)
    BY <1>10, <2>1 DEF IInv, TypeOK, Holders, GrabReference, Goto
  <2>4. Cardinality(Holders(b)') = Cardinality(Holders(b)) + 1
    BY <2>2, CountUp
  <2>5. /\ UNCHANGED <<live, blockedFiles, block>> /\ refcount'[b] = refcount[b] + 1
        /\ \A c \in Blocks \ {b} : refcount'[c] = refcount[c]
    BY <1>10, <2>1 DEF GrabReference, Grabbed, IInv, TypeOK
  <2>6. \A u \in Threads : pc[u] = "free" => pc'[u] = "free"
    BY <1>10 DEF GrabReference, IInv, TypeOK, Goto
  <2>7. refcount[b] = Cardinality(Holders(b)) + 1 /\ Cardinality(Holders(b)) \in Nat
    BY <2>1, HoldersFinite DEF IInv, RefsCounted
  <2> QED
    BY <2>1, <2>3, <2>4, <2>5, <2>6, <2>7 DEF IInv, TypeOK, RefsCounted
<1>11. ASSUME NEW t \in Threads, Wake(t) PROVE RefsCounted'
  <2>1. \A b \in Blocks : Holders(b)' = Holders(b)
    BY <1>11 DEF IInv, TypeOK, fields, Holders, PointerInv, LockInv, Wake, StaysCompleted, Goto
  <2> QED
    BY <1>11, <2>1 DEF IInv, TypeOK, fields, RefsCounted, PointerInv, LockInv, Wake,
                       StaysCompleted, Goto
<1>12. ASSUME NEW t \in Threads, DropReference(t) PROVE RefsCounted'
  <2>1. PICK b \in Blocks : b = block[t] /\ b \in live /\ t \in Holders(b) /\ refcount[b] \in Nat /\ refcount[b] # 0
    BY <1>12, HolderCounted DEF IInv, TypeOK, DropReference
  <2>2. Holders(b)' = Holders(b) \ {t}
    BY <1>12, <2>1 DEF IInv, TypeOK, Holders, DropReference, AfterDrop, Goto
  <2>3. \A c \in Blocks \ {b} : Holders(c)' = Holders(c)
    BY <1>12, <2>1 DEF IInv, TypeOK, Holders, DropReference, AfterDrop, Goto
  <2>4. Cardinality(Holders(b)') = Cardinality(Holders(b)) - 1
    BY Zenon, <2>1, <2>2, CountDown
  <2>5. /\ UNCHANGED <<live, blockedFiles>> /\ refcount'[b] = refcount[b] - 1
        /\ \A c \in Blocks \ {b} : refcount'[c] = refcount[c]
    BY <1>12, <2>1 DEF DropReference, IInv, TypeOK
  <2>6. \A u \in Threads : pc[u] = "free" => pc'[u] = "free" /\ block'[u] = block[u]
    BY <1>12 DEF DropReference, IInv, TypeOK, Goto
  <2>7. refcount'[b] = 0 => pc'[t] = "free" /\ block'[t] = b
    BY <1>12, <2>1, <2>5 DEF DropReference, IInv, TypeOK, Goto
  <2>8. refcount[b] = Cardinality(Holders(b)) + (IF b \in blockedFiles THEN 1 ELSE 0)
        /\ Cardinality(Holders(b)) \in Nat
    BY <2>1, HoldersFinite DEF IInv, RefsCounted
  <2> QED
    BY <2>1, <2>3, <2>4, <2>5, <2>6, <2>7, <2>8 DEF IInv, TypeOK, RefsCounted
<1>13. ASSUME NEW t \in Threads, FreeBlock(t) PROVE RefsCounted'
  <2>1. \A b \in Blocks : Holders(b)' = Holders(b)
    BY <1>13 DEF IInv, TypeOK, fields, Holders, PointerInv, LockInv, FreeBlock, AfterDrop, Goto
  <2> QED
    BY <1>13, <2>1 DEF IInv, TypeOK, fields, RefsCounted, PointerInv, LockInv, FreeBlock,
                       AfterDrop, Goto
<1>q. QED
  BY <1>1, <1>2, <1>3, <1>4, <1>5, <1>6, <1>7, <1>8, <1>9, <1>10, <1>11, <1>12, <1>13
     DEF Next, Step

(***************************************************************************)
(* Every step of block.c keeps the locks in order.                          *)
(***************************************************************************)
LEMMA LockStep == ASSUME IInv, [Next]_vars PROVE LockInv'
<1> USE VMBlockAssumption
<1>1. CASE UNCHANGED vars
  BY <1>1, Zenon DEF vars, fields, IInv, LockInv, PointerInv
<1>2. ASSUME NEW o \in Blockers, Open(o) PROVE LockInv'
  BY <1>2 DEF IInv, TypeOK, fields, LockInv, PointerInv, Open
<1>3. ASSUME NEW t \in Threads, NEW f \in Files, NEW o \in Blockers, NEW b \in Blocks, Add(t, f, o, b) PROVE LockInv'
  BY <1>3 DEF IInv, TypeOK, fields, LockInv, PointerInv, Add, Unlocked, MayAdd, GetBlock,
              CompletionInit
<1>4. ASSUME NEW t \in Threads, NEW f \in Files, NEW o \in Blockers, Remove(t, f, o) PROVE LockInv'
  BY <1>4 DEF IInv, TypeOK, fields, LockInv, PointerInv, Remove, Unlocked, GetBlockOf, Unlink,
              Goto
<1>5. ASSUME NEW t \in Threads, NEW o \in Blockers, Release(t, o) PROVE LockInv'
  BY <1>5 DEF IInv, TypeOK, fields, LockInv, PointerInv, Release, Unlocked, OwnBlocks, Goto
<1>6. ASSUME NEW t \in Threads, NEW f \in Files, WaitOnFile(t, f) PROVE LockInv'
  BY <1>6 DEF IInv, TypeOK, fields, LockInv, PointerInv, WaitOnFile, GetBlock, ReadLock, Goto
<1>7. ASSUME NEW t \in Threads, RemoveNext(t) PROVE LockInv'
  BY <1>7 DEF IInv, TypeOK, fields, LockInv, PointerInv, RemoveNext, Unlink, Goto
<1>8. ASSUME NEW t \in Threads, WriteUnlock(t) PROVE LockInv'
  BY <1>8 DEF IInv, TypeOK, fields, LockInv, PointerInv, WriteUnlock, Goto
<1>9. ASSUME NEW t \in Threads, Complete(t) PROVE LockInv'
  BY <1>9 DEF IInv, TypeOK, fields, LockInv, PointerInv, Complete, Goto
<1>10. ASSUME NEW t \in Threads, GrabReference(t) PROVE LockInv'
  BY <1>10 DEF IInv, TypeOK, fields, LockInv, PointerInv, GrabReference, Grabbed, Goto
<1>11. ASSUME NEW t \in Threads, Wake(t) PROVE LockInv'
  BY <1>11 DEF IInv, TypeOK, fields, LockInv, PointerInv, Wake, StaysCompleted, Goto
<1>12. ASSUME NEW t \in Threads, DropReference(t) PROVE LockInv'
  BY <1>12 DEF IInv, TypeOK, fields, LockInv, PointerInv, DropReference, AfterDrop, Goto
<1>13. ASSUME NEW t \in Threads, FreeBlock(t) PROVE LockInv'
  BY <1>13 DEF IInv, TypeOK, fields, LockInv, PointerInv, FreeBlock, AfterDrop, Goto
<1>q. QED
  BY <1>1, <1>2, <1>3, <1>4, <1>5, <1>6, <1>7, <1>8, <1>9, <1>10, <1>11, <1>12, <1>13
     DEF Next, Step

(***************************************************************************)
(* Every step keeps the threads' pointers to blocks in order.               *)
(***************************************************************************)
LEMMA PointerStep == ASSUME IInv, [Next]_vars PROVE PointerInv'
<1> USE VMBlockAssumption
<1>1. CASE UNCHANGED vars
  BY <1>1, Zenon DEF vars, fields, IInv, PointerInv, LockInv, RefsCounted, UsersHoldLive,
                     BlockedUntilRemoved
<1>2. ASSUME NEW o \in Blockers, Open(o) PROVE PointerInv'
  BY <1>2 DEF IInv, TypeOK, fields, PointerInv, LockInv, RefsCounted, UsersHoldLive,
              BlockedUntilRemoved, Open
<1>3. ASSUME NEW t \in Threads, NEW f \in Files, NEW o \in Blockers, NEW b \in Blocks, Add(t, f, o, b) PROVE PointerInv'
  BY <1>3 DEF IInv, TypeOK, fields, PointerInv, LockInv, RefsCounted, UsersHoldLive,
              BlockedUntilRemoved, Add, Unlocked, MayAdd, GetBlock, CompletionInit
<1>4. ASSUME NEW t \in Threads, NEW f \in Files, NEW o \in Blockers, Remove(t, f, o) PROVE PointerInv'
  BY <1>4 DEF IInv, TypeOK, fields, PointerInv, LockInv, RefsCounted, UsersHoldLive,
              BlockedUntilRemoved, Remove, Unlocked, GetBlockOf, Unlink, Goto
<1>5. ASSUME NEW t \in Threads, NEW o \in Blockers, Release(t, o) PROVE PointerInv'
  BY <1>5 DEF IInv, TypeOK, fields, PointerInv, LockInv, RefsCounted, UsersHoldLive,
              BlockedUntilRemoved, Release, Unlocked, OwnBlocks, Goto
<1>6. ASSUME NEW t \in Threads, NEW f \in Files, WaitOnFile(t, f) PROVE PointerInv'
  BY <1>6 DEF IInv, TypeOK, fields, PointerInv, LockInv, RefsCounted, UsersHoldLive,
              BlockedUntilRemoved, WaitOnFile, GetBlock, ReadLock, Goto
<1>7. ASSUME NEW t \in Threads, RemoveNext(t) PROVE PointerInv'
  BY <1>7 DEF IInv, TypeOK, fields, PointerInv, LockInv, RefsCounted, UsersHoldLive,
              BlockedUntilRemoved, RemoveNext, Unlink, Goto
<1>8. ASSUME NEW t \in Threads, WriteUnlock(t) PROVE PointerInv'
  BY <1>8 DEF IInv, TypeOK, fields, PointerInv, LockInv, RefsCounted, UsersHoldLive,
              BlockedUntilRemoved, WriteUnlock, Goto
<1>9. ASSUME NEW t \in Threads, Complete(t) PROVE PointerInv'
  BY <1>9 DEF IInv, TypeOK, fields, PointerInv, LockInv, RefsCounted, UsersHoldLive,
              BlockedUntilRemoved, Complete, Goto
<1>10. ASSUME NEW t \in Threads, GrabReference(t) PROVE PointerInv'
  BY <1>10 DEF IInv, TypeOK, fields, PointerInv, LockInv, RefsCounted, UsersHoldLive,
               BlockedUntilRemoved, GrabReference, Grabbed, Goto
<1>11. ASSUME NEW t \in Threads, Wake(t) PROVE PointerInv'
  BY <1>11 DEF IInv, TypeOK, fields, PointerInv, LockInv, RefsCounted, UsersHoldLive,
               BlockedUntilRemoved, Wake, StaysCompleted, Goto
<1>12. ASSUME NEW t \in Threads, DropReference(t) PROVE PointerInv'
  BY <1>12 DEF IInv, TypeOK, fields, PointerInv, LockInv, RefsCounted, UsersHoldLive,
               BlockedUntilRemoved, DropReference, AfterDrop, Goto
<1>13. ASSUME NEW t \in Threads, FreeBlock(t) PROVE PointerInv'
  BY <1>13 DEF IInv, TypeOK, fields, PointerInv, LockInv, RefsCounted, UsersHoldLive,
               BlockedUntilRemoved, FreeBlock, AfterDrop, Goto
<1>q. QED
  BY <1>1, <1>2, <1>3, <1>4, <1>5, <1>6, <1>7, <1>8, <1>9, <1>10, <1>11, <1>12, <1>13
     DEF Next, Step

(***************************************************************************)
(* Every step keeps what is known of the blocks of a file being closed.     *)
(***************************************************************************)
LEMMA CloseStep == ASSUME IInv, [Next]_vars PROVE CloseInv'
<1> USE VMBlockAssumption
<1>1. CASE UNCHANGED vars
  BY <1>1, Zenon DEF vars, fields, IInv, CloseInv, LockInv, PointerInv
<1>2. ASSUME NEW o \in Blockers, Open(o) PROVE CloseInv'
  BY <1>2 DEF IInv, TypeOK, fields, CloseInv, LockInv, PointerInv, Open
<1>3. ASSUME NEW t \in Threads, NEW f \in Files, NEW o \in Blockers, NEW b \in Blocks, Add(t, f, o, b) PROVE CloseInv'
  BY <1>3 DEF IInv, TypeOK, fields, CloseInv, LockInv, PointerInv, Add, Unlocked, MayAdd,
              GetBlock, CompletionInit
<1>4. ASSUME NEW t \in Threads, NEW f \in Files, NEW o \in Blockers, Remove(t, f, o) PROVE CloseInv'
  BY <1>4 DEF IInv, TypeOK, fields, CloseInv, LockInv, PointerInv, Remove, Unlocked, GetBlockOf,
              Unlink, Goto
<1>5. ASSUME NEW t \in Threads, NEW o \in Blockers, Release(t, o) PROVE CloseInv'
  BY <1>5 DEF IInv, TypeOK, fields, CloseInv, LockInv, PointerInv, Release, Unlocked, OwnBlocks,
              Goto
<1>6. ASSUME NEW t \in Threads, NEW f \in Files, WaitOnFile(t, f) PROVE CloseInv'
  BY <1>6 DEF IInv, TypeOK, fields, CloseInv, LockInv, PointerInv, WaitOnFile, GetBlock, ReadLock,
              Goto
<1>7. ASSUME NEW t \in Threads, RemoveNext(t) PROVE CloseInv'
  BY <1>7 DEF IInv, TypeOK, fields, CloseInv, LockInv, PointerInv, RemoveNext, Unlink, Goto
<1>8. ASSUME NEW t \in Threads, WriteUnlock(t) PROVE CloseInv'
  BY <1>8 DEF IInv, TypeOK, fields, CloseInv, LockInv, PointerInv, WriteUnlock, Goto
<1>9. ASSUME NEW t \in Threads, Complete(t) PROVE CloseInv'
  BY <1>9 DEF IInv, TypeOK, fields, CloseInv, LockInv, PointerInv, Complete, Goto
<1>10. ASSUME NEW t \in Threads, GrabReference(t) PROVE CloseInv'
  BY <1>10 DEF IInv, TypeOK, fields, CloseInv, LockInv, PointerInv, GrabReference, Grabbed, Goto
<1>11. ASSUME NEW t \in Threads, Wake(t) PROVE CloseInv'
  BY <1>11 DEF IInv, TypeOK, fields, CloseInv, LockInv, PointerInv, Wake, StaysCompleted, Goto
<1>12. ASSUME NEW t \in Threads, DropReference(t) PROVE CloseInv'
  BY <1>12 DEF IInv, TypeOK, fields, CloseInv, LockInv, PointerInv, DropReference, AfterDrop, Goto
<1>13. ASSUME NEW t \in Threads, FreeBlock(t) PROVE CloseInv'
  BY <1>13 DEF IInv, TypeOK, fields, CloseInv, LockInv, PointerInv, FreeBlock, AfterDrop, Goto
<1>q. QED
  BY <1>1, <1>2, <1>3, <1>4, <1>5, <1>6, <1>7, <1>8, <1>9, <1>10, <1>11, <1>12, <1>13
     DEF Next, Step

(***************************************************************************)
(* No step of block.c puts a second block on a file.                        *)
(***************************************************************************)
LEMMA OneBlockStep == ASSUME IInv, [Next]_vars PROVE OneBlockPerFile'
<1> USE VMBlockAssumption
<1>1. CASE UNCHANGED vars
  BY <1>1, Zenon DEF vars, fields, IInv, OneBlockPerFile, LockInv, UsersHoldLive
<1>2. ASSUME NEW o \in Blockers, Open(o) PROVE OneBlockPerFile'
  BY <1>2 DEF IInv, TypeOK, fields, OneBlockPerFile, LockInv, UsersHoldLive, Open
<1>3. ASSUME NEW t \in Threads, NEW f \in Files, NEW o \in Blockers, NEW b \in Blocks, Add(t, f, o, b) PROVE OneBlockPerFile'
  BY <1>3 DEF IInv, TypeOK, fields, OneBlockPerFile, LockInv, UsersHoldLive, Add, Unlocked,
              MayAdd, GetBlock, CompletionInit
<1>4. ASSUME NEW t \in Threads, NEW f \in Files, NEW o \in Blockers, Remove(t, f, o) PROVE OneBlockPerFile'
  BY <1>4 DEF IInv, TypeOK, fields, OneBlockPerFile, LockInv, UsersHoldLive, Remove, Unlocked,
              GetBlockOf, Unlink, Goto
<1>5. ASSUME NEW t \in Threads, NEW o \in Blockers, Release(t, o) PROVE OneBlockPerFile'
  BY <1>5 DEF IInv, TypeOK, fields, OneBlockPerFile, LockInv, UsersHoldLive, Release, Unlocked,
              OwnBlocks, Goto
<1>6. ASSUME NEW t \in Threads, NEW f \in Files, WaitOnFile(t, f) PROVE OneBlockPerFile'
  BY <1>6 DEF IInv, TypeOK, fields, OneBlockPerFile, LockInv, UsersHoldLive, WaitOnFile, GetBlock,
              ReadLock, Goto
<1>7. ASSUME NEW t \in Threads, RemoveNext(t) PROVE OneBlockPerFile'
  BY <1>7 DEF IInv, TypeOK, fields, OneBlockPerFile, LockInv, UsersHoldLive, RemoveNext, Unlink,
              Goto
<1>8. ASSUME NEW t \in Threads, WriteUnlock(t) PROVE OneBlockPerFile'
  BY <1>8 DEF IInv, TypeOK, fields, OneBlockPerFile, LockInv, UsersHoldLive, WriteUnlock, Goto
<1>9. ASSUME NEW t \in Threads, Complete(t) PROVE OneBlockPerFile'
  BY <1>9 DEF IInv, TypeOK, fields, OneBlockPerFile, LockInv, UsersHoldLive, Complete, Goto
<1>10. ASSUME NEW t \in Threads, GrabReference(t) PROVE OneBlockPerFile'
  BY <1>10 DEF IInv, TypeOK, fields, OneBlockPerFile, LockInv, UsersHoldLive, GrabReference,
               Grabbed, Goto
<1>11. ASSUME NEW t \in Threads, Wake(t) PROVE OneBlockPerFile'
  BY <1>11 DEF IInv, TypeOK, fields, OneBlockPerFile, LockInv, UsersHoldLive, Wake,
               StaysCompleted, Goto
<1>12. ASSUME NEW t \in Threads, DropReference(t) PROVE OneBlockPerFile'
  BY <1>12 DEF IInv, TypeOK, fields, OneBlockPerFile, LockInv, UsersHoldLive, DropReference,
               AfterDrop, Goto
<1>13. ASSUME NEW t \in Threads, FreeBlock(t) PROVE OneBlockPerFile'
  BY <1>13 DEF IInv, TypeOK, fields, OneBlockPerFile, LockInv, UsersHoldLive, FreeBlock,
               AfterDrop, Goto
<1>q. QED
  BY <1>1, <1>2, <1>3, <1>4, <1>5, <1>6, <1>7, <1>8, <1>9, <1>10, <1>11, <1>12, <1>13
     DEF Next, Step

(***************************************************************************)
(* No step completes a block that is in the list.                           *)
(***************************************************************************)
LEMMA BlockedStep == ASSUME IInv, [Next]_vars PROVE BlockedUntilRemoved'
<1> USE VMBlockAssumption
<1>1. CASE UNCHANGED vars
  BY <1>1, Zenon DEF vars, fields, IInv, BlockedUntilRemoved, LockInv, PointerInv, UsersHoldLive
<1>2. ASSUME NEW o \in Blockers, Open(o) PROVE BlockedUntilRemoved'
  BY <1>2 DEF IInv, TypeOK, fields, BlockedUntilRemoved, LockInv, PointerInv, UsersHoldLive, Open
<1>3. ASSUME NEW t \in Threads, NEW f \in Files, NEW o \in Blockers, NEW b \in Blocks, Add(t, f, o, b) PROVE BlockedUntilRemoved'
  BY <1>3 DEF IInv, TypeOK, fields, BlockedUntilRemoved, LockInv, PointerInv, UsersHoldLive, Add,
              Unlocked, MayAdd, GetBlock, CompletionInit
<1>4. ASSUME NEW t \in Threads, NEW f \in Files, NEW o \in Blockers, Remove(t, f, o) PROVE BlockedUntilRemoved'
  BY <1>4 DEF IInv, TypeOK, fields, BlockedUntilRemoved, LockInv, PointerInv, UsersHoldLive,
              Remove, Unlocked, GetBlockOf, Unlink, Goto
<1>5. ASSUME NEW t \in Threads, NEW o \in Blockers, Release(t, o) PROVE BlockedUntilRemoved'
  BY <1>5 DEF IInv, TypeOK, fields, BlockedUntilRemoved, LockInv, PointerInv, UsersHoldLive,
              Release, Unlocked, OwnBlocks, Goto
<1>6. ASSUME NEW t \in Threads, NEW f \in Files, WaitOnFile(t, f) PROVE BlockedUntilRemoved'
  BY <1>6 DEF IInv, TypeOK, fields, BlockedUntilRemoved, LockInv, PointerInv, UsersHoldLive,
              WaitOnFile, GetBlock, ReadLock, Goto
<1>7. ASSUME NEW t \in Threads, RemoveNext(t) PROVE BlockedUntilRemoved'
  BY <1>7 DEF IInv, TypeOK, fields, BlockedUntilRemoved, LockInv, PointerInv, UsersHoldLive,
              RemoveNext, Unlink, Goto
<1>8. ASSUME NEW t \in Threads, WriteUnlock(t) PROVE BlockedUntilRemoved'
  BY <1>8 DEF IInv, TypeOK, fields, BlockedUntilRemoved, LockInv, PointerInv, UsersHoldLive,
              WriteUnlock, Goto
<1>9. ASSUME NEW t \in Threads, Complete(t) PROVE BlockedUntilRemoved'
  BY <1>9 DEF IInv, TypeOK, fields, BlockedUntilRemoved, LockInv, PointerInv, UsersHoldLive,
              Complete, Goto
<1>10. ASSUME NEW t \in Threads, GrabReference(t) PROVE BlockedUntilRemoved'
  BY <1>10 DEF IInv, TypeOK, fields, BlockedUntilRemoved, LockInv, PointerInv, UsersHoldLive,
               GrabReference, Grabbed, Goto
<1>11. ASSUME NEW t \in Threads, Wake(t) PROVE BlockedUntilRemoved'
  BY <1>11 DEF IInv, TypeOK, fields, BlockedUntilRemoved, LockInv, PointerInv, UsersHoldLive,
               Wake, StaysCompleted, Goto
<1>12. ASSUME NEW t \in Threads, DropReference(t) PROVE BlockedUntilRemoved'
  BY <1>12 DEF IInv, TypeOK, fields, BlockedUntilRemoved, LockInv, PointerInv, UsersHoldLive,
               DropReference, AfterDrop, Goto
<1>13. ASSUME NEW t \in Threads, FreeBlock(t) PROVE BlockedUntilRemoved'
  BY <1>13 DEF IInv, TypeOK, fields, BlockedUntilRemoved, LockInv, PointerInv, UsersHoldLive,
               FreeBlock, AfterDrop, Goto
<1>q. QED
  BY <1>1, <1>2, <1>3, <1>4, <1>5, <1>6, <1>7, <1>8, <1>9, <1>10, <1>11, <1>12, <1>13
     DEF Next, Step

-----------------------------------------------------------------------------
(***************************************************************************)
(* The invariant holds after BlockInit.                                     *)
(***************************************************************************)
LEMMA InitInvariant == Init => IInv
<1> SUFFICES ASSUME Init PROVE IInv
  OBVIOUS
<1> USE VMBlockAssumption DEF Init
<1>1. TypeOK
  BY DEF TypeOK, Pcs
<1>2. LockInv /\ PointerInv /\ CloseInv
  BY DEF LockInv, PointerInv, CloseInv
<1>3. RefsCounted /\ UsersHoldLive /\ OneBlockPerFile /\ BlockedUntilRemoved
  BY DEF RefsCounted, UsersHoldLive, OneBlockPerFile, BlockedUntilRemoved
<1> QED
  BY <1>1, <1>2, <1>3 DEF IInv

(***************************************************************************)
(* The inductive invariant holds throughout.                                *)
(***************************************************************************)
LEMMA Invariance == Spec => []IInv
<1>1. IInv /\ [Next]_vars => IInv'
  BY LockStep, PointerStep, CloseStep, OneBlockStep, BlockedStep, TypeStep, LiveStep, RefsStep
     DEF IInv
<1> QED
  BY InitInvariant, <1>1, PTL DEF Spec

(***************************************************************************)
(* Type correctness of the block list, for any number of threads.           *)
(***************************************************************************)
THEOREM TypeCorrect == Spec => []TypeOK
BY Invariance, PTL DEF IInv

(***************************************************************************)
(* Reference counts (BlockGrabReference, BlockDropReference) are exact.     *)
(***************************************************************************)
THEOREM RefsCorrect == Spec => []RefsCounted
BY Invariance, PTL DEF IInv

(***************************************************************************)
(* Nobody uses a BlockInfo that FreeBlock has freed or is about to free.    *)
(***************************************************************************)
THEOREM LiveCorrect == Spec => []UsersHoldLive
BY Invariance, PTL DEF IInv

(***************************************************************************)
(* BlockAddFileBlock never puts a second block on a file.                   *)
(***************************************************************************)
THEOREM OneBlockCorrect == Spec => []OneBlockPerFile
BY Invariance, PTL DEF IInv

(***************************************************************************)
(* BlockWaitOnFile does not return while the block it found is in the list. *)
(***************************************************************************)
THEOREM BlockedCorrect == Spec => []BlockedUntilRemoved
BY Invariance, PTL DEF IInv

(***************************************************************************)
(* VMBlockRelease leaves no block of its control file behind.               *)
(***************************************************************************)
THEOREM ClosedCorrect == Spec => []ClosedLeavesNone
<1>1. IInv => ClosedLeavesNone
  BY DEF IInv, CloseInv, ClosedLeavesNone
<1> QED
  BY <1>1, Invariance, PTL

(***************************************************************************)
(* BlockAddFileBlock and VMBlockRelease keep the list sound.                *)
(***************************************************************************)
THEOREM ListCorrect == Spec => []ListSound
BY OneBlockCorrect, ClosedCorrect, PTL DEF ListSound

(***************************************************************************)
(* A block is removed only for the blocker that added it.                   *)
(***************************************************************************)
THEOREM RemovesCorrect == Spec => OnlyBlockerRemoves
<1> DEFINE A == \A b \in blockedFiles \ blockedFiles' : writer' # None /\ client'[writer'] = blocker[b]
<1> USE VMBlockAssumption
<1>1. ASSUME IInv, [Next]_vars PROVE A \/ UNCHANGED vars
  <2>1. ASSUME NEW t \in Threads, NEW f \in Files, NEW o \in Blockers, Remove(t, f, o) PROVE A
    BY <1>1, <2>1 DEF IInv, TypeOK, Remove, GetBlockOf, Unlink
  <2>2. ASSUME NEW t \in Threads, RemoveNext(t) PROVE A
    BY <1>1, <2>2 DEF IInv, TypeOK, LockInv, RemoveNext, Unlink
  <2>3. ASSUME blockedFiles \subseteq blockedFiles' PROVE A
    BY ZenonT(60), <2>3
  <2>4. ASSUME NEW t \in Threads, NEW f \in Files, NEW o \in Blockers, NEW b \in Blocks, Add(t, f, o, b)
        PROVE  blockedFiles \subseteq blockedFiles'
    BY ZenonT(60), <2>4 DEF Add
  <2>5. ASSUME NEW t \in Threads, Step(t), ~RemoveNext(t) PROVE blockedFiles \subseteq blockedFiles'
    BY ZenonT(60), <2>5 DEF Step, WriteUnlock, Complete, GrabReference, Wake, DropReference,
                            FreeBlock
  <2>6. ASSUME NEW o \in Blockers, Open(o) \/ \E t \in Threads : Release(t, o)
        PROVE  blockedFiles \subseteq blockedFiles'
    BY ZenonT(60), <2>6 DEF Open, Release
  <2>7. ASSUME NEW t \in Threads, NEW f \in Files, WaitOnFile(t, f) PROVE blockedFiles \subseteq blockedFiles'
    BY ZenonT(60), <2>7 DEF WaitOnFile
  <2> QED
    BY ZenonT(60), <1>1, <2>1, <2>2, <2>3, <2>4, <2>5, <2>6, <2>7 DEF Next
<1> QED
  BY <1>1, Invariance, PTL DEF Spec, OnlyBlockerRemoves
=============================================================================
