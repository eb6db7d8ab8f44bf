------------------------------ MODULE FileLock ------------------------------
(***************************************************************************)
(* The portable advisory lock of lib/file (fileLockPrimitive.c): a Lamport  *)
(* bakery kept in the directory "path.lck".  A locker draws a random number *)
(* n, makes the entry directory Dn and the entry file En, scans the member  *)
(* files for the largest ticket, writes its own ticket to En, renames En to *)
(* the member file Mn and removes Dn.  It holds the lock once it has found, *)
(* in a listing without entry directories, no member before it.             *)
(*                                                                          *)
(* A step is one operation on the directory, with the computation that      *)
(* leads to the next one.  A locker is a process; it may die at any step,    *)
(* and a process started again is another locker.                            *)
(***************************************************************************)
EXTENDS Integers, FiniteSets

CONSTANTS
    Lockers,        \* the processes that lock the file
    Hosts, Host,    \* the machines (machineID), and the machine of each locker
    Requests,       \* the calls each locker makes: lock type and whether it waits for ever
    Numbers,        \* the numbers that are drawn, 0 .. 65535 in the code
    MaxAttempts,    \* bound: calls of FileLock_Lock, per locker
    Disturbed,      \* bound: the lockers that may meet with extras
    MaxExtras       \* bound: deaths, errors of the file system, unlucky draws, slow entrants

VARIABLES
    lockDir,        \* the lock directory exists
    D, E,           \* the numbers with an entry directory, with an entry file
    M,              \* the contents of each member file, or None
    pc,             \* what each locker does next
    req,            \* lock type and msecMaxWaitTime of its call
    num,            \* the number it has drawn
    lam,            \* its lamportNumber
    todo,           \* the members its scan has listed and not handled yet
    at,             \* the member its scan waits for or is about to discard
    list,           \* lockList: entry directories its last listing found
    attempts,       \* its calls so far
    extras,         \* extras so far, see Extra
    used,           \* history: the numbers that named a member or an entry file
    broken,         \* history: a number was drawn that had been used before, whether a scan
                    \* still knew it or not, or the entry of a live process was taken for one
                    \* of a dead process
    deserted        \* history: what a locker left behind and no locker will remove

disk == <<lockDir, D, E, M>>
own == <<req, num, lam, todo, at, list, attempts>>
history == <<extras, used, broken, deserted>>
vars == <<lockDir, D, E, M, pc, req, num, lam, todo, at, list, attempts,
          extras, used, broken, deserted>>

ASSUME FileLockAssumption ==
    /\ Host \in [Lockers -> Hosts]
    /\ Requests \in [Lockers -> SUBSET [type : {"S", "X"}, wait : {"bounded", "infinite"}]]
    /\ Numbers \subseteq Nat
    /\ Disturbed \subseteq Lockers
    /\ MaxAttempts \in Nat /\ MaxExtras \in Nat

None == <<>>
NoNumber == -1
Entering == {"open", "number", "reading", "enter"}

Init ==
    /\ lockDir = FALSE /\ D = {} /\ E = {} /\ M = [n \in Numbers |-> None]
    /\ pc = [p \in Lockers |-> "idle"]
    /\ req = [p \in Lockers |-> [type |-> "S", wait |-> "bounded"]]
    /\ num = [p \in Lockers |-> NoNumber] /\ lam = [p \in Lockers |-> 0]
    /\ todo = [p \in Lockers |-> {}] /\ at = [p \in Lockers |-> None]
    /\ list = [p \in Lockers |-> {}] /\ attempts = [p \in Lockers |-> 0]
    /\ extras = 0 /\ used = {} /\ broken = FALSE /\ deserted = {}

-----------------------------------------------------------------------------
(* The directory and its members.                                           *)

Members == {n \in Numbers : M[n] # None}
Alive(p) == pc[p] # "dead"

\* Mutant of KnownDead: the lock does not clean up after its own machine's processes.
KnownDeadNever(p, o) == FALSE

\* FileLockMachineIDMatch and ~FileLockValidExecutionID: p can tell that process o has died.
KnownDead(p, o) == Host[p] = Host[o] /\ ~Alive(o)

\* FileDeletionRobust of a member file; it is no error when the file has gone.
DeleteMember(n) == M' = [M EXCEPT ![n] = None]

\* FileRemoveDirectoryRobust of the lock directory; rmdir fails when it is not empty.
RemoveLockDir == lockDir' = (lockDir /\ ~(D = {} /\ E = {} /\ Members = {}))

\* FileLockIsLockedPortable.
IsLocked == lockDir /\ Members # {}

Goto(p, label) == pc' = [pc EXCEPT ![p] = label]

\* The locker has no more use for what its call kept on the stack.
Forget(p) ==
    /\ req' = [req EXCEPT ![p] = [type |-> "S", wait |-> "bounded"]]
    /\ num' = [num EXCEPT ![p] = NoNumber] /\ lam' = [lam EXCEPT ![p] = 0]
    /\ todo' = [todo EXCEPT ![p] = {}] /\ at' = [at EXCEPT ![p] = None]
    /\ list' = [list EXCEPT ![p] = {}]

\* Something that is not part of an undisturbed acquisition happens.
Extra(p) == p \in Disturbed /\ extras < MaxExtras /\ extras' = extras + 1
ExtraUnless(p, expected) == IF expected THEN UNCHANGED extras ELSE Extra(p)

-----------------------------------------------------------------------------
(* FileLockCreateEntryDirectory.                                            *)

\* FileLockIntrinsic is called.
Call(p) ==
    /\ pc[p] = "idle" /\ attempts[p] < MaxAttempts
    /\ attempts' = [attempts EXCEPT ![p] = @ + 1]

\* The lock directory is made unless it is there; that another locker makes it first is no error.
Lock(p) ==
    /\ Call(p)
    /\ \E r \in Requests[p] : req' = [req EXCEPT ![p] = r]
    /\ lockDir' = TRUE /\ Goto(p, "draw")
    /\ UNCHANGED <<D, E, M, num, lam, todo, at, list, history>>

CreateLockDir(p) ==
    /\ pc[p] = "create"
    /\ lockDir' = TRUE /\ Goto(p, "draw")
    /\ UNCHANGED <<D, E, M, own, history>>

\* A read-only or forbidden directory (EROFS, EACCES) grants a shared lock without any file;
\* every other error ends the call.
Refused(p, type) == Goto(p, "idle") \/ (type = "S" /\ Goto(p, "implicit"))

CannotCreateLockDir(p) ==
    /\ Call(p) /\ ~lockDir /\ Extra(p)
    /\ \E r \in Requests[p] : Refused(p, r.type)
    /\ UNCHANGED <<disk, req, num, lam, todo, at, list, used, broken, deserted>>

CannotCreateEntry(p) ==
    /\ pc[p] = "draw" /\ lockDir /\ Extra(p)
    /\ Refused(p, req[p].type) /\ Forget(p)
    /\ deserted' = deserted \cup {<<"dir", 0>>}
    /\ UNCHANGED <<disk, attempts, used, broken>>

\* A number is drawn and its entry directory made, unless another locker has it (EEXIST) or an
\* unlock has removed the lock directory since (ENOENT).  An undisturbed draw is of a new number.
Draw(p) ==
    /\ pc[p] = "draw"
    /\ \E n \in Numbers :
         /\ ExtraUnless(p, n \notin used \cup D)
         /\ IF lockDir /\ n \notin D
            THEN /\ D' = D \cup {n} /\ num' = [num EXCEPT ![p] = n]
                 /\ Goto(p, "check")
            ELSE Goto(p, "create") /\ UNCHANGED <<D, num>>
    /\ UNCHANGED <<lockDir, E, M, req, lam, todo, at, list, attempts, used, broken, deserted>>

\* The number is p's when no member file has it.
CheckMember(p) ==
    /\ pc[p] = "check"
    /\ IF M[num[p]] = None
       THEN /\ Goto(p, "open")
            /\ used' = used \cup {num[p]} /\ broken' = (broken \/ num[p] \in used)
       ELSE Goto(p, "undraw") /\ UNCHANGED <<used, broken>>
    /\ UNCHANGED <<disk, own, extras, deserted>>

\* The entry directory is removed again, and another number is drawn.
Undraw(p) ==
    /\ pc[p] = "undraw"
    /\ D' = D \ {num[p]} /\ num' = [num EXCEPT ![p] = NoNumber] /\ Goto(p, "create")
    /\ UNCHANGED <<lockDir, E, M, req, lam, todo, at, list, attempts, history>>

-----------------------------------------------------------------------------
(* FileLockIntrinsicPortable, up to the member file.                        *)

\* The entry file is created; it must not exist (FILEIO_OPEN_CREATE_SAFE), and may fail.
CreateEntryFile(p) ==
    /\ pc[p] = "open"
    /\ \/ /\ lockDir /\ num[p] \notin E
          /\ E' = E \cup {num[p]} /\ Goto(p, "number") /\ UNCHANGED extras
       \/ /\ ExtraUnless(p, ~lockDir \/ num[p] \in E)
          /\ Goto(p, "undoD") /\ UNCHANGED E
    /\ UNCHANGED <<lockDir, D, M, own, used, broken, deserted>>

\* FileLockScanDirectory for FileLockNumberScan lists the directory; entry directories are skipped.
ListNumbers(p) ==
    /\ pc[p] = "number" /\ lockDir
    /\ todo' = [todo EXCEPT ![p] = Members \ {num[p]}]
    /\ Goto(p, "reading")
    /\ UNCHANGED <<disk, req, num, lam, at, list, attempts, history>>

\* FileLockMemberValues: the member has been unlocked since the listing.
ReadGone(p, n) ==
    /\ pc[p] \in {"reading", "testing"} /\ at[p] = None /\ n \in todo[p] /\ M[n] = None
    /\ todo' = [todo EXCEPT ![p] = @ \ {n}]
    /\ UNCHANGED <<disk, pc, req, num, lam, at, list, attempts, history>>

\* The member of a process of p's host that has died is a stale locking file ...
ReadStale(p, n) ==
    /\ pc[p] \in {"reading", "testing"} /\ at[p] = None /\ n \in todo[p]
    /\ M[n] # None /\ KnownDead(p, M[n].owner)
    /\ at' = [at EXCEPT ![p] = <<n, M[n].owner>>]
    /\ UNCHANGED <<disk, pc, req, num, lam, todo, list, attempts, history>>

\* ... and is removed, by name.
RemoveStale(p) ==
    /\ pc[p] \in {"reading", "testing"} /\ at[p] # None
    /\ DeleteMember(at[p][1])
    /\ todo' = [todo EXCEPT ![p] = @ \ {at[p][1]}] /\ at' = [at EXCEPT ![p] = None]
    /\ UNCHANGED <<lockDir, D, E, pc, req, num, lam, list, attempts, history>>

\* Mutant of NumberScan: the last ticket instead of the largest.
NumberScanLast(p, n) ==
    /\ pc[p] = "reading" /\ at[p] = None /\ n \in todo[p]
    /\ M[n] # None /\ ~KnownDead(p, M[n].owner)
    /\ lam' = [lam EXCEPT ![p] = M[n].lam]
    /\ todo' = [todo EXCEPT ![p] = @ \ {n}]
    /\ UNCHANGED <<disk, pc, req, num, at, list, attempts, history>>

\* FileLockNumberScan: the largest ticket.
NumberScan(p, n) ==
    /\ pc[p] = "reading" /\ at[p] = None /\ n \in todo[p]
    /\ M[n] # None /\ ~KnownDead(p, M[n].owner)
    /\ lam' = [lam EXCEPT ![p] = IF M[n].lam > @ THEN M[n].lam ELSE @]
    /\ todo' = [todo EXCEPT ![p] = @ \ {n}]
    /\ UNCHANGED <<disk, pc, req, num, at, list, attempts, history>>

\* The directory or a member cannot be read: the entry file goes first, then its directory.
NumberScanFails(p) ==
    /\ pc[p] = "number" \/ (pc[p] = "reading" /\ todo[p] # {})
    /\ Extra(p)
    /\ todo' = [todo EXCEPT ![p] = {}] /\ at' = [at EXCEPT ![p] = None]
    /\ Goto(p, "undoE")
    /\ UNCHANGED <<disk, req, num, lam, list, attempts, used, broken, deserted>>

\* The scan has ended: lamportNumber++, and FileLockCreateMemberFile writes the entry file and
\* renames it to the member file.
CreateMemberFile(p) ==
    /\ pc[p] = "reading" /\ todo[p] = {}
    /\ lam' = [lam EXCEPT ![p] = @ + 1]
    /\ \/ /\ num[p] \in E
          /\ E' = E \ {num[p]}
          /\ M' = [M EXCEPT ![num[p]] = [owner |-> p, lam |-> lam[p] + 1, type |-> req[p].type]]
          /\ Goto(p, "enter") /\ UNCHANGED extras
       \/ /\ Extra(p)
          /\ Goto(p, "fail") /\ UNCHANGED <<E, M>>
    /\ UNCHANGED <<lockDir, D, req, num, todo, at, list, attempts, used, broken, deserted>>

\* The entry directory has done its job, whether there is a member file or not.
RemoveEntryDirectory(p) ==
    /\ pc[p] \in {"enter", "fail"}
    /\ D' = D \ {num[p]}
    /\ Goto(p, IF pc[p] = "enter" THEN "possess" ELSE "undoM")
    /\ UNCHANGED <<lockDir, E, M, own, history>>

UndoMember(p) ==
    /\ pc[p] = "undoM"
    /\ E' = E \ {num[p]} /\ DeleteMember(num[p]) /\ Goto(p, "rmLock") /\ Forget(p)
    /\ UNCHANGED <<lockDir, D, attempts, history>>

UndoEntryFile(p) ==
    /\ pc[p] = "undoE"
    /\ E' = E \ {num[p]} /\ Goto(p, "undoD")
    /\ UNCHANGED <<lockDir, D, M, own, history>>

\* Mutant of UndoEntryDirectory: the lock directory is not removed after an error.
UndoEntryDirectoryOnly(p) ==
    /\ pc[p] = "undoD"
    /\ D' = D \ {num[p]} /\ Goto(p, "idle") /\ Forget(p)
    /\ UNCHANGED <<lockDir, E, M, attempts, history>>

UndoEntryDirectory(p) ==
    /\ pc[p] = "undoD"
    /\ D' = D \ {num[p]} /\ Goto(p, "rmLock") /\ Forget(p)
    /\ UNCHANGED <<lockDir, E, M, attempts, history>>

-----------------------------------------------------------------------------
(* FileLockScanner with FileLockWaitForPossession.                          *)

\* FileLockScanDirectory finds lockers that are entering, or its list still has one that has gone
\* since.  FileLockScanner drops the latter, except that it fails to unlink every second one of a
\* run of them, and scans again.
ListEntering(p) ==
    /\ pc[p] = "possess" /\ lockDir /\ D \cup list[p] # {}
    /\ \E kept \in SUBSET (list[p] \ D) :
         /\ 2 * Cardinality(kept) <= Cardinality(list[p] \ D)
         /\ list' = [list EXCEPT ![p] = D \cup kept]
    /\ UNCHANGED <<disk, pc, req, num, lam, todo, at, attempts, history>>

\* Mutant of ListMembers: lockers that are entering are not waited for.
ListMembersAtOnce(p) ==
    /\ pc[p] = "possess" /\ lockDir
    /\ todo' = [todo EXCEPT ![p] = Members \ {num[p]}]
    /\ Goto(p, "testing")
    /\ UNCHANGED <<disk, req, num, lam, at, list, attempts, history>>

\* The listing has no entry directory: its members are handled one by one.
ListMembers(p) ==
    /\ pc[p] = "possess" /\ lockDir /\ D \cup list[p] = {}
    /\ todo' = [todo EXCEPT ![p] = Members \ {num[p]}]
    /\ Goto(p, "testing")
    /\ UNCHANGED <<disk, req, num, lam, at, list, attempts, history>>

\* An entry directory n has been in the listings for FILELOCK_PROGRESS_DEARTH msec: all that has
\* its number is removed.
DiscardEntry(p, n) ==
    /\ pc[p] = "possess" /\ n \in list[p]
    /\ D' = D \ {n} /\ E' = E \ {n} /\ DeleteMember(n)
    /\ list' = [list EXCEPT ![p] = @ \ {n}]
    /\ UNCHANGED <<lockDir, pc, req, num, lam, todo, at, attempts, used, deserted>>

\* The number is that of a call in progress.
InUse(n) == \E q \in Lockers : num[q] = n

DiscardDead(p, n) == DiscardEntry(p, n) /\ ~InUse(n) /\ UNCHANGED <<extras, broken>>

\* The locker lives: it has not progressed for so long, or it has since the last listing.
DiscardSlow(p, n) == DiscardEntry(p, n) /\ InUse(n) /\ Extra(p) /\ broken' = TRUE

\* "Win" or wait?
Before(n, p) ==
    \/ M[n].lam < lam[p]
    \/ M[n].lam = lam[p] /\ n < num[p]

Conflict(n, p) == M[n].type = "X" \/ req[p].type = "X"

MustWait(n, p) == Before(n, p) /\ Conflict(n, p)

\* FileLockWaitForPossession of a member that p need not wait for, and of one that it must.
Win(p, n) ==
    /\ pc[p] = "testing" /\ at[p] = None /\ n \in todo[p]
    /\ M[n] # None /\ ~KnownDead(p, M[n].owner) /\ ~MustWait(n, p)
    /\ todo' = [todo EXCEPT ![p] = @ \ {n}]
    /\ UNCHANGED <<disk, pc, req, num, lam, at, list, attempts, history>>

Wait(p, n) ==
    /\ pc[p] = "testing" /\ at[p] = None /\ n \in todo[p]
    /\ M[n] # None /\ ~KnownDead(p, M[n].owner) /\ MustWait(n, p)
    /\ at' = [at EXCEPT ![p] = <<n, M[n].owner>>]
    /\ Goto(p, "wait")
    /\ UNCHANGED <<disk, req, num, lam, todo, list, attempts, history>>

\* After a sleep: the file has gone, or its process is found dead and the file is removed.
StillThere(p) == M[at[p][1]] # None

WaitEnds(p) ==
    /\ pc[p] = "wait"
    /\ StillThere(p) => KnownDead(p, at[p][2])
    /\ DeleteMember(at[p][1])
    /\ todo' = [todo EXCEPT ![p] = @ \ {at[p][1]}] /\ at' = [at EXCEPT ![p] = None]
    /\ Goto(p, "testing")
    /\ UNCHANGED <<lockDir, D, E, req, num, lam, list, attempts, history>>

\* Mutant of WaitTimesOut: the member file is not removed after EAGAIN.
WaitTimesOutOnly(p) ==
    /\ pc[p] = "wait" /\ req[p].wait = "bounded"
    /\ Goto(p, "rmLock") /\ Forget(p)
    /\ UNCHANGED <<disk, attempts, history>>

\* FileLockSleeper: EAGAIN, at once or after some time.
WaitTimesOut(p) ==
    /\ pc[p] = "wait" /\ req[p].wait = "bounded"
    /\ todo' = [todo EXCEPT ![p] = {}] /\ at' = [at EXCEPT ![p] = None]
    /\ Goto(p, "unlink")
    /\ UNCHANGED <<disk, req, num, lam, list, attempts, history>>

\* The scan has ended without an error: p has the lock.
Held(p) == pc[p] = "testing" /\ todo[p] = {}

\* Another error ends the call, and its member file stays.
PossessionFails(p) ==
    /\ pc[p] \in {"possess", "testing", "wait"} /\ ~Held(p) /\ Extra(p)
    /\ deserted' = deserted \cup {f \in {<<"M", num[p]>>} : M[num[p]] # None}
    /\ Goto(p, "idle") /\ Forget(p)
    /\ UNCHANGED <<disk, attempts, used, broken>>

-----------------------------------------------------------------------------
(* FileUnlockIntrinsic, and the way out after EAGAIN.                       *)

UnlockImplicit(p) ==
    /\ pc[p] = "implicit" /\ Goto(p, "idle")
    /\ UNCHANGED <<disk, own, history>>

RemoveMember(p) ==
    /\ Held(p) \/ pc[p] = "unlink"
    /\ DeleteMember(num[p]) /\ Goto(p, "rmLock") /\ Forget(p)
    /\ UNCHANGED <<lockDir, D, E, attempts, history>>

\* The member file cannot be deleted, which only the log would say: it stays.
RemoveMemberFails(p) ==
    /\ Held(p) \/ pc[p] = "unlink"
    /\ Extra(p)
    /\ deserted' = deserted \cup {f \in {<<"M", num[p]>>} : M[num[p]] # None}
    /\ Goto(p, "rmLock") /\ Forget(p)
    /\ UNCHANGED <<disk, attempts, used, broken>>

RemoveLock(p) ==
    /\ pc[p] = "rmLock"
    /\ RemoveLockDir /\ Goto(p, "idle")
    /\ UNCHANGED <<D, E, M, own, history>>

\* The process is killed.  An entry file without its directory is never removed.
Die(p) ==
    /\ pc[p] \notin {"idle", "dead"} /\ Extra(p)
    /\ Goto(p, "dead") /\ Forget(p)
    /\ deserted' = deserted \cup {f \in {<<"E", num[p]>>} : pc[p] = "undoM" /\ num[p] \in E}
    /\ UNCHANGED <<disk, attempts, used, broken>>

-----------------------------------------------------------------------------

\* What a live locker does by itself, undisturbed.
Step(p) ==
    \/ CreateLockDir(p) \/ Draw(p) \/ CheckMember(p) \/ Undraw(p)
    \/ CreateEntryFile(p) \/ ListNumbers(p) \/ CreateMemberFile(p)
    \/ RemoveEntryDirectory(p) \/ UndoMember(p) \/ UndoEntryFile(p) \/ UndoEntryDirectory(p)
    \/ ListEntering(p) \/ ListMembers(p) \/ WaitEnds(p) \/ WaitTimesOut(p)
    \/ UnlockImplicit(p) \/ RemoveMember(p) \/ RemoveLock(p) \/ RemoveStale(p)
    \/ \E n \in todo[p] :
         ReadGone(p, n) \/ ReadStale(p, n) \/ NumberScan(p, n) \/ Win(p, n) \/ Wait(p, n)
    \/ \E n \in Numbers : DiscardDead(p, n)

Disturbance(p) ==
    \/ Lock(p) \/ CannotCreateLockDir(p) \/ CannotCreateEntry(p)
    \/ NumberScanFails(p) \/ PossessionFails(p) \/ RemoveMemberFails(p) \/ Die(p)
    \/ \E n \in Numbers : DiscardSlow(p, n)

\* The model ends where the scheme no longer promises anything.
Next == ~broken /\ \E p \in Lockers : Step(p) \/ Disturbance(p)

Spec == Init /\ [][Next]_vars

\* As long as some live process can go on, one of them does, and holders unlock.  No more is
\* needed, as a locker that only polls changes nothing.
FairSpec == Spec /\ WF_vars(~broken /\ \E p \in Lockers : Step(p))

-----------------------------------------------------------------------------
(* Properties.                                                              *)

\* The lock: an exclusive holder is the only holder.  Shared locks granted without a file do not
\* count; `broken' excepts the two ways in which the scheme can fail, see there.
MutualExclusion ==
    broken \/ \A p, q \in Lockers :
        p # q /\ Held(p) /\ Held(q) => req[p].type = "S" /\ req[q].type = "S"

\* A holder has its member file, so that FileLock_IsLocked reports the lock, and no member that
\* conflicts with it has an earlier ticket: nobody who came first is overtaken.
HolderIsFirst ==
    broken \/ \A p \in Lockers : Held(p) =>
        /\ IsLocked
        /\ M[num[p]] = [owner |-> p, lam |-> lam[p], type |-> req[p].type]
        /\ \A n \in Members \ {num[p]} : ~MustWait(n, p)

\* Every file is someone's: a member is that of a call in progress, of a lock that is held or of
\* a dead process, an entry file has its directory or is about to be removed, and a live locker
\* that needs its entry directory has it, except for what errors left behind.
FilesAccounted ==
    broken \/
        /\ \A n \in Members :
             \/ <<"M", n>> \in deserted
             \/ ~Alive(M[n].owner)
             \/ num[M[n].owner] = n /\ pc[M[n].owner] \in
                    {"enter", "possess", "testing", "wait", "unlink"}
        /\ \A n \in E \ D :
             \/ <<"E", n>> \in deserted
             \/ \E p \in Lockers : pc[p] = "undoM" /\ num[p] = n
        /\ \A p \in Lockers : pc[p] \in Entering => num[p] \in D

\* When no call is in progress and no process has died, nothing is left: the races of rmdir of
\* the lock directory with lockers that enter are all resolved by one of them removing it.
RestIsClean ==
    broken \/ deserted # {}
    \/ ((\A p \in Lockers : pc[p] \in {"idle", "implicit"}) =>
           ~lockDir /\ D = {} /\ E = {} /\ Members = {})

\* The call waits for ever for a member that its machine cannot get rid of.
WaitsForObstacle(p) ==
    /\ pc[p] = "wait" /\ req[p].wait = "infinite" /\ StillThere(p)
    /\ \/ <<"M", at[p][1]>> \in deserted
       \/ ~Alive(at[p][2]) /\ Host[at[p][2]] # Host[p]

\* Every call ends and every lock that is granted is released.  Only calls that wait for ever may
\* still be there, when one of them waits for a member of a dead process of another machine or
\* for one that an error left behind; the others wait for its turn, even those on the machine of
\* the dead process, which could remove that member.
Settles ==
    <>[](broken \/ \A p \in Lockers :
            \/ pc[p] \in {"idle", "dead"}
            \/ /\ pc[p] = "wait" /\ req[p].wait = "infinite"
               /\ \E q \in Lockers : WaitsForObstacle(q))
=============================================================================
