--------------------------- MODULE FileLockProofs ---------------------------
(***************************************************************************)
(* What the portable file lock (lib/file/fileLockPrimitive.c) guarantees,  *)
(* for any number of lockers on any number of machines, any set of numbers *)
(* and any number of calls: the lock excludes, tickets are honoured, every *)
(* file is someone's, and nothing is left when all have gone.              *)
(*                                                                         *)
(* The proof is that of a bakery algorithm whose "choosing" flag is the    *)
(* entry directory (D) and whose ticket is the member file (M).  Tickets   *)
(* are read, and files removed, by name long after the directory was       *)
(* listed, so the argument first needs that a name never changes hands:    *)
(* NumInv and ScanInv, which hold until `broken'.                          *)
(*                                                                         *)
(* Thirty-one actions have nine kinds of effect.  An effect says what      *)
(* happens to the locker's own state and to the files, and no more than    *)
(* the argument needs; the invariant is shown to be kept by effects.       *)
(***************************************************************************)
EXTENDS FileLock, TLAPS

-----------------------------------------------------------------------------
(* The inductive invariant.                                                 *)

PCs ==
    {"idle", "create", "draw", "check", "undraw", "open", "number", "reading", "enter",
     "possess", "testing", "wait", "implicit", "unlink", "rmLock",
     "undoE", "undoD", "fail", "undoM", "dead"}

Request == [type : {"S", "X"}, wait : {"bounded", "infinite"}]

\* What a member file says.
Values == [owner : Lockers, lam : Nat, type : {"S", "X"}]

\* The types of what the argument is about.
TypeDisk ==
    /\ lockDir \in BOOLEAN /\ D \subseteq Numbers /\ E \subseteq Numbers
    /\ M \in [Numbers -> Values \cup {None}]

TypeCall == pc \in [Lockers -> PCs] /\ num \in [Lockers -> Numbers \cup {NoNumber}]

TypeOwn ==
    /\ req \in [Lockers -> Request] /\ lam \in [Lockers -> Nat]
    /\ todo \in [Lockers -> SUBSET Numbers]
    /\ at \in [Lockers -> (Numbers \X Lockers) \cup {None}]

TypeOK == TypeDisk /\ TypeCall /\ TypeOwn

\* Where a locker has an entry directory, an entry file, a member file.
WithDir == {"check", "undraw", "open", "number", "reading", "enter", "fail", "undoE", "undoD"}
WithEntry == {"number", "reading", "fail", "undoE", "undoM"}
WithMember == {"enter", "possess", "testing", "wait", "unlink"}

\* Where the number is the locker's, before it has a member file and altogether.
Claiming == {"open", "number", "reading", "fail", "undoE", "undoD", "undoM"}
Owning == Claiming \cup WithMember

\* A number is one locker's: its entry directory keeps others from drawing it, and a number that
\* was claimed before is not claimed again.
NumInv ==
    /\ \A p \in Lockers : num[p] # NoNumber <=> pc[p] \in WithDir \cup Owning
    /\ \A p \in Lockers : pc[p] \in WithDir => num[p] \in D
    /\ \A p \in Lockers : pc[p] \in Owning => num[p] \in used
    /\ \A p, q \in Lockers : p # q /\ pc[p] \in WithDir /\ pc[q] \in WithDir => num[p] # num[q]
    /\ \A p, q \in Lockers : p # q /\ pc[p] \in Owning /\ pc[q] \in Owning => num[p] # num[q]

\* The number was claimed and its member file, if it is to have one, has been created.
Settled(n) == n \in used /\ \A q \in Lockers : pc[q] \in Claiming => num[q] # n

\* What a locker that has a member file put into it.
Ticket(p) == [owner |-> p, lam |-> lam[p], type |-> req[p].type]

\* The member file of a locker is there and says what the locker knows.
MemberInv ==
    /\ \A p \in Lockers : pc[p] \in WithMember => M[num[p]] = Ticket(p)
    /\ \A n \in Members : Settled(n)

\* What a scan remembers from its listing is true or the file has gone, whatever happened since:
\* the name it removes is that of the dead process it found there.
ScanInv ==
    /\ \A p \in Lockers : pc[p] = "wait" => at[p] # None
    /\ \A p \in Lockers : \A n \in todo[p] : Settled(n)
    /\ \A p \in Lockers : at[p] # None =>
           /\ Settled(at[p][1])
           /\ M[at[p][1]] # None => M[at[p][1]].owner = at[p][2]
           /\ pc[p] # "wait" => ~Alive(at[p][2])

Testing(p) == pc[p] \in {"testing", "wait"}

\* The bakery: a locker that tests has each earlier member still before it, and whoever is still
\* choosing a ticket has yet to read that locker's or has taken a later one.
TicketInv ==
    /\ \A p \in Lockers : Testing(p) =>
           \A n \in Members \ {num[p]} : n \in todo[p] \/ ~MustWait(n, p)
    /\ \A p, q \in Lockers : Testing(p) /\ pc[q] = "reading" =>
           num[p] \in todo[q] \/ lam[q] >= lam[p]

\* A member file is that of a locker that knows of it, or was left behind.
MembersOwned ==
    \A n \in Members :
        \/ <<"M", n>> \in deserted
        \/ ~Alive(M[n].owner)
        \/ num[M[n].owner] = n /\ pc[M[n].owner] \in WithMember

\* So is an entry file; that of a dead process has its entry directory, by which it will be found.
EntriesOwned ==
    \A n \in E :
        \/ <<"E", n>> \in deserted
        \/ \E q \in Lockers : num[q] = n /\ pc[q] \in WithEntry
        \/ n \in D /\ ~InUse(n)

DirsOwned ==
    \A n \in D :
        \/ \E q \in Lockers : num[q] = n /\ pc[q] \in WithDir
        \/ \E q \in Lockers : ~Alive(q)

FilesInv == MembersOwned /\ EntriesOwned /\ DirsOwned

\* The lock directory is there as long as it has something in it ...
DirNeeded == D # {} \/ E # {} \/ Members # {} => lockDir

\* ... and only while someone is left to remove it.
DirOwned ==
    lockDir => \/ deserted # {}
               \/ \E q \in Lockers : pc[q] \notin {"idle", "implicit"}

DirInv == DirNeeded /\ DirOwned

Inv == NumInv /\ MemberInv /\ ScanInv /\ TicketInv /\ FilesInv /\ DirInv
IInv == TypeOK /\ (broken \/ Inv)

-----------------------------------------------------------------------------
(* Facts about the data.                                                    *)

\* A member file is never mistaken for its absence.
LEMMA ValueNotNone == ASSUME NEW v \in Values PROVE v # None
  BY DEF Values, None

LEMMA PairNotNone == ASSUME NEW v \in Numbers \X Lockers PROVE v # None
  BY DEF None

LEMMA NoNumberFresh == NoNumber \notin Numbers
  BY FileLockAssumption DEF NoNumber

LEMMA MemberValue ==
    ASSUME TypeOK, NEW n \in Numbers, M[n] # None
    PROVE  M[n] \in Values /\ M[n].owner \in Lockers /\ M[n].lam \in Nat
  BY DEF TypeOK, TypeDisk, Values

\* A locker with a member file finds there what it knows.
LEMMA OwnTicket ==
    ASSUME Inv, TypeOK, NEW p \in Lockers, pc[p] \in WithMember
    PROVE  /\ num[p] \in Members
           /\ M[num[p]].owner = p /\ M[num[p]].lam = lam[p] /\ M[num[p]].type = req[p].type
<1>1. num[p] \in Numbers /\ M[num[p]] = Ticket(p)
  BY DEF Inv, NumInv, MemberInv, Owning, TypeOK, TypeCall
<1>2. Ticket(p) \in Values
  BY DEF Ticket, Values, TypeOK, TypeOwn, Request
<1> QED BY <1>1, <1>2, ValueNotNone DEF Members, Ticket

-----------------------------------------------------------------------------
(* What the steps do, by kind, without the details of who does it and why.  *)

\* A step is one locker's, and what was left behind stays.
Others(p) ==
    /\ \A q \in Lockers \ {p} :
           /\ pc'[q] = pc[q] /\ num'[q] = num[q] /\ lam'[q] = lam[q] /\ req'[q] = req[q]
           /\ todo'[q] = todo[q] /\ at'[q] = at[q]
    /\ pc[p] # "dead"
    /\ deserted \subseteq deserted'

\* p has no number before and after; it creates the lock directory, or removes it when it is empty.
Outside(p) ==
    /\ {pc[p], pc'[p]} \subseteq {"idle", "create", "draw", "implicit", "rmLock"}
    /\ num'[p] \in {num[p], NoNumber} /\ todo'[p] \subseteq todo[p] /\ at'[p] \in {at[p], None}
    /\ UNCHANGED <<D, E, M, used>>
    /\ \/ lockDir' /\ pc'[p] = "draw"
       \/ ~lockDir /\ ~lockDir'
       \/ lockDir' = lockDir /\ deserted' # {}
       \/ lockDir' = lockDir /\ pc[p] = "implicit"
       \/ pc[p] = "rmLock" /\ lockDir' = (lockDir /\ ~(D = {} /\ E = {} /\ Members = {}))

\* It draws a number that no entry directory has, finds it free or not, or gives it back.
Claims(p) ==
    /\ todo'[p] = todo[p] /\ at'[p] = at[p] /\ UNCHANGED <<lockDir, E, M>>
    /\ \/ /\ pc[p] = "draw" /\ pc'[p] = "create" /\ num'[p] = num[p] /\ UNCHANGED <<D, used>>
       \/ /\ pc[p] = "draw" /\ pc'[p] = "check" /\ num'[p] \in Numbers \ D
          /\ D' = D \cup {num'[p]} /\ used' = used /\ lockDir
       \/ /\ pc[p] = "check" /\ pc'[p] = "undraw" /\ num'[p] = num[p] /\ UNCHANGED <<D, used>>
       \/ /\ pc[p] = "check" /\ pc'[p] = "open" /\ num'[p] = num[p] /\ D' = D
          /\ M[num[p]] = None /\ num[p] \notin used /\ used' = used \cup {num[p]}
       \/ /\ pc[p] = "undraw" /\ pc'[p] = "create" /\ num'[p] = NoNumber
          /\ D' = D \ {num[p]} /\ used' = used

\* It keeps its number, and the members stay as they are: p creates or removes its entry file or
\* entry directory, lists the members, or gives up.
Inside(p) ==
    /\ num'[p] = num[p] /\ lam'[p] = lam[p] /\ req'[p] = req[p] /\ UNCHANGED <<lockDir, M, used>>
    /\ at'[p] \in {at[p], None}
    /\ \/ /\ pc[p] = "open" /\ pc'[p] = "number" /\ todo'[p] = todo[p]
          /\ D' = D /\ E' = E \cup {num[p]} /\ lockDir
       \/ /\ pc[p] = "open" /\ pc'[p] = "undoD" /\ todo'[p] = todo[p] /\ UNCHANGED <<D, E>>
       \/ /\ pc[p] = "number" /\ pc'[p] = "reading" /\ todo'[p] = Members \ {num[p]}
          /\ UNCHANGED <<D, E>>
       \/ /\ pc[p] \in {"number", "reading"} /\ pc'[p] = "undoE" /\ todo'[p] = {}
          /\ UNCHANGED <<D, E>>
       \/ /\ <<pc[p], pc'[p]>> \in {<<"enter", "possess">>, <<"fail", "undoM">>}
          /\ todo'[p] = todo[p] /\ D' = D \ {num[p]} /\ E' = E
       \/ /\ pc[p] = "undoE" /\ pc'[p] = "undoD" /\ todo'[p] = todo[p]
          /\ D' = D /\ E' = E \ {num[p]}
       \/ /\ pc[p] = "possess" /\ pc'[p] = "possess" /\ todo'[p] = todo[p] /\ UNCHANGED <<D, E>>
       \/ /\ pc[p] = "possess" /\ pc'[p] = "testing" /\ todo'[p] = Members \ {num[p]}
          /\ D = {} /\ UNCHANGED <<D, E>>
       \/ /\ pc[p] = "wait" /\ pc'[p] = "unlink" /\ todo'[p] = {} /\ at'[p] = None
          /\ UNCHANGED <<D, E>>

\* It turns its entry file into its member file, or fails to.
Enters(p) ==
    /\ pc[p] = "reading" /\ todo[p] = {} /\ todo'[p] = {} /\ at'[p] = at[p]
    /\ num'[p] = num[p] /\ lam'[p] = lam[p] + 1 /\ req'[p] = req[p]
    /\ UNCHANGED <<lockDir, D, used>>
    /\ \/ /\ pc'[p] = "enter" /\ num[p] \in E /\ E' = E \ {num[p]}
          /\ M' = [M EXCEPT ![num[p]] = [owner |-> p, lam |-> lam[p] + 1, type |-> req[p].type]]
       \/ pc'[p] = "fail" /\ UNCHANGED <<E, M>>

\* It handles member n, which it has listed: it passes it, or remembers it to remove it or to wait.
Scans(p, n) ==
    /\ pc[p] \in {"reading", "testing"} /\ n \in todo[p]
    /\ num'[p] = num[p] /\ req'[p] = req[p] /\ UNCHANGED <<lockDir, D, E, M, used>>
    /\ \/ /\ pc'[p] = pc[p] /\ at'[p] = at[p] /\ todo'[p] = todo[p] \ {n}
          /\ \/ M[n] = None /\ lam'[p] = lam[p]
             \/ pc[p] = "testing" /\ ~MustWait(n, p) /\ lam'[p] = lam[p]
             \/ pc[p] = "reading" /\ lam'[p] \in Nat /\ lam'[p] >= lam[p] /\ lam'[p] >= M[n].lam
       \/ /\ at'[p] = <<n, M[n].owner>> /\ todo'[p] = todo[p] /\ lam'[p] = lam[p] /\ M[n] # None
          /\ \/ pc'[p] = pc[p] /\ ~Alive(M[n].owner)
             \/ pc[p] = "testing" /\ pc'[p] = "wait"

\* It removes the member that it remembered, which is that of a dead process or has gone.
Cleans(p) ==
    /\ at[p] # None /\ at'[p] = None /\ todo'[p] = todo[p] \ {at[p][1]}
    /\ M[at[p][1]] # None => pc[p] # "wait" \/ ~Alive(at[p][2])
    /\ M' = [M EXCEPT ![at[p][1]] = None]
    /\ \/ pc[p] \in {"reading", "testing"} /\ pc'[p] = pc[p]
       \/ pc[p] = "wait" /\ pc'[p] = "testing"
    /\ num'[p] = num[p] /\ lam'[p] = lam[p] /\ req'[p] = req[p]
    /\ UNCHANGED <<lockDir, D, E, used>>

\* It removes all that has number n, which is no locker's.
Discards(p, n) ==
    /\ ~InUse(n) /\ D' = D \ {n} /\ E' = E \ {n} /\ M' = [M EXCEPT ![n] = None]
    /\ pc'[p] = pc[p] /\ num'[p] = num[p] /\ lam'[p] = lam[p] /\ req'[p] = req[p]
    /\ todo'[p] = todo[p] /\ at'[p] = at[p] /\ UNCHANGED <<lockDir, used>>

\* It gives up its number, with the files it has, or they are left behind, or it dies.
Leaves(p) ==
    /\ num'[p] = NoNumber /\ todo'[p] = {} /\ at'[p] = None /\ UNCHANGED <<lockDir, used>>
    /\ \/ /\ pc[p] = "undoM" /\ pc'[p] = "rmLock"
          /\ D' = D /\ E' = E \ {num[p]} /\ M' = [M EXCEPT ![num[p]] = None]
       \/ /\ pc[p] = "undoD" /\ pc'[p] = "rmLock" /\ D' = D \ {num[p]} /\ UNCHANGED <<E, M>>
       \/ /\ pc[p] \in {"testing", "unlink"} /\ pc'[p] = "rmLock"
          /\ UNCHANGED <<D, E>> /\ M' = [M EXCEPT ![num[p]] = None]
       \/ /\ pc[p] \in {"possess", "testing", "wait", "unlink"} /\ pc'[p] \in {"idle", "rmLock"}
          /\ UNCHANGED <<D, E, M>>
          /\ M[num[p]] # None => <<"M", num[p]>> \in deserted'
       \/ /\ pc'[p] = "dead" /\ UNCHANGED <<D, E, M>>
          /\ pc[p] = "undoM" /\ num[p] \in E => <<"E", num[p]>> \in deserted'

\* One of these, of p, which leaves the other lockers alone.
Effect(p) ==
    /\ Others(p)
    /\ \/ Outside(p) \/ Claims(p) \/ Inside(p) \/ Enters(p) \/ Cleans(p) \/ Leaves(p)
       \/ \E n \in Numbers : Scans(p, n) \/ Discards(p, n)

\* What is left to read of a scan are numbers.
LEMMA TodoNumbers == ASSUME TypeOK, NEW p \in Lockers PROVE \A n \in todo[p] : n \in Numbers
  BY DEF TypeOK, TypeOwn

\* A step is one locker's.
LEMMA OthersStep ==
    ASSUME TypeOK, NEW p \in Lockers, Step(p) \/ Disturbance(p)
    PROVE  Others(p)
<1> USE DEF TypeOK, TypeCall, TypeOwn, Others
<1>1. CASE Lock(p) \/ CreateLockDir(p) \/ CannotCreateLockDir(p) \/ CannotCreateEntry(p)
           \/ UnlockImplicit(p) \/ RemoveLock(p)
  BY <1>1 DEF Lock, CreateLockDir, CannotCreateLockDir, CannotCreateEntry, UnlockImplicit,
              RemoveLock, Call, Refused, Goto, Forget, own, history
<1>2. CASE Draw(p) \/ CheckMember(p) \/ Undraw(p) \/ CreateEntryFile(p)
  BY <1>2 DEF Draw, CheckMember, Undraw, CreateEntryFile, Goto, own, history
<1>3. CASE ListNumbers(p) \/ NumberScanFails(p) \/ CreateMemberFile(p) \/ RemoveEntryDirectory(p)
  BY <1>3 DEF ListNumbers, NumberScanFails, CreateMemberFile, RemoveEntryDirectory, Goto, own,
              history
<1>4. CASE UndoEntryFile(p) \/ ListEntering(p) \/ ListMembers(p) \/ WaitTimesOut(p)
  BY <1>4 DEF UndoEntryFile, ListEntering, ListMembers, WaitTimesOut, Goto, own, history
<1>5. CASE UndoMember(p) \/ UndoEntryDirectory(p) \/ RemoveMember(p)
  BY <1>5 DEF UndoMember, UndoEntryDirectory, RemoveMember, Held, Forget, Goto, history
<1>6. CASE PossessionFails(p) \/ RemoveMemberFails(p) \/ Die(p)
  BY <1>6 DEF PossessionFails, RemoveMemberFails, Held, Die, Forget, Goto
<1>7. CASE RemoveStale(p) \/ WaitEnds(p)
  BY <1>7 DEF RemoveStale, WaitEnds, Goto, history
<1>8. ASSUME NEW n \in Numbers, ReadGone(p, n) \/ ReadStale(p, n) \/ NumberScan(p, n)
      PROVE  Others(p)
  BY <1>8 DEF ReadGone, ReadStale, NumberScan, history
<1>9. ASSUME NEW n \in Numbers, Win(p, n) \/ Wait(p, n) \/ DiscardDead(p, n) \/ DiscardSlow(p, n)
      PROVE  Others(p)
  BY <1>9 DEF Win, Wait, DiscardDead, DiscardSlow, DiscardEntry, Goto, history
<1>10. \A n \in todo[p] : n \in Numbers
  BY TodoNumbers
<1> QED BY ZenonT(60), <1>1, <1>2, <1>3, <1>4, <1>5, <1>6, <1>7, <1>8, <1>9, <1>10
        DEF Step, Disturbance

\* Every step has one of these effects, unless it breaks the scheme.
LEMMA EffectStep ==
    ASSUME ScanInv, TypeOK, ~broken', NEW p \in Lockers, Step(p) \/ Disturbance(p)
    PROVE  Effect(p)
<1> SUFFICES \/ Outside(p) \/ Claims(p) \/ Inside(p) \/ Enters(p) \/ Cleans(p) \/ Leaves(p)
             \/ \E n \in Numbers : Scans(p, n) \/ Discards(p, n)
  BY OthersStep, Zenon DEF Effect
<1> USE DEF TypeOK, TypeCall, TypeOwn
<1>1. CASE Lock(p) \/ CreateLockDir(p) \/ CannotCreateLockDir(p)
  BY <1>1 DEF Outside, Lock, CreateLockDir, CannotCreateLockDir, Call, Refused, Goto, disk, own,
              history
<1>2. CASE CannotCreateEntry(p) \/ UnlockImplicit(p)
  BY ZenonT(60), <1>2 DEF Outside, CannotCreateEntry, UnlockImplicit, Refused, Goto, Forget, disk,
                          own,
              history
<1>3. CASE RemoveLock(p)
  BY <1>3, Zenon DEF Outside, RemoveLock, RemoveLockDir, Goto, own, history
<1>4. CASE Draw(p) \/ Undraw(p)
  BY <1>4 DEF Claims, Draw, Undraw, Goto, history
<1>5. CASE CheckMember(p)
  <2>1. \/ /\ pc' = [pc EXCEPT ![p] = "open"] /\ used' = used \cup {num[p]}
           /\ M[num[p]] = None /\ num[p] \notin used
        \/ pc' = [pc EXCEPT ![p] = "undraw"] /\ used' = used
    BY <1>5, Zenon DEF CheckMember, Goto
  <2> QED BY <1>5, <2>1 DEF Claims, CheckMember, disk, own
<1>6. CASE CreateEntryFile(p) \/ UndoEntryFile(p)
  BY <1>6 DEF Inside, CreateEntryFile, UndoEntryFile, Goto, own, history
<1>7. CASE ListNumbers(p) \/ NumberScanFails(p)
  BY <1>7 DEF Inside, ListNumbers, NumberScanFails, Goto, disk, history
<1>8. CASE RemoveEntryDirectory(p) \/ ListEntering(p)
  BY Zenon, <1>8 DEF Inside, RemoveEntryDirectory, ListEntering, Goto, disk, own, history
<1>9. CASE ListMembers(p) \/ WaitTimesOut(p)
  BY <1>9 DEF Inside, ListMembers, WaitTimesOut, Goto, disk, history
<1>10. CASE CreateMemberFile(p)
  BY <1>10 DEF Enters, CreateMemberFile, Goto
<1>11. CASE RemoveStale(p)
  BY <1>11 DEF Cleans, RemoveStale, DeleteMember, history
<1>12. CASE WaitEnds(p)
  BY <1>12 DEF ScanInv, Cleans, WaitEnds, StillThere, KnownDead, DeleteMember, Goto, history
<1>13. CASE UndoMember(p) \/ UndoEntryDirectory(p)
  BY <1>13 DEF Leaves, UndoMember, UndoEntryDirectory, DeleteMember, Forget, Goto, history
<1>14. CASE RemoveMember(p)
  BY SMTT(30), <1>14 DEF Leaves, RemoveMember, DeleteMember, Held, Forget, Goto, history
<1>15. CASE PossessionFails(p) \/ RemoveMemberFails(p) \/ Die(p)
  BY SMTT(30), <1>15 DEF Leaves, PossessionFails, RemoveMemberFails, Held, Die, Forget, Goto, disk
<1>16. ASSUME NEW n \in Numbers, ReadGone(p, n) \/ Win(p, n) PROVE Scans(p, n)
  BY Zenon, <1>16 DEF Scans, ReadGone, Win, disk, history
<1>17. ASSUME NEW n \in Numbers, NumberScan(p, n) PROVE Scans(p, n)
  BY SMTT(60), <1>17, MemberValue DEF Scans, NumberScan, disk, history
<1>18. ASSUME NEW n \in Numbers, ReadStale(p, n) \/ Wait(p, n) PROVE Scans(p, n)
  BY <1>18 DEF Scans, ReadStale, Wait, KnownDead, Goto, disk, history
<1>19. ASSUME NEW n \in Numbers, DiscardDead(p, n) PROVE Discards(p, n)
  BY <1>19 DEF Discards, DiscardDead, DiscardEntry, DeleteMember
<1>20. ASSUME NEW n \in Numbers PROVE ~DiscardSlow(p, n)
  BY DEF DiscardSlow
<1>21. \A n \in todo[p] : n \in Numbers
  BY TodoNumbers
<1> QED BY ZenonT(60), <1>1, <1>2, <1>3, <1>4, <1>5, <1>6, <1>7, <1>8, <1>9, <1>10, <1>11, <1>12,
           <1>13, <1>14, <1>15, <1>16, <1>17, <1>18, <1>19, <1>20, <1>21 DEF Step, Disturbance

\* Each step keeps the types.
LEMMA TypeDiskStep ==
    ASSUME Inv, TypeOK, NEW p \in Lockers, Step(p) \/ Disturbance(p)
    PROVE  TypeDisk'
<1>1. CASE Draw(p) \/ CheckMember(p) \/ Undraw(p)
  BY <1>1 DEF Draw, CheckMember, Undraw, disk, TypeOK, TypeDisk
<1>2. CASE CreateEntryFile(p)
  <2>1. num[p] \in Numbers
    BY <1>2 DEF CreateEntryFile, Inv, NumInv, WithDir, TypeOK, TypeCall
  <2> QED BY <1>2, <2>1 DEF CreateEntryFile, TypeOK, TypeDisk
<1>3. CASE CreateMemberFile(p)
  <2>1. [owner |-> p, lam |-> lam[p] + 1, type |-> req[p].type] \in Values
    BY DEF TypeOK, TypeOwn, Request, Values
  <2> QED BY <1>3, <2>1 DEF CreateMemberFile, TypeOK, TypeDisk
<1>4. CASE Lock(p) \/ CreateLockDir(p) \/ RemoveLock(p)
  BY <1>4, Zenon DEF Lock, CreateLockDir, RemoveLock, RemoveLockDir, TypeOK, TypeDisk
<1>5. CASE CannotCreateLockDir(p) \/ CannotCreateEntry(p) \/ UnlockImplicit(p) \/ ListNumbers(p)
           \/ NumberScanFails(p) \/ ListEntering(p) \/ ListMembers(p) \/ WaitTimesOut(p)
           \/ PossessionFails(p) \/ RemoveMemberFails(p) \/ Die(p)
  <2>1. UNCHANGED disk
    BY <1>5, Zenon DEF CannotCreateLockDir, CannotCreateEntry, UnlockImplicit, ListNumbers,
           NumberScanFails, ListEntering, ListMembers, WaitTimesOut, PossessionFails, RemoveMemberFails,
           Die
  <2> QED BY <2>1 DEF disk, TypeOK, TypeDisk
<1>6. CASE RemoveEntryDirectory(p) \/ UndoEntryFile(p) \/ UndoEntryDirectory(p)
  BY ZenonT(60), <1>6 DEF RemoveEntryDirectory, UndoEntryFile, UndoEntryDirectory, TypeOK,
                          TypeDisk
<1>7. CASE UndoMember(p) \/ RemoveMember(p) \/ RemoveStale(p) \/ WaitEnds(p)
  BY <1>7 DEF UndoMember, RemoveMember, RemoveStale, WaitEnds, DeleteMember, TypeOK, TypeDisk
<1>8. ASSUME NEW n \in Numbers,
             ReadGone(p, n) \/ ReadStale(p, n) \/ NumberScan(p, n) \/ Win(p, n) \/ Wait(p, n)
      PROVE  TypeDisk'
  <2>1. UNCHANGED disk
    BY <1>8, Zenon DEF ReadGone, ReadStale, NumberScan, Win, Wait
  <2> QED BY <2>1 DEF disk, TypeOK, TypeDisk
<1>9. ASSUME NEW n \in Numbers, DiscardDead(p, n) \/ DiscardSlow(p, n) PROVE TypeDisk'
  BY <1>9 DEF DiscardDead, DiscardSlow, DiscardEntry, DeleteMember, TypeOK, TypeDisk
<1>10. \A n \in todo[p] : n \in Numbers
  BY TodoNumbers
<1> QED BY ZenonT(60), <1>1, <1>2, <1>3, <1>4, <1>5, <1>6, <1>7, <1>8, <1>9, <1>10
        DEF Step, Disturbance

LEMMA TypeCallStep ==
    ASSUME TypeOK, NEW p \in Lockers, Step(p) \/ Disturbance(p)
    PROVE  TypeCall'
<1>1. ASSUME NEW l \in PCs, Goto(p, l), \/ UNCHANGED num
                                        \/ num' = [num EXCEPT ![p] = NoNumber]
      PROVE  TypeCall'
  BY <1>1 DEF Goto, TypeOK, TypeCall
<1>2. CASE Lock(p) \/ CreateLockDir(p) \/ UnlockImplicit(p) \/ RemoveLock(p)
  BY <1>1, <1>2, Zenon DEF Lock, CreateLockDir, UnlockImplicit, RemoveLock, own, PCs
<1>3. CASE CannotCreateLockDir(p) \/ CannotCreateEntry(p)
  BY <1>1, <1>3 DEF CannotCreateLockDir, CannotCreateEntry, Refused, Forget, PCs
<1>4. CASE Draw(p)
  BY <1>4 DEF Draw, Goto, TypeOK, TypeCall, PCs
<1>5. CASE CheckMember(p) \/ Undraw(p) \/ CreateEntryFile(p) \/ RemoveEntryDirectory(p)
  BY Zenon, <1>1, <1>5 DEF CheckMember, Undraw, CreateEntryFile, RemoveEntryDirectory, own, PCs
<1>6. CASE ListNumbers(p) \/ NumberScanFails(p) \/ CreateMemberFile(p)
  BY Zenon, <1>1, <1>6 DEF ListNumbers, NumberScanFails, CreateMemberFile, PCs
<1>7. CASE UndoEntryFile(p) \/ ListMembers(p) \/ WaitEnds(p) \/ WaitTimesOut(p)
  BY Zenon, <1>1, <1>7 DEF UndoEntryFile, ListMembers, WaitEnds, WaitTimesOut, own, PCs
<1>8. CASE UndoMember(p) \/ UndoEntryDirectory(p) \/ RemoveMember(p) \/ PossessionFails(p)
           \/ RemoveMemberFails(p) \/ Die(p)
  BY ZenonT(60), <1>1, <1>8 DEF UndoMember, UndoEntryDirectory, RemoveMember, PossessionFails,
                                RemoveMemberFails, Die, Forget, PCs
<1>9. CASE ListEntering(p) \/ RemoveStale(p)
  BY <1>9 DEF ListEntering, RemoveStale, TypeOK, TypeCall
<1>10. ASSUME NEW n \in Numbers, ReadGone(p, n) \/ ReadStale(p, n) \/ NumberScan(p, n)
                                 \/ Win(p, n) \/ DiscardDead(p, n) \/ DiscardSlow(p, n)
       PROVE  TypeCall'
  <2>1. UNCHANGED <<pc, num>>
    BY ZenonT(60), <1>10 DEF ReadGone, ReadStale, NumberScan, Win, DiscardDead, DiscardSlow,
                           DiscardEntry
  <2> QED BY Zenon, <2>1 DEF TypeOK, TypeCall
<1>11. ASSUME NEW n \in Numbers, Wait(p, n) PROVE TypeCall'
  BY <1>1, <1>11 DEF Wait, PCs
<1>12. \A n \in todo[p] : n \in Numbers
  BY TodoNumbers
<1> QED BY ZenonT(60), <1>2, <1>3, <1>4, <1>5, <1>6, <1>7, <1>8, <1>9, <1>10, <1>11, <1>12
        DEF Step, Disturbance

LEMMA TypeOwnStep ==
    ASSUME TypeOK, NEW p \in Lockers, Step(p) \/ Disturbance(p)
    PROVE  TypeOwn'
<1>1. CASE Lock(p)
  <2>1. PICK r \in Requests[p] : req' = [req EXCEPT ![p] = r]
    BY <1>1, Zenon DEF Lock
  <2>2. r \in Request
    BY FileLockAssumption DEF Request
  <2> QED BY <1>1, <2>1, <2>2 DEF Lock, TypeOK, TypeOwn
<1>2. ASSUME NEW n \in Numbers, ReadGone(p, n) \/ Win(p, n) PROVE TypeOwn'
  BY <1>2 DEF ReadGone, Win, TypeOK, TypeOwn
<1>3. ASSUME NEW n \in Numbers, NumberScan(p, n) PROVE TypeOwn'
  BY Zenon, <1>3, MemberValue DEF NumberScan, TypeOK, TypeOwn
<1>4. ASSUME NEW n \in Numbers, ReadStale(p, n) \/ Wait(p, n) PROVE TypeOwn'
  <2>1. <<n, M[n].owner>> \in Numbers \X Lockers
    BY <1>4, MemberValue DEF ReadStale, Wait
  <2>2. at' \in [Lockers -> (Numbers \X Lockers) \cup {None}]
    BY ZenonT(60), <1>4, <2>1 DEF ReadStale, Wait, TypeOK, TypeOwn
  <2> QED BY SMTT(30), <1>4, <2>2 DEF ReadStale, Wait, TypeOK, TypeOwn
<1>5. ASSUME NEW n \in Numbers, DiscardDead(p, n) \/ DiscardSlow(p, n) PROVE TypeOwn'
  BY Zenon, <1>5 DEF DiscardDead, DiscardSlow, DiscardEntry, TypeOK, TypeOwn
<1>6. CASE RemoveStale(p) \/ WaitEnds(p)
  BY <1>6 DEF RemoveStale, WaitEnds, TypeOK, TypeOwn
<1>7. CASE UndoMember(p) \/ UndoEntryDirectory(p) \/ RemoveMember(p) \/ PossessionFails(p)
           \/ RemoveMemberFails(p) \/ Die(p) \/ CannotCreateEntry(p)
  <2>1. Forget(p)
    BY Zenon, <1>7 DEF UndoMember, UndoEntryDirectory, RemoveMember, PossessionFails,
                       RemoveMemberFails, Die, CannotCreateEntry
  <2> QED BY Zenon, <2>1 DEF Forget, Request, TypeOK, TypeOwn
<1>8. CASE ListNumbers(p) \/ NumberScanFails(p) \/ ListMembers(p) \/ WaitTimesOut(p)
  BY ZenonT(60), <1>8 DEF ListNumbers, NumberScanFails, ListMembers, WaitTimesOut, Members,
                          TypeOK,
                        TypeOwn
<1>9. CASE CreateMemberFile(p)
  BY <1>9 DEF CreateMemberFile, TypeOK, TypeOwn
<1>10. CASE CreateLockDir(p) \/ CannotCreateLockDir(p) \/ UnlockImplicit(p) \/ RemoveLock(p)
            \/ Draw(p) \/ CheckMember(p) \/ Undraw(p) \/ CreateEntryFile(p)
            \/ RemoveEntryDirectory(p) \/ UndoEntryFile(p) \/ ListEntering(p)
  <2>1. UNCHANGED <<req, lam, todo, at>>
    BY <1>10, Zenon DEF CreateLockDir, CannotCreateLockDir, UnlockImplicit, RemoveLock, Draw,
           CheckMember, Undraw, CreateEntryFile, RemoveEntryDirectory, UndoEntryFile,
           ListEntering, own
  <2> QED BY <2>1 DEF TypeOK, TypeOwn
<1>11. \A n \in todo[p] : n \in Numbers
  BY TodoNumbers
<1> QED BY ZenonT(60), <1>1, <1>2, <1>3, <1>4, <1>5, <1>6, <1>7, <1>8, <1>9, <1>10, <1>11
        DEF Step, Disturbance

LEMMA TypeStep ==
    ASSUME Inv, TypeOK, NEW p \in Lockers, Step(p) \/ Disturbance(p)
    PROVE  TypeOK'
  BY TypeDiskStep, TypeCallStep, TypeOwnStep DEF TypeOK

-----------------------------------------------------------------------------
(* The files: what a step does with them, and that each stays someone's.     *)

\* A member file is not rewritten, and a new one has a ticket above all that p has read.
LEMMA MemberKept ==
    ASSUME TypeOK, NEW p \in Lockers, Effect(p), NEW k \in Members'
    PROVE  \/ k \in Members /\ M'[k] = M[k]
           \/ Enters(p) /\ pc'[p] = "enter" /\ k = num[p] /\ M'[k].lam = lam[p] + 1 /\ M'[k].owner = p
<1>1. k \in Numbers /\ M'[k] # None
  BY DEF Members
<1>2. CASE Outside(p) \/ Claims(p) \/ Inside(p)
  <2>1. M' = M
    BY <1>2, Zenon DEF Outside, Claims, Inside
  <2> QED BY <1>1, <2>1, Zenon DEF Members
<1>3. CASE Enters(p)
  <2>1. CASE M' = M
    BY ZenonT(60), <1>1, <2>1 DEF Members
  <2>2. CASE pc'[p] = "enter"
             /\ M' = [M EXCEPT ![num[p]] = [owner |-> p, lam |-> lam[p] + 1, type |-> req[p].type]]
    BY <1>1, <1>3, <2>2 DEF Members, TypeOK, TypeDisk
  <2> QED BY <1>3, <2>1, <2>2, Zenon DEF Enters
<1>4. ASSUME NEW n, M' = [M EXCEPT ![n] = None] PROVE k \in Members /\ M'[k] = M[k]
  BY <1>1, <1>4 DEF Members, TypeOK, TypeDisk
<1>5. CASE Cleans(p)
  BY <1>4, <1>5, Zenon DEF Cleans
<1>6. CASE Leaves(p)
  BY <1>1, <1>4, <1>6, Zenon DEF Leaves, Members
<1>7. ASSUME NEW n \in Numbers, Scans(p, n) \/ Discards(p, n)
      PROVE  k \in Members /\ M'[k] = M[k]
  BY <1>1, <1>4, <1>7, Zenon DEF Scans, Discards, Members
<1> QED BY <1>2, <1>3, <1>5, <1>6, <1>7, Zenon DEF Effect

\* What a step of p does with its own files: p does not part from its member file unless the file
\* is removed, or p dies or gives up.
MemberEffect(p) ==
    pc[p] \in WithMember =>
        \/ pc'[p] \in WithMember /\ num'[p] = num[p]
        \/ pc'[p] = "dead"
        \/ num[p] \notin Members'
        \/ <<"M", num[p]>> \in deserted'

\* The same for entry files ...
EntryEffect(p) ==
    /\ \A n \in E' : n \in E \/ (num'[p] = n /\ pc'[p] = "number")
    /\ pc[p] \in WithEntry =>
           \/ pc'[p] \in WithEntry /\ num'[p] = num[p]
           \/ num[p] \notin E'
           \/ <<"E", num[p]>> \in deserted'
           \/ num[p] \in D' /\ num'[p] = NoNumber /\ pc[p] # "undoM"

\* ... and for entry directories; a number that is drawn has no entry directory.
DirEffect(p) ==
    /\ \A n \in D' : n \in D \/ (num'[p] = n /\ pc'[p] = "check")
    /\ \A n \in D \ D' : n = num[p] \/ n \notin E'
    /\ pc[p] \in WithDir =>
           \/ pc'[p] \in WithDir /\ num'[p] = num[p]
           \/ pc'[p] = "dead"
           \/ num[p] \notin D'
    /\ num'[p] = num[p] \/ num'[p] = NoNumber \/ num'[p] \notin D

LEMMA MemberEffectStep ==
    ASSUME TypeOK, NEW p \in Lockers, Effect(p)
    PROVE  MemberEffect(p)
<1>1. CASE Outside(p) \/ Claims(p) \/ Enters(p)
  BY <1>1, Zenon DEF Outside, Claims, Enters, MemberEffect, WithMember
<1>2. CASE Inside(p)
  BY <1>2, Zenon DEF Inside, MemberEffect, WithMember
<1>3. CASE Cleans(p) \/ \E n \in Numbers : Scans(p, n) \/ Discards(p, n)
  BY ZenonT(60), <1>3 DEF Cleans, Scans, Discards, MemberEffect, WithMember
<1>4. CASE Leaves(p)
  <2>1. M' = [M EXCEPT ![num[p]] = None] => num[p] \notin Members'
    BY DEF Members, TypeOK, TypeDisk
  <2>2. M' = M /\ M[num[p]] = None => num[p] \notin Members'
    BY DEF Members
  <2> QED BY <1>4, <2>1, <2>2 DEF Leaves, MemberEffect, WithMember
<1> QED BY <1>1, <1>2, <1>3, <1>4, Zenon DEF Effect

LEMMA EntryEffectStep ==
    ASSUME Inv, TypeOK, NEW p \in Lockers, Effect(p)
    PROVE  EntryEffect(p)
<1>1. CASE Outside(p) \/ Claims(p)
  BY Zenon, <1>1 DEF Outside, Claims, EntryEffect, WithEntry
<1>2. CASE Inside(p)
  BY ZenonT(60), <1>2 DEF Inside, EntryEffect, WithEntry
<1>3. CASE Enters(p) \/ Cleans(p)
  BY SMTT(60), <1>3 DEF Enters, Cleans, EntryEffect, WithEntry
<1>4. ASSUME NEW n \in Numbers, Scans(p, n) \/ Discards(p, n) PROVE EntryEffect(p)
  <2>1. E' \subseteq E /\ num'[p] = num[p] /\ (pc[p] \in WithEntry => pc'[p] = pc[p])
    BY <1>4 DEF Scans, Discards, WithEntry
  <2> QED BY ZenonT(60), <2>1 DEF EntryEffect
<1>5. CASE Leaves(p)
  <2>1. pc[p] \in WithEntry \ {"undoM"} => num[p] \in D
    BY DEF Inv, NumInv, WithEntry, WithDir
  <2> QED BY <1>5, <2>1 DEF Leaves, EntryEffect, WithEntry
<1> QED BY Zenon, <1>1, <1>2, <1>3, <1>4, <1>5 DEF Effect

LEMMA DirEffectStep ==
    ASSUME TypeOK, NEW p \in Lockers, Effect(p)
    PROVE  DirEffect(p)
<1>1. CASE Outside(p)
  BY Zenon, <1>1 DEF Outside, DirEffect, WithDir
<1>2. CASE Claims(p)
  BY Zenon, <1>2 DEF Claims, DirEffect, WithDir
<1>3. CASE Inside(p)
  BY ZenonT(60), <1>3 DEF Inside, DirEffect, WithDir
<1>4. CASE Enters(p) \/ Cleans(p)
  BY Zenon, <1>4 DEF Enters, Cleans, DirEffect, WithDir
<1>5. ASSUME NEW n \in Numbers, Scans(p, n) \/ Discards(p, n) PROVE DirEffect(p)
  <2>1. /\ D' \subseteq D /\ num'[p] = num[p] /\ (pc[p] \in WithDir => pc'[p] = pc[p])
        /\ \A k \in D \ D' : k \notin E'
    BY Zenon, <1>5 DEF Scans, Discards, WithDir
  <2> QED BY Zenon, <2>1 DEF DirEffect
<1>6. CASE Leaves(p)
  BY ZenonT(60), <1>6 DEF Leaves, DirEffect, WithDir
<1> QED BY <1>1, <1>2, <1>3, <1>4, <1>5, <1>6 DEF Effect

\* Every file stays someone's.
LEMMA FilesStep ==
    ASSUME Inv, TypeOK, NEW p \in Lockers, Effect(p)
    PROVE  FilesInv'
<1>0. Others(p) /\ MemberEffect(p) /\ EntryEffect(p) /\ DirEffect(p)
  BY ZenonT(60), MemberEffectStep, EntryEffectStep, DirEffectStep DEF Effect
<1>1. ASSUME NEW n \in Members'
      PROVE  \/ <<"M", n>> \in deserted'
             \/ ~Alive(M[n].owner)'
             \/ num'[M'[n].owner] = n /\ pc'[M'[n].owner] \in WithMember
  <2>1. CASE M'[n].owner = p /\ num'[p] = n /\ pc'[p] = "enter"
    BY <2>1 DEF WithMember
  <2>2. CASE n \in Members /\ M'[n] = M[n]
    <3> DEFINE o == M[n].owner
    <3>1. o \in Lockers
      BY Zenon, <2>2, MemberValue DEF Members
    <3>2. <<"M", n>> \in deserted \/ ~Alive(o) \/ (num[o] = n /\ pc[o] \in WithMember)
      BY <2>2 DEF Inv, FilesInv, MembersOwned
    <3>3. CASE o = p
      BY ZenonT(60), <1>0, <3>2, <3>3, <2>2, <1>1 DEF Others, MemberEffect, Alive
    <3>4. CASE o # p
      BY ZenonT(60), <1>0, <3>1, <3>2, <3>4, <2>2 DEF Others, Alive
    <3> QED BY <3>3, <3>4
  <2>3. Enters(p) => num'[p] = num[p]
    BY DEF Enters
  <2>4. \/ n \in Members /\ M'[n] = M[n]
        \/ M'[n].owner = p /\ num'[p] = n /\ pc'[p] = "enter"
    BY Zenon, <1>1, <2>3, MemberKept
  <2> QED BY <2>1, <2>2, <2>4
<1>2. ASSUME NEW n \in E'
      PROVE  \/ <<"E", n>> \in deserted'
             \/ \E q \in Lockers : num'[q] = n /\ pc'[q] \in WithEntry
             \/ n \in D' /\ ~InUse(n)'
  <2>1. CASE num'[p] = n /\ pc'[p] = "number"
    BY <2>1 DEF WithEntry
  <2>2. CASE n \in E
    <3>1. CASE <<"E", n>> \in deserted
      BY Zenon, <1>0, <3>1 DEF Others
    <3>2. ASSUME NEW q \in Lockers, q # p, num[q] = n, pc[q] \in WithEntry
          PROVE  \E r \in Lockers : num'[r] = n /\ pc'[r] \in WithEntry
      BY Zenon, <1>0, <3>2 DEF Others
    <3>3. CASE num[p] = n /\ pc[p] \in WithEntry
      <4>1. CASE n \in D' /\ num'[p] = NoNumber /\ pc[p] # "undoM"
        <5>1. n \in Numbers /\ n # NoNumber
          BY Zenon, <2>2, NoNumberFresh DEF TypeOK, TypeDisk
        <5>2. ASSUME NEW q \in Lockers, q # p PROVE num[q] # n
          BY Zenon, <3>3, <4>1, <5>1, <5>2 DEF WithEntry, Inv, NumInv, WithDir, Owning,
                 Claiming
        <5> QED BY <1>0, <4>1, <5>1, <5>2 DEF InUse, Others
      <4> QED BY ZenonT(60), <1>0, <4>1, <3>3, <1>2 DEF EntryEffect
    <3>4. CASE n \in D /\ ~InUse(n)
      <4>1. n \in D'
        BY <1>0, <3>4, <1>2 DEF DirEffect, InUse
      <4>2. n \in Numbers /\ n # NoNumber
        BY Zenon, <2>2, NoNumberFresh DEF TypeOK, TypeDisk
      <4> QED BY ZenonT(60), <1>0, <4>1, <4>2, <3>4 DEF InUse, Others, DirEffect
    <3> QED BY Zenon, <3>1, <3>2, <3>3, <3>4, <2>2 DEF Inv, FilesInv, EntriesOwned
  <2> QED BY Zenon, <1>0, <2>1, <2>2, <1>2 DEF EntryEffect
<1>3. ASSUME NEW n \in D'
      PROVE  \/ \E q \in Lockers : num'[q] = n /\ pc'[q] \in WithDir
             \/ \E q \in Lockers : ~Alive(q)'
  <2>1. CASE num'[p] = n /\ pc'[p] = "check"
    BY Zenon, <2>1 DEF WithDir
  <2>2. CASE n \in D
    <3>1. CASE \E q \in Lockers : ~Alive(q)
      BY ZenonT(60), <1>0, <3>1 DEF Others, Alive
    <3>2. ASSUME NEW q \in Lockers, num[q] = n, pc[q] \in WithDir
          PROVE  \/ \E r \in Lockers : num'[r] = n /\ pc'[r] \in WithDir
                 \/ \E r \in Lockers : ~Alive(r)'
      BY <1>0, <3>2, <1>3 DEF Others, DirEffect, Alive
    <3> QED BY Zenon, <3>1, <3>2, <2>2 DEF Inv, FilesInv, DirsOwned
  <2> QED BY <1>0, <2>1, <2>2, <1>3 DEF DirEffect
<1> QED BY <1>1, <1>2, <1>3 DEF FilesInv, MembersOwned, EntriesOwned, DirsOwned

\* The lock directory is not removed while it has something in it, and nothing is made outside it.
LEMMA DirNeededStep ==
    ASSUME Inv, TypeOK, NEW p \in Lockers, Effect(p)
    PROVE  DirNeeded'
<1>1. D # {} \/ E # {} \/ Members # {} => lockDir
  BY DEF Inv, DirInv, DirNeeded
<1>2. CASE Outside(p)
  <2>1. UNCHANGED <<D, E, Members>> /\ (lockDir' \/ ~lockDir \/ (D = {} /\ E = {} /\ Members = {}))
    <3>1. UNCHANGED <<D, E, M>>
      BY <1>2 DEF Outside
    <3>2. lockDir' \/ ~lockDir \/ (D = {} /\ E = {} /\ Members = {})
      BY <1>2, Zenon DEF Outside
    <3> QED BY <3>1, <3>2 DEF Members
  <2> QED BY <1>1, <2>1 DEF DirNeeded
<1>3. ASSUME ~Outside(p) PROVE lockDir' = lockDir /\ (D' # {} => D # {} \/ lockDir)
                               /\ (E' # {} => E # {} \/ lockDir)
  <2>1. CASE Claims(p)
    BY ZenonT(60), <2>1 DEF Claims
  <2>2. CASE Inside(p)
    BY <2>2 DEF Inside
  <2>3. CASE Enters(p) \/ Cleans(p) \/ Leaves(p)
    BY <2>3, Zenon DEF Enters, Cleans, Leaves
  <2>4. ASSUME NEW n \in Numbers, Scans(p, n) \/ Discards(p, n)
        PROVE  lockDir' = lockDir /\ D' \subseteq D /\ E' \subseteq E
    BY <2>4, Zenon DEF Scans, Discards
  <2> QED BY Zenon, <1>3, <2>1, <2>2, <2>3, <2>4 DEF Effect
<1>4. ASSUME ~Outside(p), Members' # {} PROVE lockDir
  <2>1. PICK k : k \in Members'
    BY <1>4, Zenon
  <2>2. CASE Enters(p) /\ pc'[p] = "enter"
    BY <1>1, <2>2, Zenon DEF Enters
  <2> QED BY <1>1, <2>1, <2>2, MemberKept
<1> QED BY <1>1, <1>2, <1>3, <1>4 DEF DirNeeded

\* Whoever leaves last removes the lock directory.
LEMMA DirOwnedStep ==
    ASSUME Inv, TypeOK, NEW p \in Lockers, Effect(p)
    PROVE  DirOwned'
<1>1. CASE pc'[p] \notin {"idle", "implicit"} \/ ~lockDir' \/ deserted' # {}
  BY <1>1 DEF DirOwned
<1>2. CASE pc'[p] \in {"idle", "implicit"} /\ lockDir' /\ deserted' = {}
  <2>1. /\ \A q \in Lockers \ {p} : pc'[q] = pc[q] /\ num'[q] = num[q]
        /\ deserted = {}
    BY <1>2, Zenon DEF Effect, Others
  <2>2. CASE Outside(p)
    <3>1. CASE pc[p] = "implicit" /\ lockDir
      BY <2>1, <3>1, <1>2 DEF Inv, DirInv, DirOwned
    <3>2. CASE pc[p] = "rmLock" /\ (D # {} \/ E # {} \/ Members # {})
      <4>1. ASSUME NEW q \in Lockers,
                   pc[q] \in WithDir \cup WithEntry \cup WithMember \cup {"dead"}
            PROVE  DirOwned'
        BY Zenon, <2>1, <3>2, <4>1 DEF WithDir, WithEntry, WithMember, DirOwned
      <4>2. ASSUME NEW n \in Members PROVE DirOwned'
        BY <2>1, <4>1, <4>2, MemberValue DEF Inv, FilesInv, MembersOwned, Alive, Members
      <4>3. ASSUME NEW n \in D PROVE DirOwned'
        BY <4>1, <4>3 DEF Inv, FilesInv, DirsOwned, Alive
      <4>4. ASSUME NEW n \in E PROVE DirOwned'
        BY <2>1, <4>1, <4>3, <4>4 DEF Inv, FilesInv, EntriesOwned
      <4> QED BY Zenon, <3>2, <4>2, <4>3, <4>4
    <3> QED BY ZenonT(60), <1>2, <2>2, <3>1, <3>2 DEF Outside
  <2>3. CASE Leaves(p)
    <3>1. pc[p] \in {"possess", "testing", "wait", "unlink"} /\ M[num[p]] = None
      BY <1>2, <2>3 DEF Leaves
    <3> QED BY SMTT(60), <3>1, OwnTicket DEF WithMember, Members
  <2>4. ~Claims(p) /\ ~Inside(p) /\ ~Enters(p) /\ ~Cleans(p)
    BY <1>2, Zenon DEF Claims, Inside, Enters, Cleans
  <2>5. ASSUME NEW n \in Numbers PROVE ~Scans(p, n)
    BY ZenonT(60), <1>2 DEF Scans
  <2>6. ASSUME NEW n \in Numbers, Discards(p, n) PROVE DirOwned'
    BY <1>2, <2>1, <2>6 DEF Discards, Inv, DirInv, DirOwned
  <2> QED BY <2>2, <2>3, <2>4, <2>5, <2>6, Zenon DEF Effect
<1> QED BY <1>1, <1>2

-----------------------------------------------------------------------------
(* The invariant is kept.                                                   *)

\* Numbers stay one locker's each.
LEMMA NumStep ==
    ASSUME Inv, TypeOK, NEW p \in Lockers, Effect(p)
    PROVE  NumInv'
<1>0. NumInv /\ Others(p)
  BY Zenon DEF Effect, Inv
<1> DEFINE Keeps == /\ num'[p] = num[p] /\ used' = used
                    /\ pc'[p] \in WithDir \cup Owning <=> pc[p] \in WithDir \cup Owning
                    /\ pc'[p] \in WithDir => pc[p] \in WithDir /\ D \subseteq D'
                    /\ pc'[p] \in Owning => pc[p] \in Owning
                    /\ D \subseteq D' \/ (pc[p] \in WithDir /\ D \subseteq D' \cup {num[p]})
           Gives == /\ num'[p] = NoNumber /\ used' = used /\ pc'[p] \notin WithDir \cup Owning
                    /\ D' = D \/ (pc[p] \in WithDir /\ D' = D \ {num[p]})
<1>1. ASSUME Keeps PROVE NumInv'
  <2>1. \A q \in Lockers :
            /\ num'[q] = num[q] /\ used' = used
            /\ pc'[q] \in WithDir \cup Owning <=> pc[q] \in WithDir \cup Owning
            /\ pc'[q] \in WithDir => pc[q] \in WithDir
            /\ pc'[q] \in Owning => pc[q] \in Owning
    BY ZenonT(60), <1>0, <1>1 DEF Others
  <2>2. \A q \in Lockers : pc'[q] \in WithDir => num[q] \in D'
    BY ZenonT(60), <1>0, <1>1, <2>1 DEF NumInv
  <2> QED BY ZenonT(60), <1>0, <2>1, <2>2 DEF NumInv
<1>2. ASSUME Gives PROVE NumInv'
  <2>1. /\ \A q \in Lockers : q # p => pc'[q] = pc[q] /\ num'[q] = num[q]
        /\ num'[p] = NoNumber /\ used' = used /\ pc'[p] \notin WithDir \cup Owning
    BY ZenonT(60), <1>0, <1>2 DEF Others
  <2>2. \A q \in Lockers : pc'[q] \in WithDir => num'[q] \in D'
    BY ZenonT(60), <1>0, <1>2, <2>1 DEF NumInv
  <2> QED BY ZenonT(60), <1>0, <2>1, <2>2 DEF NumInv
<1>3. CASE Outside(p)
  <2>1. /\ {pc[p], pc'[p]} \cap (WithDir \cup Owning) = {}
        /\ num'[p] \in {num[p], NoNumber} /\ D' = D /\ used' = used
    BY Zenon, <1>3 DEF Outside, WithDir, Owning, Claiming, WithMember
  <2>2. num[p] = NoNumber
    BY Zenon, <1>0, <2>1 DEF NumInv
  <2> QED BY Zenon, <1>2, <2>1, <2>2
<1>4. CASE Claims(p)
  BY <1>0, <1>4, NoNumberFresh DEF Claims, Others, NumInv, WithDir, Owning, Claiming, WithMember
<1>5. CASE Inside(p)
  <2>1. Keeps
    BY ZenonT(60), <1>5 DEF Inside, WithDir, Owning, Claiming, WithMember
  <2> QED BY Zenon, <1>1, <2>1
<1>6. CASE Enters(p) \/ Cleans(p)
  <2>1. Keeps
    BY ZenonT(60), <1>6 DEF Enters, Cleans, WithDir, Owning, Claiming, WithMember
  <2> QED BY Zenon, <1>1, <2>1
<1>7. CASE Leaves(p)
  <2>1. Gives
    BY ZenonT(60), <1>7 DEF Leaves, WithDir, Owning, Claiming, WithMember
  <2> QED BY Zenon, <1>2, <2>1
<1>8. ASSUME NEW n \in Numbers, Scans(p, n) PROVE NumInv'
  <2>1. Keeps
    BY ZenonT(60), <1>8 DEF Scans, WithDir, Owning, Claiming, WithMember
  <2> QED BY Zenon, <1>1, <2>1
<1>9. ASSUME NEW n \in Numbers, Discards(p, n) PROVE NumInv'
  <2>1. /\ pc'[p] = pc[p] /\ num'[p] = num[p] /\ used' = used /\ D' = D \ {n}
        /\ \A q \in Lockers : num[q] # n
    BY Zenon, <1>9 DEF Discards, InUse
  <2> QED BY <1>0, <2>1 DEF Others, NumInv
<1> QED BY <1>3, <1>4, <1>5, <1>6, <1>7, <1>8, <1>9, Zenon DEF Effect

\* What is settled stays so: its number is not claimed again.
LEMMA SettledStep ==
    ASSUME Inv, TypeOK, NEW p \in Lockers, Effect(p)
    PROVE  \A n : Settled(n) => Settled(n)'
<1> DEFINE G == /\ used \subseteq used'
                /\ pc'[p] \in Claiming =>
                       num'[p] = num[p] /\ (pc[p] \in Claiming \/ num[p] \notin used)
<1>1. CASE Outside(p) \/ Claims(p)
  <2>1. G
    BY Zenon, <1>1 DEF Outside, Claims, Claiming
  <2> QED BY <2>1, Zenon DEF Effect, Others, Settled
<1>2. CASE Inside(p)
  <2>1. G
    BY ZenonT(60), <1>2 DEF Inside, Claiming
  <2> QED BY <2>1, Zenon DEF Effect, Others, Settled
<1>3. CASE Enters(p) \/ Cleans(p) \/ Leaves(p)
  <2>1. G
    BY Zenon, <1>3 DEF Enters, Cleans, Leaves, Claiming
  <2> QED BY <2>1, Zenon DEF Effect, Others, Settled
<1>4. ASSUME NEW k \in Numbers, Scans(p, k) \/ Discards(p, k)
      PROVE  \A n : Settled(n) => Settled(n)'
  <2>1. G
    BY ZenonT(60), <1>4 DEF Scans, Discards, Claiming
  <2> QED BY ZenonT(60), <2>1 DEF Effect, Others, Settled
<1> QED BY <1>1, <1>2, <1>3, <1>4, Zenon DEF Effect

\* Only its locker removes a member file, or others once its process is dead.
LEMMA MemberStep ==
    ASSUME Inv, TypeOK, NEW p \in Lockers, Effect(p)
    PROVE  MemberInv'
<1>0. NumInv /\ MemberInv /\ ScanInv /\ Others(p) /\ \A n : Settled(n) => Settled(n)'
  BY ZenonT(60), SettledStep DEF Effect, Inv
<1> DEFINE Same == /\ pc[p] \in WithMember /\ num'[p] = num[p]
                   /\ lam'[p] = lam[p] /\ req'[p] = req[p]
<1>1. CASE M' = M /\ (pc'[p] \in WithMember => Same)
  <2>1. ASSUME NEW q \in Lockers, pc'[q] \in WithMember PROVE M'[num'[q]] = Ticket(q)'
    <3>1. pc[q] \in WithMember /\ num'[q] = num[q] /\ lam'[q] = lam[q] /\ req'[q] = req[q]
      BY Zenon, <1>0, <1>1, <2>1 DEF Others
    <3> QED BY Zenon, <1>0, <1>1, <3>1 DEF MemberInv, Ticket
  <2>2. Members' = Members
    BY Zenon, <1>1 DEF Members
  <2> QED BY Zenon, <1>0, <2>1, <2>2 DEF MemberInv
<1>2. CASE Outside(p) \/ Claims(p)
  <2>1. M' = M /\ pc'[p] \notin WithMember
    BY Zenon, <1>2 DEF Outside, Claims, WithMember
  <2> QED BY Zenon, <1>1, <2>1
<1>3. CASE Inside(p)
  <2>1. M' = M /\ (pc'[p] \in WithMember => Same)
    BY Zenon, <1>3 DEF Inside, WithMember
  <2> QED BY Zenon, <1>1, <2>1
<1>4. ASSUME NEW n \in Numbers, Scans(p, n) PROVE MemberInv'
  <2>1. M' = M /\ (pc'[p] \in WithMember => Same)
    BY Zenon, <1>4 DEF Scans, WithMember
  <2> QED BY ZenonT(60), <1>1, <2>1
<1>5. CASE Enters(p)
  <2>1. CASE pc'[p] = "fail"
    BY Zenon, <1>1, <1>5, <2>1 DEF Enters, WithMember
  <2>2. CASE pc'[p] = "enter"
    <3>1. /\ num[p] \in Numbers /\ num'[p] = num[p] /\ pc[p] = "reading" /\ used' = used
          /\ M' = [M EXCEPT ![num[p]] = Ticket(p)']
      BY ZenonT(60), <1>5, <2>2 DEF Enters, Ticket, TypeOK, TypeDisk
    <3>2. Settled(num[p])'
      <4>1. num[p] \in used
        BY Zenon, <1>0, <3>1 DEF NumInv, Owning, Claiming
      <4>2. ASSUME NEW q \in Lockers, pc'[q] \in Claiming PROVE num'[q] # num[p]
        <5>1. q # p
          BY Zenon, <2>2, <4>2 DEF Claiming
        <5>2. pc[q] \in Owning /\ pc[p] \in Owning /\ num'[q] = num[q]
          BY Zenon, <1>0, <3>1, <4>2, <5>1 DEF Others, Owning, Claiming
        <5> QED BY Zenon, <1>0, <5>1, <5>2 DEF NumInv
      <4> QED BY Zenon, <3>1, <4>1, <4>2 DEF Settled
    <3>3. ASSUME NEW q \in Lockers, q # p, pc'[q] \in WithMember
          PROVE  M'[num'[q]] = Ticket(q)'
      <4>1. num[q] # num[p] /\ M[num[q]] = Ticket(q) /\ num[q] \in Numbers
        BY <1>0, <3>1, <3>3, NoNumberFresh
           DEF NumInv, MemberInv, Others, Owning, Claiming, TypeOK, TypeCall
      <4> QED BY ZenonT(60), <4>1, <3>1, <3>3, <1>0 DEF Others, Ticket, TypeOK, TypeDisk
    <3>4. M'[num'[p]] = Ticket(p)'
      BY ZenonT(60), <3>1 DEF TypeOK, TypeDisk
    <3> QED BY ZenonT(60), <1>0, <3>1, <3>2, <3>3, <3>4 DEF MemberInv, Members, TypeOK, TypeDisk
  <2> QED BY Zenon, <1>5, <2>1, <2>2 DEF Enters
<1>6. ASSUME NEW n, M' = [M EXCEPT ![n] = None], pc'[p] \in WithMember => Same,
             \A q \in Lockers : pc'[q] \in WithMember => num[q] # n
      PROVE  MemberInv'
  <2>1. ASSUME NEW q \in Lockers, pc'[q] \in WithMember PROVE M'[num'[q]] = Ticket(q)'
    <3>1. /\ pc[q] \in WithMember /\ num'[q] = num[q] /\ lam'[q] = lam[q] /\ req'[q] = req[q]
          /\ num[q] # n
      BY Zenon, <1>0, <1>6, <2>1 DEF Others
    <3>2. num[q] \in Numbers /\ M[num[q]] = Ticket(q)
      BY Zenon, <1>0, <3>1 DEF NumInv, Owning, MemberInv, TypeOK, TypeCall
    <3> QED BY Zenon, <1>6, <3>1, <3>2 DEF Ticket, TypeOK, TypeDisk
  <2>2. Members' \subseteq Members
    BY Zenon, <1>6 DEF Members, TypeOK, TypeDisk
  <2> QED BY Zenon, <1>0, <2>1, <2>2 DEF MemberInv
<1>7. CASE Cleans(p)
  <2>1. /\ pc'[p] \in WithMember => Same
        /\ \A q \in Lockers : pc'[q] \in WithMember => pc[q] \in WithMember
        /\ M' = [M EXCEPT ![at[p][1]] = None]
    BY ZenonT(60), <1>0, <1>7 DEF Cleans, Others, WithMember
  <2>2. ASSUME NEW q \in Lockers, pc[q] \in WithMember PROVE num[q] # at[p][1]
    <3>1. M[at[p][1]] # None => M[at[p][1]].owner = at[p][2] /\ ~Alive(at[p][2])
      BY Zenon, <1>0, <1>7 DEF Cleans, ScanInv
    <3>2. num[q] \in Members /\ M[num[q]].owner = q
      BY <2>2, OwnTicket
    <3> QED BY Zenon, <2>2, <3>1, <3>2 DEF Members, Alive, WithMember
  <2> QED BY ZenonT(60), <1>6, <2>1, <2>2
<1>8. ASSUME NEW n \in Numbers, Discards(p, n) PROVE MemberInv'
  BY ZenonT(60), <1>0, <1>6, <1>8 DEF Discards, InUse, Others
<1>9. CASE Leaves(p)
  <2>1. pc'[p] \notin WithMember
    BY <1>9 DEF Leaves, WithMember
  <2>2. CASE M' = M
    BY <1>1, <2>1, <2>2
  <2>3. CASE M' = [M EXCEPT ![num[p]] = None] /\ pc[p] \in Owning
    <3>1. \A q \in Lockers : pc'[q] \in WithMember => num[q] # num[p]
      BY Zenon, <1>0, <2>1, <2>3 DEF NumInv, Others, Owning
    <3> QED BY ZenonT(60), <1>6, <2>1, <2>3, <3>1
  <2> QED BY Zenon, <1>9, <2>2, <2>3 DEF Leaves, Owning, Claiming, WithMember
<1> QED BY <1>2, <1>3, <1>4, <1>5, <1>7, <1>8, <1>9, Zenon DEF Effect

\* What scans remember stays true.
LEMMA ScanStep ==
    ASSUME Inv, TypeOK, NEW p \in Lockers, Effect(p)
    PROVE  ScanInv'
<1>0. /\ NumInv /\ MemberInv /\ ScanInv /\ Others(p)
      /\ \A n : Settled(n) => Settled(n)'
  BY SettledStep, Zenon DEF Effect, Inv
<1>1. ASSUME NEW q \in Lockers, pc'[q] = "wait" PROVE at'[q] # None
  <2>1. CASE q # p
    BY <1>0, <1>1, <2>1 DEF Others, ScanInv
  <2>2. ASSUME pc'[p] = "wait" PROVE at'[p] # None
    <3>1. ~Outside(p) /\ ~Claims(p) /\ ~Inside(p) /\ ~Enters(p) /\ ~Cleans(p) /\ ~Leaves(p)
      BY ZenonT(60), <2>2 DEF Outside, Claims, Inside, Enters, Cleans, Leaves
    <3>2. ASSUME NEW n \in Numbers, Scans(p, n) PROVE at'[p] # None
      <4>1. at'[p] = <<n, M[n].owner>> /\ M[n] # None
        BY ZenonT(60), <2>2, <3>2 DEF Scans
      <4> QED BY ZenonT(60), <4>1, MemberValue, PairNotNone
    <3>3. ASSUME NEW n \in Numbers, Discards(p, n) PROVE at'[p] # None
      BY Zenon, <1>0, <2>2, <3>3 DEF Discards, ScanInv
    <3> QED BY ZenonT(60), <3>1, <3>2, <3>3 DEF Effect
  <2> QED BY Zenon, <1>1, <2>1, <2>2
<1>2. ASSUME NEW q \in Lockers, NEW n \in todo'[q] PROVE Settled(n)'
  <2>1. CASE q # p
    BY ZenonT(60), <1>0, <2>1 DEF Others, ScanInv
  <2>2. todo'[p] \subseteq todo[p] \cup Members
    <3>1. CASE Outside(p) \/ Claims(p) \/ Enters(p) \/ Cleans(p) \/ Leaves(p)
      BY ZenonT(60), <3>1 DEF Outside, Claims, Enters, Cleans, Leaves
    <3>2. CASE Inside(p)
      BY Zenon, <3>2 DEF Inside
    <3>3. ASSUME NEW k \in Numbers, Scans(p, k) \/ Discards(p, k)
          PROVE  todo'[p] \subseteq todo[p] \cup Members
      BY Zenon, <3>3 DEF Scans, Discards
    <3> QED BY <3>1, <3>2, <3>3 DEF Effect
  <2> QED BY ZenonT(60), <1>0, <2>1, <2>2 DEF ScanInv, MemberInv
<1>3. ASSUME NEW q \in Lockers, at'[q] # None
      PROVE  /\ Settled(at[q][1])'
             /\ M'[at'[q][1]] # None => M'[at'[q][1]].owner = at'[q][2]
             /\ pc'[q] # "wait" => ~Alive(at[q][2])'
  <2>1. \A o \in Lockers : ~Alive(o) => ~Alive(o)'
    BY <1>0 DEF Others, Alive
  <2>2. ASSUME NEW n \in Numbers, Settled(n), M'[n] # None
        PROVE  M[n] # None /\ M'[n] = M[n]
    <3>1. CASE Enters(p)
      <4>1. num[p] # n
        BY Zenon, <2>2, <3>1 DEF Enters, Settled, Claiming
      <4> QED BY Zenon, <2>2, <3>1, <4>1 DEF Enters, TypeOK, TypeDisk
    <3>2. CASE Outside(p) \/ Claims(p) \/ Inside(p)
      BY Zenon, <2>2, <3>2 DEF Outside, Claims, Inside
    <3>3. CASE Cleans(p) \/ Leaves(p)
      BY Zenon, <2>2, <3>3 DEF Cleans, Leaves, TypeOK, TypeDisk
    <3>4. ASSUME NEW k \in Numbers, Scans(p, k) \/ Discards(p, k) PROVE M[n] # None /\ M'[n] = M[n]
      BY ZenonT(60), <2>2, <3>4 DEF Scans, Discards, TypeOK, TypeDisk
    <3> QED BY ZenonT(60), <3>1, <3>2, <3>3, <3>4 DEF Effect
  <2>3. CASE at'[q] = at[q] /\ (pc[q] # "wait" \/ pc'[q] = "wait")
    <3>1. at[q][1] \in Numbers /\ at[q][2] \in Lockers
      BY Zenon, <1>3, <2>3 DEF TypeOK, TypeOwn
    <3>2. /\ Settled(at[q][1])
          /\ M[at[q][1]] # None => M[at[q][1]].owner = at[q][2]
          /\ pc[q] # "wait" => ~Alive(at[q][2])
      BY <1>0, <1>3, <2>3 DEF ScanInv
    <3>3. Settled(at[q][1])'
      BY Zenon, <1>0, <2>3, <3>2 DEF Settled
    <3>4. M'[at'[q][1]] # None => M'[at'[q][1]].owner = at'[q][2]
      BY Zenon, <2>2, <2>3, <3>1, <3>2
    <3>5. pc'[q] # "wait" => ~Alive(at[q][2])'
      BY Zenon, <2>1, <2>3, <3>1, <3>2 DEF Alive
    <3> QED BY <3>3, <3>4, <3>5
  <2>4. ASSUME NEW n \in Numbers, Scans(p, n), q = p, at'[p] # at[p]
        PROVE  /\ Settled(at[q][1])'
               /\ M'[at'[q][1]] # None => M'[at'[q][1]].owner = at'[q][2]
               /\ pc'[q] # "wait" => ~Alive(at[q][2])'
    <3>1. /\ at'[p] = <<n, M[n].owner>> /\ M' = M /\ M[n] # None
          /\ pc'[p] # "wait" => ~Alive(M[n].owner)
      BY ZenonT(60), <2>4 DEF Scans
    <3>2. Settled(n) /\ M[n].owner \in Lockers
      BY Zenon, <1>0, <3>1, MemberValue DEF MemberInv, Members
    <3>3. Settled(at[p][1])'
      BY <1>0, <3>1, <3>2 DEF Settled
    <3>4. pc'[p] # "wait" => ~Alive(at[p][2])'
      BY SMTT(60), <2>1, <3>1, <3>2 DEF Alive
    <3>5. at'[p][1] = n /\ at'[p][2] = M[n].owner
      BY <3>1
    <3> QED BY Zenon, <2>4, <3>1, <3>3, <3>4, <3>5
  <2>5. CASE q # p
    BY ZenonT(60), <1>0, <2>3, <2>5 DEF Others
  <2>6. CASE q = p
    <3>1. CASE Outside(p) \/ Claims(p) \/ Enters(p)
      BY ZenonT(60), <1>3, <2>3, <2>6, <3>1 DEF Outside, Claims, Enters
    <3>2. CASE Inside(p)
      <4>1. at'[p] = at[p] /\ pc[p] # "wait"
        BY <1>3, <2>6, <3>2, Zenon DEF Inside
      <4> QED BY <2>3, <2>6, <4>1, Zenon
    <3>3. ~Cleans(p) /\ ~Leaves(p)
      BY ZenonT(60), <1>3, <2>6 DEF Cleans, Leaves
    <3>4. ASSUME NEW n \in Numbers, Scans(p, n), at'[p] = at[p] PROVE pc[p] # "wait"
      BY ZenonT(60), <3>4 DEF Scans
    <3>5. ASSUME NEW n \in Numbers, Discards(p, n) PROVE at'[p] = at[p] /\ pc'[p] = pc[p]
      BY Zenon, <3>5 DEF Discards
    <3>6. ASSUME NEW n \in Numbers, Scans(p, n)
          PROVE  /\ Settled(at[q][1])'
                 /\ M'[at'[q][1]] # None => M'[at'[q][1]].owner = at'[q][2]
                 /\ pc'[q] # "wait" => ~Alive(at[q][2])'
      BY Zenon, <2>3, <2>4, <2>6, <3>4, <3>6
    <3>7. ASSUME NEW n \in Numbers, Discards(p, n)
          PROVE  /\ Settled(at[q][1])'
                 /\ M'[at'[q][1]] # None => M'[at'[q][1]].owner = at'[q][2]
                 /\ pc'[q] # "wait" => ~Alive(at[q][2])'
      BY ZenonT(60), <2>3, <2>6, <3>5, <3>7
    <3> QED BY ZenonT(60), <3>1, <3>2, <3>3, <3>6, <3>7 DEF Effect
  <2> QED BY <2>5, <2>6
<1> QED BY <1>1, <1>2, <1>3 DEF ScanInv

\* Who tests has listed the members when nobody was entering, now or before.
LEMMA TestingKept ==
    ASSUME TypeOK, NEW p \in Lockers, Effect(p), NEW q \in Lockers, Testing(q)'
    PROVE  /\ num'[q] = num[q] /\ lam'[q] = lam[q] /\ req'[q] = req[q]
           /\ \/ Testing(q)
              \/ Inside(p) /\ q = p /\ D = {} /\ todo'[p] = Members \ {num[p]}
<1>1. CASE q # p
  BY <1>1 DEF Effect, Others, Testing
<1>2. CASE q = p
  <2>1. pc'[p] \in {"testing", "wait"}
    BY ZenonT(60), <1>2 DEF Testing
  <2>2. ~Outside(p) /\ ~Claims(p) /\ ~Enters(p) /\ ~Leaves(p)
    BY ZenonT(60), <2>1 DEF Outside, Claims, Enters, Leaves
  <2>3. CASE Inside(p)
    BY ZenonT(60), <1>2, <2>1, <2>3 DEF Inside
  <2>4. CASE Cleans(p)
    BY <1>2, <2>1, <2>4, Zenon DEF Cleans, Testing
  <2>5. ASSUME NEW n \in Numbers, Scans(p, n)
        PROVE  num'[p] = num[p] /\ lam'[p] = lam[p] /\ req'[p] = req[p] /\ Testing(p)
    BY <2>1, <2>5, Zenon DEF Scans, Testing
  <2>6. ASSUME NEW n \in Numbers, Discards(p, n)
        PROVE  num'[p] = num[p] /\ lam'[p] = lam[p] /\ req'[p] = req[p] /\ Testing(p)
    BY <2>1, <2>6, Zenon DEF Discards, Testing
  <2> QED BY <1>2, <2>2, <2>3, <2>4, <2>5, <2>6, Zenon DEF Effect
<1> QED BY ZenonT(60), <1>1, <1>2

\* It passes a member only when the member has gone or need not be waited for.
LEMMA PassedKept ==
    ASSUME TypeOK, NEW p \in Lockers, Effect(p), NEW q \in Lockers, Testing(q), Testing(q)',
           NEW k \in Members', k \in todo[q], k \notin todo'[q]
    PROVE  ~MustWait(k, q)
<1>1. q = p
  BY Zenon DEF Effect, Others
<1>2. pc[p] \in {"testing", "wait"} /\ pc'[p] \in {"testing", "wait"} /\ M'[k] # None
  BY <1>1 DEF Testing, Members
<1>3. ~Outside(p) /\ ~Claims(p) /\ ~Enters(p) /\ ~Leaves(p) /\ ~Inside(p)
  BY <1>2, Zenon DEF Outside, Claims, Enters, Leaves, Inside
<1>4. ~Cleans(p)
  BY <1>1, <1>2, Zenon DEF Cleans, TypeOK, TypeDisk, TypeOwn
<1>5. ASSUME NEW n \in Numbers, Scans(p, n) PROVE ~MustWait(k, q)
  <2>1. k = n /\ todo'[p] # todo[p] /\ M[k] # None /\ pc[p] # "reading"
    BY Zenon, <1>1, <1>2, <1>5 DEF Scans
  <2> QED BY <1>1, <1>5, <2>1, Zenon DEF Scans
<1>6. ASSUME NEW n \in Numbers PROVE ~Discards(p, n)
  BY ZenonT(60), <1>1 DEF Discards
<1> QED BY <1>3, <1>4, <1>5, <1>6, Zenon DEF Effect

\* Whoever chooses a ticket while q tests goes on to read that of q, or is above it.
LEMMA ChoosingKept ==
    ASSUME Inv, TypeOK, NEW p \in Lockers, Effect(p), NEW q \in Lockers, Testing(q),
           pc'[p] = "reading", q # p
    PROVE  num[q] \in todo'[p] \/ lam'[p] >= lam[q]
<1>1. num[q] \in Members /\ M[num[q]].owner = q /\ M[num[q]].lam = lam[q] /\ pc[q] # "dead"
  BY Zenon, OwnTicket DEF Testing, WithMember
<1>2. pc[p] = "reading" => num[q] \in todo[p] \/ lam[p] >= lam[q]
  BY ZenonT(60) DEF Inv, TicketInv
<1>3. ~Outside(p) /\ ~Claims(p) /\ ~Enters(p) /\ ~Leaves(p)
  BY ZenonT(60) DEF Outside, Claims, Enters, Leaves
<1>4. CASE Inside(p)
  <2>1. pc[p] = "number" /\ todo'[p] = Members \ {num[p]}
    BY ZenonT(60), <1>4 DEF Inside
  <2>2. num[q] # num[p]
    BY Zenon, <2>1 DEF Inv, NumInv, Testing, Owning, Claiming, WithMember
  <2> QED BY ZenonT(60), <1>1, <2>1, <2>2
<1>5. CASE Cleans(p)
  <2>1. /\ at[p] # None /\ pc[p] = "reading"
        /\ todo'[p] = todo[p] \ {at[p][1]} /\ lam'[p] = lam[p]
    BY Zenon, <1>5 DEF Cleans
  <2>2. M[at[p][1]] # None => M[at[p][1]].owner = at[p][2] /\ pc[at[p][2]] = "dead"
    BY Zenon, <2>1 DEF Inv, ScanInv, Alive
  <2>3. num[q] # at[p][1]
    BY Zenon, <1>1, <2>2 DEF Members
  <2> QED BY Zenon, <1>2, <2>1, <2>3
<1>6. ASSUME NEW n \in Numbers, Scans(p, n) PROVE num[q] \in todo'[p] \/ lam'[p] >= lam[q]
  <2>1. pc[p] = "reading" /\ lam[p] \in Nat /\ lam[q] \in Nat
    BY ZenonT(60), <1>6 DEF Scans, TypeOK, TypeOwn
  <2>2. CASE todo'[p] = todo[p] /\ lam'[p] = lam[p]
    BY ZenonT(60), <1>2, <2>1, <2>2
  <2>3. CASE todo'[p] = todo[p] \ {n} /\ M[n] = None /\ lam'[p] = lam[p]
    BY ZenonT(60), <1>1, <1>2, <2>1, <2>3 DEF Members
  <2>4. CASE /\ todo'[p] = todo[p] \ {n} /\ lam'[p] \in Nat
             /\ lam'[p] >= lam[p] /\ lam'[p] >= M[n].lam
    BY <1>1, <1>2, <2>1, <2>4
  <2> QED BY Zenon, <1>6, <2>1, <2>2, <2>3, <2>4 DEF Scans
<1>7. ASSUME NEW n \in Numbers, Discards(p, n) PROVE num[q] \in todo'[p] \/ lam'[p] >= lam[q]
  BY Zenon, <1>2, <1>7 DEF Discards
<1> QED BY ZenonT(60), <1>3, <1>4, <1>5, <1>6, <1>7 DEF Effect

\* Tickets are honoured: the bakery argument.
LEMMA TicketStep ==
    ASSUME Inv, TypeOK, NEW p \in Lockers, Effect(p)
    PROVE  TicketInv'
<1>1. ASSUME NEW q \in Lockers, Testing(q)', NEW k \in Members' \ {num'[q]}
      PROVE  k \in todo'[q] \/ ~MustWait(k, q)'
  <2>1. num'[q] = num[q] /\ lam'[q] = lam[q] /\ req'[q] = req[q] /\ k # num[q]
    BY Zenon, <1>1, TestingKept
  <2>2. CASE k \in Members /\ M'[k] = M[k]
    <3>1. MustWait(k, q)' <=> MustWait(k, q)
      BY Zenon, <2>1, <2>2 DEF MustWait, Before, Conflict
    <3>2. CASE Testing(q)
      <4>1. k \in todo[q] \/ ~MustWait(k, q)
        BY Zenon, <2>1, <2>2, <3>2 DEF Inv, TicketInv
      <4> QED BY Zenon, <1>1, <3>1, <3>2, <4>1, PassedKept
    <3>3. CASE q = p /\ todo'[p] = Members \ {num[p]}
      BY ZenonT(60), <2>1, <2>2, <3>3
    <3> QED BY Zenon, <1>1, <3>2, <3>3, TestingKept
  <2>3. CASE Enters(p) /\ k = num[p] /\ M'[k].lam = lam[p] + 1
    <3>1. pc[p] = "reading" /\ todo[p] = {}
      BY Zenon, <2>3 DEF Enters
    <3>2. Testing(q)
      BY ZenonT(60), <1>1, <2>3, <3>1, TestingKept DEF Inside, Enters
    <3>3. lam[p] >= lam[q] /\ lam[p] \in Nat /\ lam[q] \in Nat
      BY ZenonT(60), <3>1, <3>2 DEF Inv, TicketInv, TypeOK, TypeOwn
    <3> QED BY SMTT(60), <2>1, <2>3, <3>3 DEF MustWait, Before
  <2> QED BY <1>1, <2>2, <2>3, MemberKept
<1>2. ASSUME NEW q \in Lockers, NEW r \in Lockers, Testing(q)', pc'[r] = "reading"
      PROVE  num'[q] \in todo'[r] \/ lam'[r] >= lam'[q]
  <2>1. num'[q] = num[q] /\ lam'[q] = lam[q]
    BY <1>2, TestingKept
  <2>2. q # r
    BY ZenonT(60), <1>2 DEF Testing
  <2>3. r # p => pc[r] = "reading" /\ todo'[r] = todo[r] /\ lam'[r] = lam[r]
    BY <1>2 DEF Effect, Others
  <2>4. CASE Testing(q)
    <3>1. CASE r = p
      BY ZenonT(60), <1>2, <2>1, <2>2, <2>4, <3>1, ChoosingKept
    <3>2. CASE r # p
      BY ZenonT(60), <2>1, <2>3, <2>4, <3>2 DEF Inv, TicketInv
    <3> QED BY Zenon, <3>1, <3>2
  <2>5. CASE q = p /\ D = {}
    BY <2>2, <2>3, <2>5 DEF Inv, NumInv, WithDir
  <2> QED BY <1>2, <2>4, <2>5, TestingKept
<1> QED BY <1>1, <1>2 DEF TicketInv

-----------------------------------------------------------------------------
(* The theorems.                                                            *)

LEMMA InitIInv == Init => IInv
<1> SUFFICES ASSUME Init PROVE IInv
  OBVIOUS
<1>1. TypeOK
  BY Zenon DEF Init, TypeOK, TypeDisk, TypeCall, TypeOwn, PCs, Request
<1>2. NumInv /\ MemberInv /\ ScanInv /\ TicketInv
  BY ZenonT(60) DEF Init, NumInv, MemberInv, ScanInv, TicketInv, Testing, Members, WithDir,
                    Owning,
         Claiming, WithMember
<1>3. FilesInv /\ DirInv
  BY DEF Init, FilesInv, MembersOwned, EntriesOwned, DirsOwned, DirInv, DirNeeded, DirOwned,
         Members
<1> QED BY <1>1, <1>2, <1>3 DEF IInv, Inv

LEMMA NextIInv == IInv /\ [Next]_vars => IInv'
<1> SUFFICES ASSUME IInv, [Next]_vars PROVE IInv'
  OBVIOUS
<1>1. CASE UNCHANGED vars
  <2>1. TypeOK'
    BY ZenonT(60), <1>1 DEF IInv, TypeOK, TypeDisk, TypeCall, TypeOwn, vars
  <2>2. broken \/ NumInv'
    BY <1>1 DEF IInv, Inv, vars, NumInv
  <2>3. broken \/ MemberInv'
    BY Zenon, <1>1 DEF IInv, Inv, vars, MemberInv, Members, Settled, Ticket
  <2>4. broken \/ ScanInv'
    BY ZenonT(60), <1>1 DEF IInv, Inv, vars, ScanInv, Settled, Alive
  <2>5. broken \/ TicketInv'
    BY <1>1 DEF IInv, Inv, vars, TicketInv, Testing, Members, MustWait, Before, Conflict
  <2>6. broken \/ FilesInv'
    BY ZenonT(60), <1>1 DEF IInv, Inv, vars, FilesInv, MembersOwned, EntriesOwned, DirsOwned,
                       Members, Alive, InUse
  <2>7. broken \/ DirInv'
    BY <1>1 DEF IInv, Inv, vars, DirInv, DirNeeded, DirOwned, Members
  <2> QED BY <1>1, <2>1, <2>2, <2>3, <2>4, <2>5, <2>6, <2>7 DEF IInv, Inv, vars
<1>2. CASE Next
  <2>1. TypeOK /\ ~broken /\ Inv
    BY <1>2 DEF Next, IInv
  <2>2. PICK p \in Lockers : Step(p) \/ Disturbance(p)
    BY <1>2 DEF Next
  <2>3. TypeOK'
    BY <2>1, <2>2, TypeStep
  <2>4. CASE ~broken'
    <3>1. Effect(p)
      BY Zenon, <2>1, <2>2, <2>4, EffectStep DEF Inv
    <3>2. NumInv' /\ MemberInv' /\ ScanInv' /\ TicketInv' /\ FilesInv' /\ DirInv'
      BY <2>1, <3>1, NumStep, MemberStep, ScanStep, TicketStep, FilesStep, DirNeededStep,
         DirOwnedStep DEF DirInv
    <3> QED BY <2>3, <3>2 DEF IInv, Inv
  <2> QED BY <2>3, <2>4 DEF IInv
<1> QED BY <1>1, <1>2

\* The inductive invariant holds in every reachable state.
THEOREM Invariance == Spec => []IInv
BY InitIInv, NextIInv, PTL DEF Spec

\* An exclusive holder of the portable lock is the only holder, as long as no number comes back
\* while a scan still knows it and no slow entrant is taken for a dead one.
THEOREM Excludes == Spec => []MutualExclusion
<1>1. ASSUME IInv, ~broken, NEW p \in Lockers, NEW q \in Lockers, p # q, Held(p), Held(q)
      PROVE  req[p].type = "S" /\ req[q].type = "S"
  <2>1. TypeOK /\ Inv
    BY ZenonT(60), <1>1 DEF IInv
  <2>2. /\ num[p] \in Members /\ M[num[p]].lam = lam[p] /\ M[num[p]].type = req[p].type
        /\ num[q] \in Members /\ M[num[q]].lam = lam[q] /\ M[num[q]].type = req[q].type
    BY <1>1, <2>1, OwnTicket DEF Held, WithMember
  <2>3. num[p] # num[q] /\ num[p] \in Nat /\ num[q] \in Nat /\ lam[p] \in Nat /\ lam[q] \in Nat
    BY <1>1, <2>1, <2>2, FileLockAssumption, Zenon DEF Inv, NumInv, Held, Owning, WithMember,
           Members,
                                                TypeOK, TypeOwn
  <2>4. ~MustWait(num[q], p) /\ ~MustWait(num[p], q)
    BY <1>1, <2>1, <2>2, <2>3 DEF Inv, TicketInv, Testing, Held
  <2>5. ~(req[p].type = "X" \/ req[q].type = "X")
    BY <2>2, <2>3, <2>4 DEF MustWait, Before, Conflict
  <2> QED BY <2>1, <2>5 DEF TypeOK, TypeOwn, Request
<1>2. IInv => MutualExclusion
  BY ZenonT(60), <1>1 DEF MutualExclusion
<1> QED BY <1>2, Invariance, PTL

\* A holder has its member file, so that FileLock_IsLocked sees the lock, and it overtakes no
\* conflicting member with an earlier ticket, not even one that was left behind.
THEOREM HonoursTickets == Spec => []HolderIsFirst
<1>1. ASSUME IInv, ~broken, NEW p \in Lockers, Held(p)
      PROVE  /\ IsLocked
             /\ M[num[p]] = [owner |-> p, lam |-> lam[p], type |-> req[p].type]
             /\ \A n \in Members \ {num[p]} : ~MustWait(n, p)
  <2>1. TypeOK /\ Inv
    BY ZenonT(60), <1>1 DEF IInv
  <2>2. num[p] \in Members
    BY <1>1, <2>1, OwnTicket DEF Held, WithMember
  <2>3. IsLocked
    BY <2>1, <2>2 DEF IsLocked, Inv, DirInv, DirNeeded
  <2>4. M[num[p]] = Ticket(p)
    BY <1>1, <2>1, Zenon DEF Inv, MemberInv, Held, WithMember
  <2>5. \A n \in Members \ {num[p]} : ~MustWait(n, p)
    BY Zenon, <1>1, <2>1 DEF Inv, TicketInv, Testing, Held
  <2> QED BY Zenon, <2>3, <2>4, <2>5 DEF Ticket
<1>2. IInv => HolderIsFirst
  BY <1>1 DEF HolderIsFirst
<1> QED BY <1>2, Invariance, PTL

\* Every member file, entry file and entry directory is that of a call in progress, of a lock
\* that is held or of a dead process, except for what errors left behind; in particular no cleanup
\* takes the files of a live locker.
THEOREM FilesHaveOwners == Spec => []FilesAccounted
<1>1. ASSUME IInv, ~broken, NEW n \in E \ D
      PROVE  \/ <<"E", n>> \in deserted
             \/ \E p \in Lockers : pc[p] = "undoM" /\ num[p] = n
  <2>1. Inv
    BY Zenon, <1>1 DEF IInv
  <2>2. ASSUME NEW p \in Lockers, num[p] = n, pc[p] \in WithEntry PROVE pc[p] = "undoM"
    BY Zenon, <1>1, <2>1, <2>2 DEF Inv, NumInv, WithEntry, WithDir
  <2> QED BY <1>1, <2>1, <2>2 DEF Inv, FilesInv, EntriesOwned
<1>2. ASSUME IInv, ~broken, NEW p \in Lockers, pc[p] \in Entering PROVE num[p] \in D
  BY Zenon, <1>2 DEF IInv, Inv, NumInv, Entering, WithDir
<1>3. ASSUME IInv, ~broken, NEW n \in Members
      PROVE  \/ <<"M", n>> \in deserted
             \/ ~Alive(M[n].owner)
             \/ num[M[n].owner] = n /\ pc[M[n].owner] \in
                    {"enter", "possess", "testing", "wait", "unlink"}
  BY <1>3 DEF IInv, Inv, FilesInv, MembersOwned, WithMember
<1>4. IInv => FilesAccounted
  BY <1>1, <1>2, <1>3 DEF FilesAccounted
<1> QED BY <1>4, Invariance, PTL

\* When no call is in progress, no process has died and no error left anything behind, the lock
\* directory has gone with all that was in it, however its removal raced with lockers that enter.
THEOREM RestsClean == Spec => []RestIsClean
<1>1. ASSUME IInv, ~broken, deserted = {}, \A p \in Lockers : pc[p] \in {"idle", "implicit"}
      PROVE  ~lockDir /\ D = {} /\ E = {} /\ Members = {}
  BY <1>1 DEF IInv, Inv, DirInv, DirNeeded, DirOwned
<1>2. IInv => RestIsClean
  BY <1>1 DEF RestIsClean
<1> QED BY <1>2, Invariance, PTL
=============================================================================
