--------------------------- MODULE ThreadPoolProofs ---------------------------
(***************************************************************************)
(* Proofs about ThreadPool for any number of tasks, threads and dedicated   *)
(* threads: the shutdown overlooks no thread, no pool thread pops in vain   *)
(* until a task is cancelled, and every task runs at most once until        *)
(* GThreadPool fails to create a thread.                                    *)
(***************************************************************************)
EXTENDS ThreadPool, TLAPS

Elements(q) == {q[i] : i \in 1 .. Len(q)}
Distinct(q) == \A i, j \in 1 .. Len(q) : q[i] = q[j] => i = j

LEMMA EnqueueSeq ==
    ASSUME NEW q \in Seq(Tasks), NEW t \in Tasks
    PROVE  /\ <<t>> \o q \in Seq(Tasks)
           /\ Len(<<t>> \o q) = Len(q) + 1
           /\ Elements(<<t>> \o q) = Elements(q) \cup {t}
           /\ Distinct(q) /\ t \notin Elements(q) => Distinct(<<t>> \o q)
<1> DEFINE r == <<t>> \o q
<1>1. r \in Seq(Tasks) /\ Len(r) = Len(q) + 1 /\ Len(q) \in Nat OBVIOUS
<1>2. \A i \in 1 .. Len(r) : r[i] = IF i = 1 THEN t ELSE q[i - 1] OBVIOUS
<1> HIDE DEF r
<1>3. Elements(r) = Elements(q) \cup {t}
  <2>1. ASSUME NEW x \in Elements(r) PROVE x \in Elements(q) \cup {t}
    <3>1. PICK i \in 1 .. Len(r) : x = r[i] BY <2>1 DEF Elements
    <3>2. i # 1 => i - 1 \in 1 .. Len(q) BY <1>1, <3>1
    <3> QED BY <1>2, <3>1, <3>2 DEF Elements
  <2>2. ASSUME NEW x \in Elements(q) PROVE x \in Elements(r)
    <3>1. PICK i \in 1 .. Len(q) : x = q[i] BY <2>2 DEF Elements
    <3>2. i + 1 \in 1 .. Len(r) /\ i + 1 # 1 /\ (i + 1) - 1 = i BY <1>1, <3>1
    <3>3. r[i + 1] = q[i] BY <1>2, <3>2
    <3> QED BY <3>1, <3>2, <3>3 DEF Elements
  <2>3. t \in Elements(r)
    <3>1. 1 \in 1 .. Len(r) BY <1>1
    <3> QED BY <1>2, <3>1 DEF Elements
  <2> QED BY <2>1, <2>2, <2>3
<1>4. ASSUME Distinct(q), t \notin Elements(q) PROVE Distinct(r)
  <2> SUFFICES ASSUME NEW i \in 1 .. Len(r), NEW j \in 1 .. Len(r), r[i] = r[j] PROVE i = j
    BY DEF Distinct
  <2>1. i # 1 => i - 1 \in 1 .. Len(q) BY <1>1
  <2>2. j # 1 => j - 1 \in 1 .. Len(q) BY <1>1
  <2>3. \A k \in 1 .. Len(q) : q[k] # t BY <1>4 DEF Elements
  <2>4. i = 1 <=> j = 1 BY <1>2, <2>1, <2>2, <2>3
  <2>5. CASE i # 1
    <3>1. q[i - 1] = q[j - 1] BY <1>2, <2>4, <2>5
    <3>2. i - 1 = j - 1 BY Zenon, <1>4, <2>1, <2>2, <2>4, <2>5, <3>1 DEF Distinct
    <3> QED BY <3>2
  <2> QED BY <2>4, <2>5
<1> QED BY <1>1, <1>3, <1>4 DEF r

LEMMA WithoutSeq ==
    ASSUME NEW q \in Seq(Tasks), NEW i \in 1 .. Len(q)
    PROVE  /\ Without(q, i) \in Seq(Tasks)
           /\ Len(Without(q, i)) = Len(q) - 1
           /\ Elements(Without(q, i)) \subseteq Elements(q)
           /\ Distinct(q) => Distinct(Without(q, i)) /\ Elements(Without(q, i)) = Elements(q) \ {q[i]}
<1> DEFINE a == SubSeq(q, 1, i - 1)
           b == SubSeq(q, i + 1, Len(q))
           r == Without(q, i)
<1>1. a \in Seq(Tasks) /\ Len(a) = i - 1 /\ \A k \in 1 .. i - 1 : a[k] = q[k]
  OBVIOUS
<1>2. b \in Seq(Tasks) /\ Len(b) = Len(q) - i /\ \A k \in 1 .. Len(q) - i : b[k] = q[i + k]
  OBVIOUS
<1>3. r = a \o b BY DEF Without
<1> HIDE DEF a, b, r
<1>4. r \in Seq(Tasks) /\ Len(r) = Len(q) - 1 BY <1>1, <1>2, <1>3
<1>5. \A k \in 1 .. Len(r) : r[k] = IF k < i THEN q[k] ELSE q[k + 1]
  <2> SUFFICES ASSUME NEW k \in 1 .. Len(r) PROVE r[k] = IF k < i THEN q[k] ELSE q[k + 1]
    OBVIOUS
  <2>1. r[k] = IF k <= Len(a) THEN a[k] ELSE b[k - Len(a)] BY SMTT(60), <1>1, <1>2, <1>3, <1>4
  <2>2. CASE k < i
    <3>1. k \in 1 .. i - 1 /\ k <= Len(a) BY <1>1, <2>2
    <3> QED BY <1>1, <2>1, <2>2, <3>1
  <2>3. CASE ~(k < i)
    <3>1. k - (i - 1) \in 1 .. Len(q) - i /\ ~(k <= Len(a)) /\ i + (k - (i - 1)) = k + 1
      BY <1>1, <1>4, <2>3
    <3>2. b[k - (i - 1)] = q[i + (k - (i - 1))] BY <1>2, <3>1
    <3> QED BY <1>1, <2>1, <2>3, <3>1, <3>2
  <2> QED BY <2>2, <2>3
<1>6. \A k \in 1 .. Len(r) : (IF k < i THEN k ELSE k + 1) \in 1 .. Len(q)
  BY <1>4
<1>7. Elements(r) \subseteq Elements(q)
  <2> SUFFICES ASSUME NEW k \in 1 .. Len(r) PROVE r[k] \in Elements(q) BY DEF Elements
  <2> QED BY Zenon, <1>5, <1>6 DEF Elements
<1>8. ASSUME Distinct(q) PROVE Distinct(r) /\ Elements(r) = Elements(q) \ {q[i]}
  <2>1. Distinct(r)
    <3> SUFFICES ASSUME NEW k \in 1 .. Len(r), NEW m \in 1 .. Len(r), r[k] = r[m] PROVE k = m
      BY DEF Distinct
    <3> DEFINE f(n) == IF n < i THEN n ELSE n + 1
    <3>1. f(k) \in 1 .. Len(q) /\ f(m) \in 1 .. Len(q) BY <1>6
    <3>2. q[f(k)] = q[f(m)] BY <1>5
    <3>3. f(k) = f(m) BY <1>8, <3>1, <3>2 DEF Distinct
    <3> QED BY <3>3
  <2>2. q[i] \notin Elements(r)
    <3> SUFFICES ASSUME NEW k \in 1 .. Len(r), r[k] = q[i] PROVE FALSE BY DEF Elements
    <3> DEFINE f(n) == IF n < i THEN n ELSE n + 1
    <3>1. f(k) \in 1 .. Len(q) BY <1>6
    <3>2. q[f(k)] = q[i] BY <1>5
    <3>3. f(k) = i BY <1>8, <3>1, <3>2 DEF Distinct
    <3> QED BY <3>3
  <2>3. ASSUME NEW x \in Elements(q), x # q[i] PROVE x \in Elements(r)
    <3>1. PICK k \in 1 .. Len(q) : x = q[k] BY <2>3 DEF Elements
    <3>2. CASE k < i
      <4>1. k \in 1 .. Len(r) BY <1>4, <3>2
      <4> QED BY <1>5, <3>1, <3>2, <4>1 DEF Elements
    <3>3. CASE k > i
      <4>1. k - 1 \in 1 .. Len(r) /\ ~(k - 1 < i) /\ (k - 1) + 1 = k BY <1>4, <3>3
      <4>2. r[k - 1] = q[k] BY <1>5, <4>1
      <4> QED BY <3>1, <4>1, <4>2 DEF Elements
    <3> QED BY <2>3, <3>1, <3>2, <3>3
  <2> QED BY <1>7, <2>1, <2>2, <2>3
<1> QED BY <1>4, <1>7, <1>8 DEF r

LEMMA PopTailSeq ==
    ASSUME workQueue \in Seq(Tasks), workQueue # <<>>
    PROVE  /\ PopTail[1] \in Elements(workQueue) /\ PopTail[1] \in Tasks
           /\ PopTail[2] \in Seq(Tasks)
           /\ Len(PopTail[2]) = Len(workQueue) - 1
           /\ Distinct(workQueue) =>
                 Distinct(PopTail[2]) /\ Elements(PopTail[2]) = Elements(workQueue) \ {PopTail[1]}
<1> DEFINE n == Len(workQueue)
<1>1. n \in 1 .. Len(workQueue) /\ n \in Nat OBVIOUS
<1>2. PopTail[1] = workQueue[n] /\ PopTail[2] = SubSeq(workQueue, 1, n - 1) BY DEF PopTail
<1>3. SubSeq(workQueue, n + 1, n) = <<>> BY <1>1
<1>4. SubSeq(workQueue, 1, n - 1) \in Seq(Tasks) BY <1>1
<1>5. SubSeq(workQueue, 1, n - 1) \o <<>> = SubSeq(workQueue, 1, n - 1) BY <1>4
<1>6. PopTail[2] = Without(workQueue, n) BY <1>2, <1>3, <1>5 DEF Without
<1>7. workQueue[n] \in Elements(workQueue) /\ workQueue[n] \in Tasks BY <1>1 DEF Elements
<1> HIDE DEF n
<1>8. /\ Without(workQueue, n) \in Seq(Tasks)
      /\ Len(Without(workQueue, n)) = Len(workQueue) - 1
      /\ Distinct(workQueue) => /\ Distinct(Without(workQueue, n))
                                /\ Elements(Without(workQueue, n)) = Elements(workQueue) \ {workQueue[n]}
  BY <1>1, WithoutSeq
<1> QED BY Zenon, <1>2, <1>6, <1>7, <1>8

-----------------------------------------------------------------------------
(***************************************************************************)
(* Type correctness.  Wrap keeps nextWorkId below UINT_MAX, so that its     *)
(* increment does not overflow and is an ID.                                *)
(***************************************************************************)
TypeInv == TypeOK /\ nextWorkId < MaxWorkId

LEMMA SmallMod == ASSUME NEW n \in Nat, NEW m \in Nat, n < m PROVE n % m = n
BY SMTT(30)

LEMMA NoOverflow == ASSUME TypeInv PROVE NextId = nextWorkId + 1 /\ NextId \in 1 .. MaxWorkId
<1>1. nextWorkId \in Nat /\ MaxWorkId \in Nat /\ nextWorkId < MaxWorkId
  BY ThreadPoolAssumption DEF TypeInv, TypeOK
<1>2. nextWorkId + 1 \in Nat /\ MaxWorkId + 1 \in Nat /\ nextWorkId + 1 < MaxWorkId + 1 BY <1>1
<1>3. NextId = nextWorkId + 1 BY Zenon, <1>2, SmallMod DEF NextId
<1> QED BY <1>1, <1>3

LEMMA InitTypeInv == Init => TypeInv
BY ThreadPoolAssumption DEF Init, TypeInv, TypeOK, ThreadStates, ShutdownPcs

LEMMA DestroyTyped ==
    ASSUME NEW t \in Tasks, TypeOK, DestroyTask(t)
    PROVE  dtors' \in [Tasks -> Nat] /\ live' \subseteq Tasks
BY SMTT(60) DEF TypeOK, DestroyTask

LEMMA RunTyped ==
    ASSUME NEW t \in Tasks, TypeOK, runs' = [runs EXCEPT ![t] = @ + 1]
    PROVE  runs' \in [Tasks -> Nat]
BY DEF TypeOK

LEMMA StepTypeInv == TypeInv /\ [Next]_vars => TypeInv'
<1> SUFFICES ASSUME TypeInv, [Next]_vars PROVE TypeInv'
  OBVIOUS
<1> USE DEF TypeInv, TypeOK, flags
<1>1. ASSUME NEW t \in Tasks, Submit(t) PROVE TypeInv'
  <2>1. NextId \in 0 .. MaxWorkId /\ Wrap \in 0 .. MaxWorkId /\ Wrap < MaxWorkId
    BY SMTT(30), ThreadPoolAssumption, NoOverflow DEF Wrap
  <2>2. <<t>> \o workQueue \in Seq(Tasks) BY EnqueueSeq
  <2>3. tokens' \in Nat /\ src' \subseteq Tasks /\ pushFailures' \in Nat
    <3>1. \A n \in Nat : n + 1 \in Nat OBVIOUS
    <3>2. PushToken(t) BY Zenon, <1>1 DEF Submit
    <3> QED BY ZenonT(60), <3>1, <3>2 DEF PushToken
  <2>4. /\ live' = live \cup {t} /\ nextWorkId' = Wrap /\ workQueue' = <<t>> \o workQueue
        /\ id' = [id EXCEPT ![t] = NextId]
        /\ runs' = [runs EXCEPT ![t] = 0] /\ dtors' = [dtors EXCEPT ![t] = 0]
        /\ UNCHANGED <<pool, cancels, active, popping, running, main, threads, thread, interrupted,
                       shutdown, todo>>
    BY ZenonT(60), <1>1 DEF Submit, Enqueue, threadVars
  <2>5. id' \in [Tasks -> 0 .. MaxWorkId] /\ runs' \in [Tasks -> Nat] /\ dtors' \in [Tasks -> Nat]
    <3>1. 0 \in Nat OBVIOUS
    <3> QED BY ZenonT(60), <2>1, <2>4, <3>1
  <2> QED BY ZenonT(60), <2>1, <2>2, <2>3, <2>4, <2>5
<1>2. ASSUME NEW n \in 1 .. MaxWorkId, Cancel(n) PROVE TypeInv'
  <2>1. PICK i \in 1 .. Len(workQueue) :
           workQueue' = Without(workQueue, i) /\ src' = src \ {workQueue[i]}
           /\ DestroyTask(workQueue[i])
    BY <1>2 DEF Cancel
  <2>2. workQueue' \in Seq(Tasks) /\ workQueue[i] \in Tasks BY <2>1, WithoutSeq
  <2>3. dtors' \in [Tasks -> Nat] /\ live' \subseteq Tasks /\ src' \subseteq Tasks
    BY Zenon, <2>1, <2>2, DestroyTyped
  <2>4. cancels' \in Nat BY <1>2 DEF Cancel
  <2>5. UNCHANGED <<pool, pushFailures, active, tokens, nextWorkId, id, runs, popping, running, main,
                    threadVars, shutdown, todo>>
    BY <1>2 DEF Cancel
  <2> QED BY Zenon, <2>2, <2>3, <2>4, <2>5 DEF threadVars
<1>3. ASSUME NEW d \in Dedicated, Start(d) \/ ThreadStep(d) PROVE TypeInv'
  BY Zenon, <1>3 DEF Start, ThreadStep, ThreadReturns, ThreadLeaves, poolVars, ThreadStates
<1>4. CASE TakeToken BY <1>4 DEF TakeToken, threadVars
<1>5. CASE RunWorker
  <2>1. PopTail[1] \in Tasks /\ workQueue' \in Seq(Tasks) BY <1>5, PopTailSeq DEF RunWorker
  <2>2. runs' \in [Tasks -> Nat] BY Zenon, <1>5, <2>1, RunTyped DEF RunWorker
  <2>3. running' \subseteq Tasks BY Zenon, <1>5, <2>1 DEF RunWorker
  <2>4. popping' \in Nat BY <1>5 DEF RunWorker
  <2>5. UNCHANGED <<flags, active, tokens, nextWorkId, id, src, live, dtors, main, threadVars, shutdown, todo>>
    BY <1>5 DEF RunWorker
  <2> QED BY Zenon, <2>1, <2>2, <2>3, <2>4, <2>5 DEF threadVars
<1>6. ASSUME NEW t \in Tasks, WorkerDone(t) PROVE TypeInv'
  <2>1. dtors' \in [Tasks -> Nat] /\ live' \subseteq Tasks
    BY ZenonT(60), <1>6, DestroyTyped DEF WorkerDone
  <2> QED BY ZenonT(60), <1>6, <2>1 DEF WorkerDone, threadVars
<1>7. CASE IdleDone
  <2>1. dtors' \in [Tasks -> Nat] /\ live' \subseteq Tasks
    BY ZenonT(60), <1>7, DestroyTyped DEF IdleDone
  <2> QED BY ZenonT(60), <1>7, <2>1 DEF IdleDone, threadVars
<1>8. ASSUME NEW t \in Tasks, IdleRun(t) PROVE TypeInv'
  <2>1. workQueue' \in Seq(Tasks) BY <1>8, WithoutSeq DEF IdleRun, TakenOut
  <2>2. runs' \in [Tasks -> Nat] BY ZenonT(60), <1>8, RunTyped DEF IdleRun
  <2>3. /\ main' = t
        /\ UNCHANGED <<flags, active, tokens, nextWorkId, id, src, live, dtors, popping, running,
                       threads, thread, interrupted, shutdown, todo>>
    BY ZenonT(60), <1>8 DEF IdleRun, threadVars
  <2> QED BY ZenonT(60), <2>1, <2>2, <2>3
<1>9. ASSUME NEW d \in Dedicated, JoinRemoved(d) PROVE TypeInv'
  BY <1>9 DEF JoinRemoved, poolVars, ThreadStates
<1>10. CASE ShutdownBegins BY Zenon, <1>10 DEF ShutdownBegins, threadVars, ShutdownPcs
<1>11. ASSUME NEW d \in Dedicated, Interrupt(d) \/ Join(d) PROVE TypeInv'
  BY Zenon, <1>11 DEF Interrupt, Join, poolVars, ThreadStates
<1>12. CASE InterruptsDone \/ JoinsDone \/ ShutdownEnds
  BY Zenon, <1>12 DEF InterruptsDone, JoinsDone, ShutdownEnds, poolVars, threadVars, ShutdownPcs
<1>13. CASE StopPool BY <1>13 DEF StopPool, threadVars, ShutdownPcs
<1>14. CASE Drain
  <2>1. PopTail[1] \in Tasks /\ workQueue' \in Seq(Tasks) BY <1>14, PopTailSeq DEF Drain
  <2>2. dtors' \in [Tasks -> Nat] /\ live' \subseteq Tasks BY Zenon, <1>14, <2>1, DestroyTyped
                                                              DEF Drain
  <2> QED BY Zenon, <1>14, <2>1, <2>2 DEF Drain, threadVars
<1>15. CASE UNCHANGED vars BY <1>15 DEF vars, poolVars, threadVars
<1> QED
  BY Zenon, <1>1, <1>2, <1>3, <1>4, <1>5, <1>6, <1>7, <1>8, <1>9, <1>10, <1>11, <1>12, <1>13,
     <1>14, <1>15
  DEF Next, PoolStep, IdleStep, ShutdownStep

(***************************************************************************)
(* Every value of the variables has its type in every reachable state.      *)
(***************************************************************************)
THEOREM TypeCorrect == Spec => []TypeOK
<1>1. TypeInv => TypeOK BY DEF TypeInv
<1> QED BY <1>1, InitTypeInv, StepTypeInv, PTL DEF Spec

LEMMA TypeInvariant == Spec => []TypeInv
BY InitTypeInv, StepTypeInv, PTL DEF Spec

LEMMA HistoryGrows ==
    TypeInv /\ [Next]_vars => /\ cancels > 0 => cancels' > 0
                              /\ pushFailures > 0 => pushFailures' > 0
<1> SUFFICES ASSUME TypeInv, [Next]_vars PROVE cancels' >= cancels /\ pushFailures' >= pushFailures
  <2>1. TypeInv /\ [Next]_vars => {cancels, pushFailures, cancels', pushFailures'} \subseteq Nat
    BY Zenon, StepTypeInv DEF TypeInv, TypeOK
  <2>2. \A m, n \in Nat : n >= m /\ m > 0 => n > 0 OBVIOUS
  <2> QED BY <2>1, <2>2
<1>1. ASSUME NEW t \in Tasks, Submit(t) PROVE cancels' = cancels /\ pushFailures' >= pushFailures
  BY <1>1 DEF Submit, PushToken, TypeInv, TypeOK
<1>2. ASSUME NEW n \in 1 .. MaxWorkId, Cancel(n) PROVE cancels' >= cancels /\ UNCHANGED pushFailures
  BY <1>2 DEF Cancel, TypeInv, TypeOK
<1>3. CASE \/ \E d \in Dedicated : Start(d) \/ ThreadStep(d) \/ JoinRemoved(d) \/ Interrupt(d) \/ Join(d)
           \/ \E t \in Tasks : WorkerDone(t) \/ IdleRun(t)
           \/ TakeToken \/ RunWorker \/ IdleDone \/ ShutdownBegins \/ InterruptsDone \/ StopPool
           \/ JoinsDone \/ Drain \/ ShutdownEnds \/ UNCHANGED vars
  <2>1. UNCHANGED flags
    BY <1>3, Zenon DEF Start, ThreadStep, ThreadReturns, ThreadLeaves, JoinRemoved, Interrupt,
                       Join,
       WorkerDone, IdleRun, TakeToken, RunWorker, IdleDone, ShutdownBegins, InterruptsDone, StopPool,
       JoinsDone, Drain, ShutdownEnds, vars, poolVars
  <2> QED BY <2>1 DEF flags, TypeInv, TypeOK
<1> QED
  BY <1>1, <1>2, <1>3 DEF Next, PoolStep, IdleStep, ShutdownStep, TypeInv, TypeOK
-----------------------------------------------------------------------------
(***************************************************************************)
(* Tokens and the queue.  Besides the tokens' count the invariant says      *)
(* where there are none: without a pool, and once it has been freed.        *)
(***************************************************************************)
TokenInv ==
    /\ tokens + popping <= Len(workQueue)
    /\ pool /\ active => tokens + popping = Len(workQueue)
    /\ ~pool \/ shutdown \in {"join", "drain", "down"} => tokens = 0 /\ popping = 0
    /\ active <=> shutdown = "up"

LEMMA InitTokenInv == Init => TokenInv
BY SMTT(60) DEF Init, TokenInv

LEMMA StepTokenInv == TypeInv /\ TokenInv /\ [Next]_vars => TokenInv' \/ cancels' > 0
<1> SUFFICES ASSUME TypeInv, TokenInv, [Next]_vars, ~(cancels' > 0) PROVE TokenInv'
  OBVIOUS
<1>0. /\ workQueue \in Seq(Tasks) /\ Len(workQueue) \in Nat
      /\ tokens \in Nat /\ popping \in Nat /\ active \in BOOLEAN /\ shutdown \in ShutdownPcs
  BY DEF TypeInv, TypeOK
<1> USE DEF TokenInv, flags
<1>1. ASSUME NEW t \in Tasks, Submit(t) PROVE TokenInv'
  <2>1. Len(workQueue') = Len(workQueue) + 1 BY <1>0, <1>1, EnqueueSeq DEF Submit, Enqueue
  <2>2. tokens' = IF pool THEN tokens + 1 ELSE tokens BY <1>1 DEF Submit, PushToken
  <2>3. shutdown = "up" /\ UNCHANGED <<pool, active, popping, shutdown>> BY <1>1 DEF Submit
  <2>4. CASE pool BY <1>0, <2>1, <2>2, <2>3, <2>4
  <2>5. CASE ~pool BY <1>0, <2>1, <2>2, <2>3, <2>5
  <2> QED BY <2>4, <2>5
<1>2. ASSUME NEW n \in 1 .. MaxWorkId, Cancel(n) PROVE TokenInv'
  BY <1>2 DEF Cancel, TypeInv, TypeOK
<1>3. ASSUME NEW d \in Dedicated, Start(d) \/ ThreadStep(d) \/ JoinRemoved(d) PROVE TokenInv'
  BY <1>3 DEF Start, ThreadStep, ThreadReturns, ThreadLeaves, JoinRemoved, poolVars
<1>4. CASE TakeToken BY <1>0, <1>4 DEF TakeToken
<1>5. CASE RunWorker
  <2>1. Len(workQueue') = Len(workQueue) - 1 BY <1>0, <1>5, PopTailSeq DEF RunWorker
  <2> QED BY <1>0, <1>5, <2>1 DEF RunWorker
<1>6. ASSUME NEW t \in Tasks, WorkerDone(t) PROVE TokenInv'
  BY <1>6 DEF WorkerDone
<1>7. CASE IdleDone BY <1>7 DEF IdleDone
<1>8. ASSUME NEW t \in Tasks, IdleRun(t) PROVE TokenInv'
  <2>1. CASE pool BY <1>8, <2>1 DEF IdleRun, TakenOut
  <2>2. CASE ~pool
    <3>1. Len(workQueue') \in Nat BY <1>0, <1>8, WithoutSeq DEF IdleRun, TakenOut
    <3> QED BY <1>0, <1>8, <2>2, <3>1 DEF IdleRun
  <2> QED BY <2>1, <2>2
<1>9. CASE ShutdownBegins BY <1>0, <1>9 DEF ShutdownBegins
<1>10. ASSUME NEW d \in Dedicated, Interrupt(d) \/ Join(d) PROVE TokenInv'
  BY <1>10 DEF Interrupt, Join, poolVars
<1>11. CASE InterruptsDone \/ JoinsDone \/ ShutdownEnds
  BY <1>0, <1>11 DEF InterruptsDone, JoinsDone, ShutdownEnds, poolVars
<1>12. CASE StopPool BY <1>0, <1>12 DEF StopPool, PoolQuiet
<1>13. CASE Drain
  <2>1. Len(workQueue') \in Nat BY <1>0, <1>13, PopTailSeq DEF Drain
  <2>2. tokens = 0 /\ popping = 0 BY ZenonT(60), <1>13 DEF Drain
  <2>3. UNCHANGED <<tokens, popping, pool, active, shutdown>> /\ shutdown = "drain"
    BY ZenonT(60), <1>13 DEF Drain
  <2>4. 0 + 0 <= Len(workQueue') BY <2>1
  <2> QED BY ZenonT(60), <2>2, <2>3, <2>4
<1>14. CASE UNCHANGED vars BY <1>14 DEF vars, poolVars
<1> QED
  BY <1>1, <1>2, <1>3, <1>4, <1>5, <1>6, <1>7, <1>8, <1>9, <1>10, <1>11, <1>12, <1>13, <1>14
  DEF Next, PoolStep, IdleStep, ShutdownStep

(***************************************************************************)
(* Until a task is cancelled, tokens and queued tasks match, so that        *)
(* ToolsCorePoolRunWorker always finds a task.                              *)
(***************************************************************************)
THEOREM TokensCorrect == Spec => [](TokensBacked /\ (cancels = 0 => PopFindsTask))
<1> DEFINE Inv == TokenInv \/ cancels > 0
<1>1. TypeInv /\ Inv => TokensBacked /\ (cancels = 0 => PopFindsTask)
  BY DEF TypeInv, TypeOK, TokenInv, TokensBacked, PopFindsTask
<1>2. TypeInv /\ Inv /\ [Next]_vars => Inv'
  <2>1. TypeInv /\ cancels > 0 /\ [Next]_vars => cancels' > 0 BY HistoryGrows
  <2>2. TypeInv /\ TokenInv /\ [Next]_vars => TokenInv' \/ cancels' > 0 BY StepTokenInv
  <2> QED BY <2>1, <2>2
<1> QED BY <1>1, <1>2, InitTokenInv, TypeInvariant, PTL DEF Spec

-----------------------------------------------------------------------------
(***************************************************************************)
(* Dedicated threads and the shutdown.                                      *)
(***************************************************************************)
Alive(d) == thread[d] \in {"running", "ending", "leaving"}

ThreadInv ==
    /\ active <=> shutdown = "up"
    /\ shutdown \notin {"drain", "down"} => \A d \in Dedicated : Alive(d) => d \in threads
    /\ shutdown = "interrupt" =>
          \A d \in Dedicated : thread[d] = "running" => d \in interrupted \cup todo
    /\ RunningInterrupted
    /\ shutdown = "join" => \A d \in Dedicated : Alive(d) => d \in todo
    /\ shutdown \in {"drain", "down"} => \A d \in Dedicated : ~Alive(d)

LEMMA InitThreadInv == Init => ThreadInv
BY SMTT(30) DEF Init, ThreadInv, RunningInterrupted, Alive

LEMMA StepThreadInv == TypeInv /\ ThreadInv /\ [Next]_vars => ThreadInv'
<1> SUFFICES ASSUME TypeInv, ThreadInv, [Next]_vars PROVE ThreadInv'
  OBVIOUS
<1>0. thread \in [Dedicated -> ThreadStates] /\ threads \subseteq Dedicated /\ shutdown \in ShutdownPcs
  BY DEF TypeInv, TypeOK
<1> USE DEF ThreadInv, RunningInterrupted, Alive
<1>1. CASE UNCHANGED <<active, shutdown, threads, thread, interrupted, todo>> BY <1>1
<1>2. ASSUME NEW d \in Dedicated, Start(d) PROVE ThreadInv'
  BY <1>0, <1>2 DEF Start, StartAllowed, poolVars
<1>3. ASSUME NEW d \in Dedicated, ThreadReturns(d) PROVE ThreadInv'
  BY <1>0, <1>3 DEF ThreadReturns, poolVars
<1>4. ASSUME NEW d \in Dedicated, ThreadLeaves(d) PROVE ThreadInv'
  BY <1>0, <1>4 DEF ThreadLeaves, LeavesArray, poolVars
<1>5. ASSUME NEW d \in Dedicated, JoinRemoved(d) PROVE ThreadInv'
  BY <1>0, <1>5 DEF JoinRemoved, MainLoop, poolVars
<1>6. CASE ShutdownBegins BY <1>0, <1>6 DEF ShutdownBegins, MainLoop, threadVars
<1>7. ASSUME NEW d \in Dedicated, Interrupt(d) PROVE ThreadInv'
  BY <1>0, <1>7 DEF Interrupt, MustInterrupt, poolVars
<1>8. CASE InterruptsDone BY <1>0, <1>8 DEF InterruptsDone, poolVars, threadVars
<1>9. CASE StopPool BY <1>0, <1>9 DEF StopPool, threadVars
<1>10. ASSUME NEW d \in Dedicated, Join(d) PROVE ThreadInv'
  BY <1>0, <1>10 DEF Join, poolVars
<1>11. CASE JoinsDone BY <1>0, <1>11 DEF JoinsDone, poolVars, threadVars
<1>12. CASE ShutdownEnds BY <1>0, <1>12 DEF ShutdownEnds, poolVars
<1>13. CASE \/ \E t \in Tasks : Submit(t) \/ WorkerDone(t) \/ IdleRun(t)
            \/ \E n \in 1 .. MaxWorkId : Cancel(n)
            \/ TakeToken \/ RunWorker \/ IdleDone \/ Drain
  <2>1. UNCHANGED <<active, shutdown, threads, thread, interrupted, todo>>
    BY <1>13 DEF Submit, WorkerDone, IdleRun, Cancel, TakeToken, RunWorker, IdleDone,
                        Drain, threadVars
  <2> QED BY ZenonT(60), <1>1, <2>1
<1>14. CASE UNCHANGED vars BY <1>1, <1>14 DEF vars, poolVars, threadVars
<1> QED
  BY Zenon, <1>2, <1>3, <1>4, <1>5, <1>6, <1>7, <1>8, <1>9, <1>10, <1>11, <1>12, <1>13, <1>14
  DEF Next, ThreadStep, PoolStep, IdleStep, ShutdownStep

LEMMA ThreadInvariant == Spec => []ThreadInv
BY InitThreadInv, StepThreadInv, TypeInvariant, PTL DEF Spec

(***************************************************************************)
(* However threads start and end around it, ToolsCorePool_Shutdown          *)
(* interrupts every thread whose callback still runs when it stops the pool.*)
(***************************************************************************)
THEOREM InterruptCorrect == Spec => []RunningInterrupted
<1>1. ThreadInv => RunningInterrupted BY DEF ThreadInv
<1> QED BY <1>1, ThreadInvariant, PTL

(***************************************************************************)
(* The array of threads, which the shutdown visits without the lock, does   *)
(* not change meanwhile.                                                    *)
(***************************************************************************)
THEOREM ArrayCorrect == Spec => ArrayStable
<1>1. ThreadInv /\ [Next]_vars => [(shutdown \in {"interrupt", "stop", "join"}) => threads' = threads]_vars
  <2> SUFFICES ASSUME ThreadInv, Next, shutdown \in {"interrupt", "stop", "join"} PROVE threads' = threads
    BY DEF vars
  <2>1. ~active BY DEF ThreadInv
  <2>2. ASSUME NEW d \in Dedicated, Start(d) \/ ThreadReturns(d) \/ ThreadLeaves(d) \/ JoinRemoved(d)
                                    \/ Interrupt(d) \/ Join(d)
        PROVE threads' = threads
    BY <2>1, <2>2, Zenon DEF Start, StartAllowed, ThreadReturns, ThreadLeaves, LeavesArray,
                             JoinRemoved,
                      Interrupt, Join
  <2>3. ASSUME NEW t \in Tasks, Submit(t) \/ WorkerDone(t) \/ IdleRun(t) PROVE threads' = threads
    BY <2>3, Zenon DEF Submit, WorkerDone, IdleRun, threadVars
  <2>4. ASSUME NEW n \in 1 .. MaxWorkId, Cancel(n) PROVE threads' = threads
    BY <2>4, Zenon DEF Cancel, threadVars
  <2>5. CASE TakeToken \/ RunWorker \/ IdleDone \/ Drain \/ ShutdownBegins \/ InterruptsDone \/ StopPool
             \/ JoinsDone
    BY <2>5, Zenon DEF TakeToken, RunWorker, IdleDone, Drain, ShutdownBegins, InterruptsDone,
                       StopPool,
                  JoinsDone, threadVars
  <2>6. ~ShutdownEnds BY DEF ShutdownEnds
  <2> QED BY <2>2, <2>3, <2>4, <2>5, <2>6 DEF Next, ThreadStep, PoolStep, IdleStep, ShutdownStep
<1> QED BY <1>1, ThreadInvariant, PTL DEF Spec, ArrayStable
-----------------------------------------------------------------------------
(***************************************************************************)
(* The life of a task.  An allocated task is in exactly one place: in the   *)
(* queue, with a pool thread or with the main loop.                         *)
(***************************************************************************)
OnePlace ==
    /\ Distinct(workQueue)
    /\ live = InQueue \cup running \cup ({main} \ {NoTask})
    /\ running \cap InQueue = {} /\ main \notin InQueue /\ main \notin running

OneRunner ==
    /\ pool => src = {} /\ main = NoTask
    /\ ~pool => running = {} /\ popping = 0
    /\ shutdown = "up" => src \subseteq InQueue \cup {main}
    /\ shutdown # "up" => main = NoTask
    /\ active <=> shutdown = "up"

RunCounts ==
    \A t \in Tasks :
        /\ runs[t] <= 1 /\ dtors[t] <= 1
        /\ t \in live => dtors[t] = 0
        /\ t \in InQueue => runs[t] = 0

ShutdownOrder ==
    /\ shutdown \in {"join", "drain", "down"} => popping = 0 /\ running = {}
    /\ shutdown = "down" => workQueue = <<>>

QueueInv == OnePlace /\ OneRunner /\ RunCounts /\ ShutdownOrder

LEMMA InitQueueInv == TypeInv /\ Init => QueueInv
<1> SUFFICES ASSUME TypeInv, Init PROVE QueueInv
  OBVIOUS
<1>1. workQueue = <<>> /\ Len(workQueue) = 0 BY DEF Init
<1>2. InQueue = {} /\ Distinct(workQueue) BY <1>1 DEF InQueue, Distinct
<1> QED
  BY <1>2 DEF Init, QueueInv, OnePlace, OneRunner, RunCounts, ShutdownOrder

(***************************************************************************)
(* A step that moves task t out of the queue, or one that destroys it, keeps*)
(* the counts.                                                              *)
(***************************************************************************)
LEMMA RunKeepsCounts ==
    ASSUME NEW t \in Tasks, TypeInv, RunCounts, t \in InQueue, t \notin InQueue',
           runs' = [runs EXCEPT ![t] = @ + 1], dtors' = dtors, live' = live, InQueue' \subseteq InQueue
    PROVE  RunCounts'
<1>1. runs[t] = 0 BY DEF RunCounts
<1>2. runs'[t] = 1 /\ \A u \in Tasks \ {t} : runs'[u] = runs[u] BY <1>1 DEF TypeInv, TypeOK
<1> QED BY <1>2 DEF RunCounts

LEMMA DestroyKeepsCounts ==
    ASSUME NEW t \in Tasks, TypeInv, RunCounts, t \in live, DestroyTask(t),
           runs' = runs, InQueue' \subseteq InQueue
    PROVE  RunCounts'
<1>1. dtors[t] = 0 BY DEF RunCounts
<1>2. dtors'[t] = 1 /\ (\A u \in Tasks \ {t} : dtors'[u] = dtors[u]) /\ live' = live \ {t}
  BY <1>1 DEF TypeInv, TypeOK, DestroyTask
<1> QED BY <1>2 DEF RunCounts

LEMMA StepQueueInv == TypeInv /\ QueueInv /\ [Next]_vars => QueueInv' \/ pushFailures' > 0
<1> SUFFICES ASSUME TypeInv, QueueInv, [Next]_vars, ~(pushFailures' > 0) PROVE QueueInv'
  OBVIOUS
<1>0. /\ workQueue \in Seq(Tasks) /\ popping \in Nat /\ live \subseteq Tasks /\ src \subseteq Tasks
      /\ running \subseteq Tasks /\ main \in Tasks \cup {NoTask} /\ shutdown \in ShutdownPcs
      /\ active \in BOOLEAN
  BY DEF TypeInv, TypeOK
<1>a. Elements(workQueue) = InQueue /\ Elements(workQueue') = InQueue' /\ InQueue \subseteq Tasks
  BY <1>0 DEF Elements, InQueue
<1>b. OnePlace /\ OneRunner /\ RunCounts /\ ShutdownOrder BY DEF QueueInv
<1>c. NoTask \notin Tasks BY ThreadPoolAssumption
<1> USE DEF flags
<1> DEFINE tvars == <<pool, workQueue, src, live, runs, dtors, popping, running, main>>
<1>1. ASSUME NEW t \in Tasks, Submit(t) PROVE QueueInv'
  <2>1. t \notin live /\ live' = live \cup {t} /\ shutdown = "up"
        /\ UNCHANGED <<pool, active, popping, running, main, shutdown>>
    BY <1>1 DEF Submit
  <2>2. t \notin InQueue BY <1>b, <2>1 DEF OnePlace
  <2>3. InQueue' = InQueue \cup {t} /\ Distinct(workQueue')
    BY <1>0, <1>1, <1>a, <1>b, <2>2, EnqueueSeq DEF Submit, Enqueue, OnePlace
  <2>4. OnePlace' BY <1>0, <1>b, <1>c, <2>1, <2>2, <2>3 DEF OnePlace
  <2>5. src' = (IF pool THEN src ELSE src \cup {t}) /\ pool' = pool
    <3>1. pushFailures' # pushFailures + 1 BY DEF TypeInv, TypeOK
    <3> QED BY <1>1, <3>1 DEF Submit, PushToken
  <2>6. OneRunner' BY <1>b, <1>c, <2>1, <2>3, <2>5 DEF OneRunner
  <2>7. /\ runs'[t] = 0 /\ dtors'[t] = 0
        /\ \A u \in Tasks \ {t} : runs'[u] = runs[u] /\ dtors'[u] = dtors[u]
    BY <1>1 DEF Submit, TypeInv, TypeOK
  <2>8. RunCounts' BY <1>b, <2>1, <2>3, <2>7 DEF RunCounts
  <2>9. ShutdownOrder' BY <2>1 DEF ShutdownOrder
  <2> QED BY <2>4, <2>6, <2>8, <2>9 DEF QueueInv
<1>2. ASSUME NEW n \in 1 .. MaxWorkId, Cancel(n) PROVE QueueInv'
  <2>1. PICK i \in 1 .. Len(workQueue) :
           workQueue' = Without(workQueue, i) /\ src' = src \ {workQueue[i]}
           /\ DestroyTask(workQueue[i])
    BY <1>2 DEF Cancel
  <2> DEFINE t == workQueue[i]
  <2>2. t \in Tasks /\ t \in InQueue BY <1>0, <2>1 DEF InQueue
  <2>3. InQueue' = InQueue \ {t} /\ Distinct(workQueue')
    BY Zenon, <1>0, <1>a, <1>b, <2>1, WithoutSeq DEF OnePlace
  <2>4. src' = src \ {t} /\ DestroyTask(t) /\ live' = live \ {t} BY <2>1 DEF DestroyTask
  <2> HIDE DEF t
  <2>5. MainLoop /\ UNCHANGED <<pool, active, runs, popping, running, main, shutdown>> BY <1>2
                                                                                          DEF
                                                                                              Cancel
  <2>6. OnePlace' BY <1>b, <2>2, <2>3, <2>4, <2>5 DEF OnePlace
  <2>7. OneRunner' BY <1>b, <1>c, <2>3, <2>4, <2>5 DEF OneRunner
  <2>8. t \in live BY <1>b, <2>2 DEF OnePlace
  <2>9. RunCounts' BY <1>b, <2>2, <2>3, <2>4, <2>5, <2>8, DestroyKeepsCounts
  <2>10. ShutdownOrder' BY ZenonT(60), <2>5 DEF ShutdownOrder, MainLoop
  <2> QED BY <2>6, <2>7, <2>9, <2>10 DEF QueueInv
<1>3. ASSUME UNCHANGED tvars, UNCHANGED <<active, shutdown>> PROVE QueueInv'
  <2>1. InQueue' = InQueue BY ZenonT(60), <1>3 DEF InQueue
  <2>2. OnePlace' /\ RunCounts' BY ZenonT(60), <1>3, <1>b, <2>1 DEF OnePlace, RunCounts
  <2>3. OneRunner' /\ ShutdownOrder' BY ZenonT(60), <1>3, <1>b, <2>1 DEF OneRunner, ShutdownOrder
  <2> QED BY <2>2, <2>3 DEF QueueInv
<1>4. CASE RunWorker
  <2> DEFINE t == PopTail[1]
  <2>1. /\ t \in Tasks /\ t \in InQueue
        /\ InQueue' = InQueue \ {t} /\ Distinct(workQueue')
    BY ZenonT(60), <1>0, <1>4, <1>a, <1>b, PopTailSeq DEF RunWorker, OnePlace
  <2>2. /\ running' = running \cup {t} /\ runs' = [runs EXCEPT ![t] = @ + 1]
        /\ popping' = popping - 1 /\ popping > 0
        /\ UNCHANGED <<pool, active, src, live, dtors, main, shutdown>>
    BY <1>4 DEF RunWorker
  <2> HIDE DEF t
  <2>3. OnePlace' BY <1>b, <2>1, <2>2 DEF OnePlace
  <2>4. pool BY <1>0, <1>b, <2>2 DEF OneRunner
  <2>5. OneRunner' BY <1>b, <1>c, <2>2, <2>4 DEF OneRunner
  <2>6. RunCounts' BY Zenon, <1>b, <2>1, <2>2, RunKeepsCounts
  <2>7. ShutdownOrder' BY SMTT(60), <1>0, <1>b, <2>2 DEF ShutdownOrder
  <2> QED BY ZenonT(60), <2>3, <2>5, <2>6, <2>7 DEF QueueInv
<1>5. ASSUME NEW t \in Tasks, WorkerDone(t) PROVE QueueInv'
  <2>1. /\ t \in running /\ running' = running \ {t} /\ DestroyTask(t) /\ live' = live \ {t}
        /\ UNCHANGED <<pool, active, workQueue, src, runs, popping, main, shutdown>>
    BY <1>5 DEF WorkerDone, DestroyTask
  <2>2. InQueue' = InQueue BY <2>1 DEF InQueue
  <2>3. OnePlace' BY <1>b, <2>1, <2>2 DEF OnePlace
  <2>4. OneRunner' BY <1>b, <1>c, <2>1, <2>2 DEF OneRunner
  <2>5. t \in live BY <1>b, <2>1 DEF OnePlace
  <2>6. RunCounts' BY <1>b, <2>1, <2>2, <2>5, DestroyKeepsCounts
  <2>7. ShutdownOrder' BY <1>b, <2>1 DEF ShutdownOrder
  <2> QED BY <2>3, <2>4, <2>6, <2>7 DEF QueueInv
<1>6. CASE IdleDone
  <2>1. /\ main \in Tasks /\ main' = NoTask /\ src' = src \ {main} /\ DestroyTask(main)
        /\ live' = live \ {main} /\ UNCHANGED <<pool, active, workQueue, runs, popping, running, shutdown>>
    BY <1>0, <1>6 DEF IdleDone, DestroyTask
  <2>2. InQueue' = InQueue BY <2>1 DEF InQueue
  <2>3. OnePlace' BY <1>0, <1>a, <1>b, <1>c, <2>1, <2>2 DEF OnePlace
  <2>4. OneRunner' BY <1>b, <1>c, <2>1, <2>2 DEF OneRunner
  <2>5. main \in live BY <1>b, <1>c, <2>1 DEF OnePlace
  <2>6. RunCounts' BY <1>b, <2>1, <2>2, <2>5, DestroyKeepsCounts
  <2>7. ShutdownOrder' BY <1>b, <2>1 DEF ShutdownOrder
  <2> QED BY <2>3, <2>4, <2>6, <2>7 DEF QueueInv
<1>7. ASSUME NEW t \in Tasks, IdleRun(t) PROVE QueueInv'
  <2>1. /\ MainLoop /\ t \in src /\ main' = t /\ runs' = [runs EXCEPT ![t] = @ + 1]
        /\ TakenOut(t) /\ UNCHANGED <<pool, active, src, live, dtors, popping, running, shutdown>>
    BY <1>7 DEF IdleRun
  <2>2. t \in InQueue /\ ~pool BY <1>b, <1>c, <2>1 DEF OneRunner, MainLoop
  <2>3. PICK i \in 1 .. Len(workQueue) : workQueue[i] = t /\ workQueue' = Without(workQueue, i)
    BY <2>1, <2>2 DEF TakenOut, InQueue
  <2>4. InQueue' = InQueue \ {t} /\ Distinct(workQueue')
    BY Zenon, <1>0, <1>a, <1>b, <2>3, WithoutSeq DEF OnePlace
  <2>5. main = NoTask BY <2>1 DEF MainLoop
  <2>6. OnePlace' BY Zenon, <1>0, <1>b, <1>c, <2>1, <2>2, <2>4, <2>5 DEF OnePlace
  <2>7. shutdown = "up" /\ src' \subseteq InQueue' \cup {main'}
    BY Zenon, <1>0, <1>b, <1>c, <2>1, <2>4, <2>5 DEF OneRunner, MainLoop
  <2>8. OneRunner' BY <1>b, <1>c, <2>1, <2>2, <2>7 DEF OneRunner
  <2>9. RunCounts' BY ZenonT(60), <1>b, <2>1, <2>2, <2>4, RunKeepsCounts
  <2>10. ShutdownOrder' BY <2>1 DEF ShutdownOrder, MainLoop
  <2> QED BY <2>6, <2>8, <2>9, <2>10 DEF QueueInv
<1>8. CASE Drain
  <2> DEFINE t == PopTail[1]
  <2>1. /\ t \in Tasks /\ t \in InQueue
        /\ InQueue' = InQueue \ {t} /\ Distinct(workQueue')
    BY ZenonT(60), <1>0, <1>8, <1>a, <1>b, PopTailSeq DEF Drain, OnePlace
  <2>2. /\ shutdown = "drain" /\ DestroyTask(t) /\ live' = live \ {t}
        /\ UNCHANGED <<pool, active, src, runs, popping, running, main, shutdown>>
    BY Zenon, <1>8 DEF Drain, DestroyTask
  <2> HIDE DEF t
  <2>3. OnePlace' BY Zenon, <1>b, <2>1, <2>2 DEF OnePlace
  <2>4. OneRunner' BY Zenon, <1>b, <1>c, <2>2 DEF OneRunner
  <2>5. t \in live BY Zenon, <1>b, <2>1 DEF OnePlace
  <2>6. RunCounts' BY Zenon, <1>b, <2>1, <2>2, <2>5, DestroyKeepsCounts
  <2>7. ShutdownOrder' BY ZenonT(60), <1>b, <2>2 DEF ShutdownOrder
  <2> QED BY <2>3, <2>4, <2>6, <2>7 DEF QueueInv
<1>9. CASE TakeToken
  <2>1. pool /\ shutdown \in {"up", "interrupt"}
        /\ UNCHANGED <<pool, active, workQueue, src, live, runs, dtors, running, main, shutdown>>
    BY <1>9 DEF TakeToken
  <2> QED BY <1>b, <1>c, <2>1 DEF QueueInv, OnePlace, OneRunner, RunCounts, ShutdownOrder, InQueue
<1>10. CASE ShutdownBegins \/ InterruptsDone \/ StopPool \/ JoinsDone \/ ShutdownEnds
  <2>1. UNCHANGED tvars
    BY <1>10, Zenon DEF ShutdownBegins, InterruptsDone, StopPool, JoinsDone, ShutdownEnds,
                        poolVars
  <2>2. InQueue' = InQueue BY ZenonT(60), <2>1 DEF InQueue
  <2>3. OnePlace' /\ RunCounts' BY ZenonT(60), <1>b, <2>1, <2>2 DEF OnePlace, RunCounts
  <2>4. OneRunner'
    <3>1. shutdown' # "up" /\ main = NoTask /\ ~active'
      BY <1>10, <1>b
      DEF OneRunner, MainLoop, ShutdownBegins, InterruptsDone, StopPool, JoinsDone, ShutdownEnds, poolVars
    <3> QED BY ZenonT(60), <1>b, <2>1, <3>1 DEF OneRunner
  <2>5. ShutdownOrder'
    BY <1>0, <1>10, <1>b, <2>1
    DEF ShutdownOrder, ShutdownBegins, InterruptsDone, StopPool, PoolQuiet, JoinsDone, ShutdownEnds, Drained
  <2> QED BY <2>3, <2>4, <2>5 DEF QueueInv
<1>11. CASE \/ \E d \in Dedicated : Start(d) \/ ThreadStep(d) \/ JoinRemoved(d) \/ Interrupt(d) \/ Join(d)
            \/ UNCHANGED vars
  <2>1. UNCHANGED tvars /\ UNCHANGED <<pool, active, shutdown>>
    BY <1>11, Zenon DEF Start, ThreadStep, ThreadReturns, ThreadLeaves, JoinRemoved, Interrupt,
                        Join, vars,
                   poolVars
  <2> QED BY <1>3, <2>1
<1> QED
  BY <1>1, <1>2, <1>4, <1>5, <1>6, <1>7, <1>8, <1>9, <1>10, <1>11
  DEF Next, PoolStep, IdleStep, ShutdownStep

LEMMA QueueInvariant == Spec => [](QueueInv \/ pushFailures > 0)
<1> DEFINE Inv == QueueInv \/ pushFailures > 0
<1>1. TypeInv /\ Inv /\ [Next]_vars => Inv'
  <2>1. TypeInv /\ pushFailures > 0 /\ [Next]_vars => pushFailures' > 0 BY HistoryGrows
  <2>2. TypeInv /\ QueueInv /\ [Next]_vars => QueueInv' \/ pushFailures' > 0 BY StepQueueInv
  <2> QED BY <2>1, <2>2
<1>2. TypeInv /\ Init => Inv BY InitQueueInv
<1> QED BY <1>1, <1>2, TypeInvariant, PTL DEF Spec

(***************************************************************************)
(* Until GThreadPool fails to create a thread, every task runs at most once *)
(* and is destroyed at most once, whatever is cancelled meanwhile, and the  *)
(* queue holds only tasks that still wait.                                  *)
(***************************************************************************)
THEOREM TasksCorrect == Spec => [](RunOnce /\ QueueHoldsWaiting)
<1>1. TypeInv /\ (QueueInv \/ pushFailures > 0) => RunOnce /\ QueueHoldsWaiting
  <2> SUFFICES ASSUME TypeInv, QueueInv \/ pushFailures > 0, pushFailures = 0
               PROVE  RunOnce /\ QueueHoldsWaiting
    BY DEF RunOnce, QueueHoldsWaiting
  <2>1. OnePlace /\ RunCounts BY DEF QueueInv
  <2>2. RunOnce BY <2>1, ThreadPoolAssumption DEF OnePlace, RunCounts, RunOnce
  <2>3. QueueHoldsWaiting BY ZenonT(60), <2>1 DEF OnePlace, QueueHoldsWaiting
  <2> QED BY Zenon, <2>2, <2>3
<1> QED BY <1>1, QueueInvariant, TypeInvariant, PTL

-----------------------------------------------------------------------------
(***************************************************************************)
(* The end of the shutdown, whatever has failed.                            *)
(***************************************************************************)
PoolStopped == shutdown \in {"join", "drain", "down"} => popping = 0 /\ running = {}

LEMMA StepPoolStopped == TypeInv /\ PoolStopped /\ [Next]_vars => PoolStopped'
<1> SUFFICES ASSUME TypeInv, PoolStopped, [Next]_vars PROVE PoolStopped'
  OBVIOUS
<1>0. popping \in Nat BY ZenonT(60) DEF TypeInv, TypeOK
<1> USE DEF PoolStopped
<1>1. ASSUME NEW t \in Tasks, Submit(t) \/ WorkerDone(t) \/ IdleRun(t) PROVE PoolStopped'
  BY <1>1 DEF Submit, WorkerDone, IdleRun
<1>2. ASSUME NEW n \in 1 .. MaxWorkId, Cancel(n) PROVE PoolStopped' BY Zenon, <1>2 DEF Cancel
<1>3. ASSUME NEW d \in Dedicated, Start(d) \/ ThreadStep(d) \/ JoinRemoved(d) \/ Interrupt(d) \/ Join(d)
      PROVE PoolStopped'
  BY <1>3 DEF Start, ThreadStep, ThreadReturns, ThreadLeaves, JoinRemoved, Interrupt, Join,
              poolVars
<1>4. CASE TakeToken \/ RunWorker
  <2>1. CASE TakeToken BY <2>1 DEF TakeToken
  <2>2. CASE RunWorker BY SMTT(30), <1>0, <2>2 DEF RunWorker
  <2> QED BY <1>4, <2>1, <2>2
<1>5. CASE IdleDone \/ Drain BY ZenonT(60), <1>5 DEF IdleDone, Drain
<1>6. CASE ShutdownBegins \/ InterruptsDone \/ StopPool \/ JoinsDone \/ ShutdownEnds
  BY <1>6 DEF ShutdownBegins, InterruptsDone, StopPool, PoolQuiet, JoinsDone, ShutdownEnds,
              poolVars
<1>7. CASE UNCHANGED vars BY <1>7 DEF vars, poolVars
<1> QED
  BY <1>1, <1>2, <1>3, <1>4, <1>5, <1>6, <1>7 DEF Next, PoolStep, IdleStep, ShutdownStep

(***************************************************************************)
(* Nothing runs after ToolsCorePool_Shutdown, and unless GThreadPool has    *)
(* failed every task has been destroyed.                                    *)
(***************************************************************************)
THEOREM ShutdownCorrect == Spec => []ShutdownComplete
<1>1. TypeInv /\ PoolStopped /\ ThreadInv /\ (QueueInv \/ pushFailures > 0) => ShutdownComplete
  <2> SUFFICES ASSUME TypeInv, PoolStopped, ThreadInv, QueueInv \/ pushFailures > 0, shutdown = "down"
               PROVE  ShutdownComplete
    BY DEF ShutdownComplete
  <2>1. ASSUME pushFailures = 0 PROVE live = {}
    <3>1. workQueue = <<>> /\ running = {} /\ main = NoTask
      BY <2>1 DEF QueueInv, ShutdownOrder, OneRunner
    <3>2. InQueue = {} BY <3>1 DEF InQueue
    <3> QED BY <2>1, <3>1, <3>2 DEF QueueInv, OnePlace
  <2> QED BY <2>1 DEF PoolStopped, ThreadInv, Alive, ShutdownComplete
<1>2. Init => PoolStopped BY DEF Init, PoolStopped
<1> QED BY <1>1, <1>2, StepPoolStopped, QueueInvariant, ThreadInvariant, TypeInvariant, PTL
           DEF Spec

-----------------------------------------------------------------------------
(***************************************************************************)
(* The IDs.                                                                 *)
(***************************************************************************)
LEMMA StepIds == TypeInv /\ IdNeverZero /\ [Next]_vars => IdNeverZero'
<1> SUFFICES ASSUME TypeInv, IdNeverZero, [Next]_vars PROVE IdNeverZero'
  OBVIOUS
<1>0. id \in [Tasks -> 0 .. MaxWorkId] /\ nextWorkId \in Nat BY DEF TypeInv, TypeOK
<1>1. ASSUME NEW t \in Tasks, Submit(t) PROVE IdNeverZero'
  <2>1. id' = [id EXCEPT ![t] = nextWorkId + 1] /\ live' = live \cup {t}
    BY <1>1, NoOverflow, Zenon DEF Submit
  <2> QED BY <1>0, <2>1 DEF IdNeverZero
<1>2. ASSUME id' = id, live' \subseteq live PROVE IdNeverZero' BY <1>2 DEF IdNeverZero
<1>3. ASSUME NEW n \in 1 .. MaxWorkId, Cancel(n) PROVE IdNeverZero'
  BY <1>2, <1>3 DEF Cancel, DestroyTask
<1>4. ASSUME NEW t \in Tasks, WorkerDone(t) \/ IdleRun(t) PROVE IdNeverZero'
  BY ZenonT(60), <1>2, <1>4 DEF WorkerDone, IdleRun, DestroyTask
<1>5. ASSUME NEW d \in Dedicated, Start(d) \/ ThreadStep(d) \/ JoinRemoved(d) \/ Interrupt(d) \/ Join(d)
      PROVE  IdNeverZero'
  BY SMTT(30), <1>2, <1>5 DEF Start, ThreadStep, ThreadReturns, ThreadLeaves, JoinRemoved,
                              Interrupt, Join, poolVars
<1>6. CASE TakeToken \/ RunWorker \/ IdleDone
  BY Zenon, <1>2, <1>6 DEF TakeToken, RunWorker, IdleDone, DestroyTask
<1>7. CASE ShutdownBegins \/ InterruptsDone \/ StopPool \/ JoinsDone \/ ShutdownEnds \/ Drain
  BY Zenon, <1>2, <1>7
  DEF ShutdownBegins, InterruptsDone, StopPool, JoinsDone, ShutdownEnds, Drain, DestroyTask, poolVars
<1>8. CASE UNCHANGED vars BY <1>2, <1>8 DEF vars, poolVars
<1> QED
  BY <1>1, <1>3, <1>4, <1>5, <1>6, <1>7, <1>8 DEF Next, PoolStep, IdleStep, ShutdownStep

(***************************************************************************)
(* The ID of an accepted task is not 0, however often the counter wraps:    *)
(* below UINT_MAX (TypeInv) the unsigned increment does not overflow.       *)
(***************************************************************************)
THEOREM IdsCorrect == Spec => []IdNeverZero
<1>1. Init => IdNeverZero BY DEF Init, IdNeverZero
<1> QED BY <1>1, StepIds, TypeInvariant, PTL DEF Spec
=============================================================================
