----------------------------- MODULE ThreadPool -----------------------------
(***************************************************************************)
(* The shared thread pool of vmtoolsd (threadPool.c): a queue of tasks, a   *)
(* GThreadPool whose threads each take one task per token, the fallback to  *)
(* the main loop, dedicated threads, and the shutdown.  Code under          *)
(* gState.lock is one step.  Submit and Cancel are called on the main loop. *)
(***************************************************************************)
EXTENDS Integers, Sequences, FiniteSets

CONSTANTS
    Tasks,        \* memory of WorkerTasks: a freed one may be allocated again
    NoTask,       \* no WorkerTask (NULL)
    Dedicated,    \* StandaloneTasks, which have an interrupt function
    MaxThreads,   \* pool.maxThreads
    MaxWorkId,    \* UINT_MAX
    MaxTokens,    \* bound on the tokens in the GThreadPool's queue
    MaxFaults     \* bound on cancellations and failures together

ASSUME ThreadPoolAssumption ==
    /\ NoTask \notin Tasks
    /\ MaxThreads \in Nat
    /\ MaxWorkId \in Nat \ {0}
    /\ MaxTokens \in Nat /\ MaxFaults \in Nat

VARIABLES
    pool,          \* gState.pool # NULL: threading is configured and was set up
    cancels,       \* how many tasks have been cancelled (history)
    pushFailures,  \* how often GThreadPool failed to create a thread (history)
    active,        \* gState.active
    workQueue,     \* gState.workQueue, its head first
    tokens,        \* entries in the GThreadPool's own queue
    nextWorkId,
    id,            \* per task: the ID it was given
    src,           \* tasks with an idle source (task->srcId)
    live,          \* allocated tasks
    runs, dtors,   \* per task: how often it was run, and its destructor called
    popping,       \* number of pool threads that took a token and have not popped yet
    running,       \* tasks being run by pool threads
    main,          \* task being run by the main loop, or NoTask
    threads,       \* gState.threads
    thread,        \* per dedicated thread: its state
    interrupted,   \* dedicated threads whose interrupt function was called
    shutdown,      \* place of ToolsCorePool_Shutdown
    todo           \* threads its loop has yet to visit

flags == <<pool, cancels, pushFailures>>
poolVars == <<flags, active, workQueue, tokens, nextWorkId, id, src, live, runs, dtors, popping,
              running, main>>
threadVars == <<threads, thread, interrupted>>
vars == <<poolVars, threadVars, shutdown, todo>>

ThreadStates == {"none", "running", "ending", "leaving", "removed", "joined"}
ShutdownPcs == {"up", "interrupt", "stop", "join", "drain", "down"}

(***************************************************************************)
(* Type correctness.                                                        *)
(***************************************************************************)
TypeOK ==
    /\ pool \in BOOLEAN /\ cancels \in Nat /\ pushFailures \in Nat
    /\ active \in BOOLEAN
    /\ workQueue \in Seq(Tasks)
    /\ tokens \in Nat /\ popping \in Nat
    /\ nextWorkId \in 0 .. MaxWorkId
    /\ id \in [Tasks -> 0 .. MaxWorkId]
    /\ src \subseteq Tasks /\ live \subseteq Tasks /\ running \subseteq Tasks
    /\ runs \in [Tasks -> Nat] /\ dtors \in [Tasks -> Nat]
    /\ main \in Tasks \cup {NoTask}
    /\ threads \subseteq Dedicated /\ interrupted \subseteq Dedicated /\ todo \subseteq Dedicated
    /\ thread \in [Dedicated -> ThreadStates]
    /\ shutdown \in ShutdownPcs

Init ==
    /\ pool \in BOOLEAN /\ cancels = 0 /\ pushFailures = 0
    /\ active = TRUE
    /\ workQueue = <<>> /\ tokens = 0 /\ nextWorkId = 0
    /\ id = [t \in Tasks |-> 0]
    /\ src = {} /\ live = {}
    /\ runs = [t \in Tasks |-> 0] /\ dtors = [t \in Tasks |-> 0]
    /\ popping = 0 /\ running = {} /\ main = NoTask
    /\ threads = {} /\ thread = [d \in Dedicated |-> "none"] /\ interrupted = {}
    /\ shutdown = "up" /\ todo = {}

MainLoop == shutdown = "up" /\ main = NoTask
Fault == cancels + pushFailures < MaxFaults

(***************************************************************************)
(* ToolsCorePoolDestroyTask: the destructor runs and the memory is freed.   *)
(***************************************************************************)
DestroyTask(t) ==
    /\ dtors' = [dtors EXCEPT ![t] = @ + 1]
    /\ live' = live \ {t}

-----------------------------------------------------------------------------
\* An unsigned int, whose increment is modulo UINT_MAX + 1.
NextId == (nextWorkId + 1) % (MaxWorkId + 1)

\* Mutant of Wrap: the test on UINT_MAX is missing, the counter goes on.
WrapNever == NextId

\* After the ID UINT_MAX the counter starts again at 0, without 0 being given.
Wrap == IF NextId = MaxWorkId THEN 0 ELSE NextId

EnqueueWithoutPool(t) == IF pool THEN workQueue ELSE <<t>> \o workQueue
Enqueue(t) == <<t>> \o workQueue

PushTokenOnly(t) == t \notin live /\ tokens' = tokens + 1 /\ UNCHANGED <<src, pushFailures>>

(***************************************************************************)
(* ToolsCorePoolSubmit.  When GThreadPool cannot create a thread it reports *)
(* an error and keeps the token all the same; the task then also gets an    *)
(* idle source, as it does without a pool.                                  *)
(***************************************************************************)
PushToken(t) ==
    IF ~pool
    THEN src' = src \cup {t} /\ UNCHANGED <<tokens, pushFailures>>
    ELSE /\ tokens' = tokens + 1
         /\ \/ UNCHANGED <<src, pushFailures>>
            \/ Fault /\ src' = src \cup {t} /\ pushFailures' = pushFailures + 1

Submit(t) ==
    /\ shutdown = "up" /\ active
    /\ t \notin live /\ tokens < MaxTokens
    /\ live' = live \cup {t}
    /\ id' = [id EXCEPT ![t] = NextId]
    /\ nextWorkId' = Wrap
    /\ runs' = [runs EXCEPT ![t] = 0] /\ dtors' = [dtors EXCEPT ![t] = 0]
    /\ workQueue' = Enqueue(t)
    /\ PushToken(t)
    /\ UNCHANGED <<pool, cancels, active, popping, running, main, threadVars, shutdown, todo>>

(***************************************************************************)
(* ToolsCorePoolCancel of the first task in the queue with this ID; removing*)
(* an idle source destroys its task too.                                    *)
(***************************************************************************)
FirstWith(n, i) ==
    /\ i \in 1 .. Len(workQueue) /\ id[workQueue[i]] = n
    /\ \A j \in 1 .. i - 1 : id[workQueue[j]] # n

Without(s, i) == SubSeq(s, 1, i - 1) \o SubSeq(s, i + 1, Len(s))

Cancel(n) ==
    /\ MainLoop /\ active
    /\ \E i \in 1 .. Len(workQueue) :
          /\ FirstWith(n, i)
          /\ workQueue' = Without(workQueue, i)
          /\ src' = src \ {workQueue[i]}
          /\ DestroyTask(workQueue[i])
    /\ Fault /\ cancels' = cancels + 1
    /\ UNCHANGED <<pool, pushFailures, active, tokens, nextWorkId, id, runs, popping, running, main,
                   threadVars, shutdown, todo>>

(***************************************************************************)
(* A pool thread takes a token (GThreadPool does not start more threads     *)
(* than its maximum, and none once it is being freed), pops the task at the *)
(* tail (ToolsCorePoolRunWorker), runs it and destroys it.                  *)
(***************************************************************************)
TakeToken ==
    /\ pool /\ tokens > 0 /\ shutdown \in {"up", "interrupt"}
    /\ popping + Cardinality(running) < MaxThreads
    /\ tokens' = tokens - 1
    /\ popping' = popping + 1
    /\ UNCHANGED <<flags, active, workQueue, nextWorkId, id, src, live, runs, dtors, running, main,
                   threadVars, shutdown, todo>>

PopTail == <<workQueue[Len(workQueue)], SubSeq(workQueue, 1, Len(workQueue) - 1)>>

RunWorker ==
    /\ popping > 0 /\ workQueue # <<>>
    /\ LET t == PopTail[1] IN
          /\ workQueue' = PopTail[2]
          /\ running' = running \cup {t}
          /\ runs' = [runs EXCEPT ![t] = @ + 1]
    /\ popping' = popping - 1
    /\ UNCHANGED <<flags, active, tokens, nextWorkId, id, src, live, dtors, main, threadVars, shutdown,
                   todo>>

WorkerDone(t) ==
    /\ t \in running
    /\ running' = running \ {t}
    /\ DestroyTask(t)
    /\ UNCHANGED <<flags, active, workQueue, tokens, nextWorkId, id, src, runs, popping, main,
                   threadVars, shutdown, todo>>

TakenOutNever(t) == t \in Tasks /\ UNCHANGED workQueue

(***************************************************************************)
(* ToolsCorePoolDoWork as an idle callback of the main loop.  It takes the  *)
(* task out of the queue only if there is no pool.                          *)
(***************************************************************************)
TakenOut(t) ==
    IF pool \/ \A i \in 1 .. Len(workQueue) : workQueue[i] # t
    THEN UNCHANGED workQueue
    ELSE \E i \in 1 .. Len(workQueue) :
            /\ workQueue[i] = t /\ \A j \in 1 .. i - 1 : workQueue[j] # t
            /\ workQueue' = Without(workQueue, i)

IdleRun(t) ==
    /\ MainLoop /\ t \in src
    /\ main' = t
    /\ TakenOut(t)
    /\ runs' = [runs EXCEPT ![t] = @ + 1]
    /\ UNCHANGED <<flags, active, tokens, nextWorkId, id, src, live, dtors, popping, running,
                   threadVars, shutdown, todo>>

IdleDone ==
    /\ main # NoTask
    /\ main' = NoTask
    /\ src' = src \ {main}
    /\ DestroyTask(main)
    /\ UNCHANGED <<flags, active, workQueue, tokens, nextWorkId, id, runs, popping, running,
                   threadVars, shutdown, todo>>

-----------------------------------------------------------------------------
(***************************************************************************)
(* ToolsCorePoolStart: the thread is created and entered in the array in    *)
(* one critical section, which its end (ToolsCorePoolRunThread) needs too.  *)
(***************************************************************************)
StartAllowedAnytime == TRUE
StartAllowed == active

Start(d) ==
    /\ shutdown \notin {"drain", "down"} /\ StartAllowed
    /\ thread[d] = "none"
    /\ thread' = [thread EXCEPT ![d] = "running"]
    /\ threads' = threads \cup {d}
    /\ UNCHANGED <<poolVars, interrupted, shutdown, todo>>

\* The callback returns; task->active becomes FALSE.
ThreadReturns(d) ==
    /\ thread[d] = "running"
    /\ thread' = [thread EXCEPT ![d] = "ending"]
    /\ UNCHANGED <<poolVars, threads, interrupted, shutdown, todo>>

LeavesArray(d) == active

ThreadLeaves(d) ==
    /\ thread[d] = "ending"
    /\ IF LeavesArray(d)
       THEN threads' = threads \ {d} /\ thread' = [thread EXCEPT ![d] = "removed"]
       ELSE thread' = [thread EXCEPT ![d] = "leaving"] /\ UNCHANGED threads
    /\ UNCHANGED <<poolVars, interrupted, shutdown, todo>>

\* The idle source of a thread that has left: ToolsCorePoolDestroyThread.
JoinRemoved(d) ==
    /\ MainLoop /\ thread[d] = "removed"
    /\ thread' = [thread EXCEPT ![d] = "joined"]
    /\ UNCHANGED <<poolVars, threads, interrupted, shutdown, todo>>

-----------------------------------------------------------------------------
(***************************************************************************)
(* ToolsCorePool_Shutdown, which visits the array without the lock: it      *)
(* interrupts the threads that are still active, stops the pool (waiting    *)
(* for running tasks, dropping tokens), joins the threads of the array and  *)
(* destroys the tasks left in the queue.                                    *)
(***************************************************************************)
ShutdownBegins ==
    /\ MainLoop
    /\ active' = FALSE
    /\ shutdown' = "interrupt" /\ todo' = threads
    /\ UNCHANGED <<flags, workQueue, tokens, nextWorkId, id, src, live, runs, dtors, popping, running,
                   main, threadVars>>

MustInterruptEnded(d) == thread[d] = "ending"
MustInterrupt(d) == thread[d] = "running"

Interrupt(d) ==
    /\ shutdown = "interrupt" /\ d \in todo
    /\ todo' = todo \ {d}
    /\ interrupted' = IF MustInterrupt(d) THEN interrupted \cup {d} ELSE interrupted
    /\ UNCHANGED <<poolVars, threads, thread, shutdown>>

InterruptsDone ==
    /\ shutdown = "interrupt" /\ todo = {}
    /\ shutdown' = "stop"
    /\ UNCHANGED <<poolVars, threadVars, todo>>

PoolQuietNow == TRUE
PoolQuiet == popping = 0 /\ running = {}

StopPool ==
    /\ shutdown = "stop"
    /\ PoolQuiet
    /\ tokens' = 0
    /\ shutdown' = "join" /\ todo' = threads
    /\ UNCHANGED <<flags, active, workQueue, nextWorkId, id, src, live, runs, dtors, popping, running,
                   main, threadVars>>

Join(d) ==
    /\ shutdown = "join" /\ d \in todo
    /\ thread[d] = "leaving"
    /\ thread' = [thread EXCEPT ![d] = "joined"]
    /\ todo' = todo \ {d}
    /\ UNCHANGED <<poolVars, threads, interrupted, shutdown>>

JoinsDone ==
    /\ shutdown = "join" /\ todo = {}
    /\ shutdown' = "drain"
    /\ UNCHANGED <<poolVars, threadVars, todo>>

Drain ==
    /\ shutdown = "drain" /\ workQueue # <<>>
    /\ DestroyTask(PopTail[1])
    /\ workQueue' = PopTail[2]
    /\ UNCHANGED <<flags, active, tokens, nextWorkId, id, src, runs, popping, running, main, threadVars,
                   shutdown, todo>>

DrainedAtOnce == TRUE
Drained == workQueue = <<>>

ShutdownEnds ==
    /\ shutdown = "drain" /\ Drained
    /\ shutdown' = "down" /\ threads' = {}
    /\ UNCHANGED <<poolVars, thread, interrupted, todo>>

-----------------------------------------------------------------------------
PoolStep == TakeToken \/ RunWorker \/ \E t \in Tasks : WorkerDone(t)
IdleStep == IdleDone \/ (\E t \in Tasks : IdleRun(t)) \/ (\E d \in Dedicated : JoinRemoved(d))
ThreadStep(d) == ThreadReturns(d) \/ ThreadLeaves(d)
ShutdownStep ==
    InterruptsDone \/ StopPool \/ JoinsDone \/ Drain \/ ShutdownEnds
    \/ \E d \in Dedicated : Interrupt(d) \/ Join(d)

Next ==
    \/ \E t \in Tasks : Submit(t)
    \/ \E n \in 1 .. MaxWorkId : Cancel(n)
    \/ \E d \in Dedicated : Start(d) \/ ThreadStep(d)
    \/ PoolStep \/ IdleStep \/ ShutdownBegins \/ ShutdownStep

(***************************************************************************)
(* pool threads and the main loop make progress and tasks end; a dedicated  *)
(* thread is only known to end once it has been interrupted.                *)
(***************************************************************************)
Fairness ==
    /\ WF_vars(TakeToken) /\ WF_vars(RunWorker)
    /\ \A t \in Tasks : WF_vars(WorkerDone(t))
    /\ WF_vars(IdleDone) /\ \A t \in Tasks : SF_vars(IdleRun(t))
    /\ WF_vars(ShutdownStep)
    /\ \A d \in Dedicated :
          WF_vars(d \in interrupted /\ ThreadReturns(d)) /\ WF_vars(ThreadLeaves(d))

Spec == Init /\ [][Next]_vars
FairSpec == Spec /\ Fairness
-----------------------------------------------------------------------------
InQueue == {workQueue[i] : i \in 1 .. Len(workQueue)}

(***************************************************************************)
(* Unless a task is cancelled, every token stands for a task in the queue,  *)
(* so that no task waits in vain and no pool thread pops in vain.           *)
(***************************************************************************)
TokensBacked ==
    cancels = 0 =>
        /\ tokens + popping <= Len(workQueue)
        /\ pool /\ active => tokens + popping = Len(workQueue)

(***************************************************************************)
(* The pool threads that took a token each find a task:                     *)
(* ASSERT(work != NULL) in ToolsCorePoolRunWorker.                          *)
(***************************************************************************)
PopFindsTask == popping <= Len(workQueue)

(***************************************************************************)
(* Unless GThreadPool fails, a task runs at most once, never after its      *)
(* destructor, and its destructor is called at most once: "the task data's  *)
(* destructor will be called after the task finishes executing, or in case  *)
(* the thread pool is destroyed before the task is executed".               *)
(***************************************************************************)
RunOnce ==
    pushFailures = 0 =>
        \A t \in Tasks :
            /\ runs[t] <= 1 /\ dtors[t] <= 1
            /\ t \in running \/ t = main => dtors[t] = 0

(***************************************************************************)
(* Unless GThreadPool fails, the queue holds no freed task and none that is *)
(* already being run.                                                       *)
(***************************************************************************)
QueueHoldsWaiting == pushFailures = 0 => InQueue \subseteq live \ (running \cup {main})

(***************************************************************************)
(* The ID of an accepted task is not 0, which callers take for a failure    *)
(* (VmBackupEnableSyncWait would report an error and forget the freeze),    *)
(* however often the counter has wrapped: ToolsCorePoolSubmit resets it one *)
(* submission before its increment would overflow.                          *)
(***************************************************************************)
IdNeverZero == \A t \in live : id[t] # 0

(***************************************************************************)
(* Once the pool is being stopped, every dedicated thread that still runs   *)
(* its callback has been interrupted: none slipped in or was overlooked,    *)
(* although the array is visited without the lock.                          *)
(***************************************************************************)
RunningInterrupted ==
    shutdown \notin {"up", "interrupt"} =>
        \A d \in Dedicated : thread[d] = "running" => d \in interrupted

(***************************************************************************)
(* After the shutdown nothing runs, and (unless GThreadPool has failed)     *)
(* every task has been destroyed.                                           *)
(***************************************************************************)
ShutdownComplete ==
    shutdown = "down" =>
        /\ running = {} /\ popping = 0
        /\ pushFailures = 0 => live = {}
        /\ \A d \in Dedicated : thread[d] \notin {"running", "ending", "leaving"}

(***************************************************************************)
(* The array of threads does not change while the shutdown visits it.       *)
(***************************************************************************)
ArrayStable == [][(shutdown \in {"interrupt", "stop", "join"}) => threads' = threads]_vars

(***************************************************************************)
(* Unless a task is cancelled, every task is run or destroyed and every     *)
(* shutdown completes.                                                      *)
(***************************************************************************)
TasksEnd == \A t \in Tasks : t \in live ~> t \notin live \/ cancels + pushFailures > 0
ShutdownTerminates == ~active ~> shutdown = "down" \/ cancels > 0
=============================================================================
