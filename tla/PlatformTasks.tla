---------------------------- MODULE PlatformTasks ----------------------------
(***************************************************************************)
(* gallium::Platform: the pool of worker threads that runs V8's background *)
(* tasks, the scheduler thread that delays tasks, the foreground queue of  *)
(* every isolate, and the JavaScript threads that spin their loops, drain  *)
(* these queues before they exit, and destroy the platform                 *)
(* (src/src/Gallium/Platform.cc, Core/ConcurrentTaskQueue.h and            *)
(* RuntimeBase::SpinRun in Gallium/RuntimeBase.cc).                        *)
(*                                                                         *)
(* A JavaScript thread owns one isolate and both go by one name.  Every    *)
(* isolate's async handle is on the loop of Main, the thread that made the *)
(* platform; the other runtimes are JavaScript workers that share it.      *)
(* What V8 posts is chosen freely: a task is born by its owner's code or   *)
(* by one of its owner's tasks, as often as they like.                     *)
(***************************************************************************)
EXTENDS Sequences, FiniteSets, Integers, Functions

CONSTANTS
    Runtimes,       \* JavaScript threads, each with its isolate
    Main,           \* the runtime that owns the platform
    Workers,        \* threads of the pool
    Tasks,          \* identities of v8::Task objects; bounds how many there are at a time
    Reused,         \* those whose identity a new task may have after them
    NoTask,
    NoRuntime

ASSUME MainAssumption == Main \in Runtimes /\ NoRuntime \notin Runtimes
ASSUME FinitePool == IsFiniteSet(Workers)
ASSUME NoTaskAssumption == NoTask \notin Tasks
ASSUME ReusedAssumption == Reused \subseteq Tasks

VARIABLES
    owner,          \* the isolate a task was posted for (NoRuntime: not posted)
    late,           \* tasks that were, or descend from, delayed tasks
    \* ConcurrentTaskQueue of the pool and its threads
    poolQueue, outstanding, poolDisposed,
    worker,         \* "waiting", "running", "posting" or "exited"
    held,           \* the task a worker runs
    pushed,         \* the foreground task a worker is about to push
    \* DelayedTaskScheduler
    schedQueue, schedSignal, schedPc, notifyOpen, timers,
    \* PerIsolateData
    fgQueue, fgSignal, disposed,
    \* JavaScript threads
    pc, resume,     \* where a thread is, and where its batch returns to
    batch,          \* foreground tasks it took and has yet to run
    alive           \* its loop has referenced handles

poolVars == <<poolQueue, outstanding, poolDisposed, worker, held, pushed>>
schedVars == <<schedQueue, schedSignal, schedPc, notifyOpen, timers>>
isolateVars == <<fgQueue, fgSignal, disposed>>
threadVars == <<pc, resume, batch, alive>>
bornVars == <<owner, late>>
vars == <<bornVars, poolVars, schedVars, isolateVars, threadVars>>

Destroy == [kind |-> "dispose", task |-> NoTask]
Schedule(t) == [kind |-> "schedule", task |-> t]

Unborn == {t \in Tasks : owner[t] = NoRuntime}

Init ==
    /\ owner = [t \in Tasks |-> NoRuntime]
    /\ late = {}
    /\ poolQueue = <<>> /\ outstanding = 0 /\ poolDisposed = FALSE
    /\ worker = [w \in Workers |-> "waiting"]
    /\ held = [w \in Workers |-> NoTask]
    /\ pushed = [w \in Workers |-> NoTask]
    /\ schedQueue = <<>> /\ schedSignal = FALSE /\ schedPc = "loop"
    /\ notifyOpen = TRUE /\ timers = {}
    /\ fgQueue = [r \in Runtimes |-> <<>>]
    /\ fgSignal = [r \in Runtimes |-> FALSE]
    /\ disposed = [r \in Runtimes |-> FALSE]
    /\ pc = [r \in Runtimes |-> "loop"]
    /\ resume = [r \in Runtimes |-> "loop"]
    /\ batch = [r \in Runtimes |-> <<>>]
    /\ alive = [r \in Runtimes |-> TRUE]

-----------------------------------------------------------------------------
(* Posting.  Each operator is one of the three ways V8 hands a task over.  *)

Bear(t, r, isLate) ==
    /\ owner' = [owner EXCEPT ![t] = r]
    /\ late' = IF isLate THEN late \cup {t} ELSE late

(* Mutant: tasks are not counted when they are pushed.                     *)
NoCountUp == UNCHANGED outstanding

CountUp == outstanding' = outstanding + 1

(* WorkerThreadsPool::EnqueueTask, ConcurrentTaskQueue::Push               *)
Push(t) ==
    /\ poolQueue' = Append(poolQueue, t)
    /\ CountUp
    /\ UNCHANGED <<poolDisposed, schedVars, isolateVars>>

(* DelayedTaskScheduler::EnqueueDelayedTask                                *)
EnqueueDelayedTask(t) ==
    /\ schedQueue' = Append(schedQueue, Schedule(t))
    /\ schedSignal' = TRUE
    /\ UNCHANGED <<poolQueue, outstanding, poolDisposed, schedPc, notifyOpen,
                   timers, isolateVars>>

(* PerIsolateData::PostTask after its test of disposed_                    *)
PostTask(t, r) ==
    /\ fgQueue' = [fgQueue EXCEPT ![r] = Append(@, t)]
    /\ fgSignal' = [fgSignal EXCEPT ![r] = TRUE]
    /\ UNCHANGED <<poolQueue, outstanding, poolDisposed, schedVars, disposed>>

(* PerIsolateData::PostDelayedTask wraps the task and queues it nowhere: it *)
(* is destroyed when the call returns.                                     *)
PostDelayedTask ==
    UNCHANGED <<poolQueue, outstanding, poolDisposed, schedVars, isolateVars>>

PostNothing ==
    UNCHANGED <<bornVars, poolQueue, outstanding, poolDisposed, schedVars,
                isolateVars>>

(* What code of isolate r may post; when isLate it is a task that was, or  *)
(* descends from, a delayed one.  V8 cancels what is left of an isolate it *)
(* has disposed, so nothing is posted for it any more.                     *)
PostFrom(r, isLate) ==
    \/ PostNothing
    \/ pc[r] # "disposed" /\ \E t \in Unborn :
          \/ Bear(t, r, isLate) /\ Push(t)
          \/ Bear(t, r, TRUE) /\ EnqueueDelayedTask(t)
          \/ ~disposed[r] /\ Bear(t, r, isLate) /\ PostTask(t, r)
          \/ ~disposed[r] /\ Bear(t, r, TRUE) /\ PostDelayedTask

-----------------------------------------------------------------------------
(* The pool: WorkerThreadsPool::WorkerEntrypoint                           *)

(* Mutant: a task counts as done when it leaves the queue.                 *)
PopAndCountDown ==
    poolQueue' = Tail(poolQueue) /\ outstanding' = outstanding - 1

Pop == poolQueue' = Tail(poolQueue) /\ UNCHANGED outstanding

WaitPop(w) ==
    /\ worker[w] = "waiting"
    /\ ~poolDisposed /\ poolQueue # <<>>
    /\ worker' = [worker EXCEPT ![w] = "running"]
    /\ held' = [held EXCEPT ![w] = Head(poolQueue)]
    /\ Pop
    /\ UNCHANGED <<bornVars, poolDisposed, pushed, schedVars, isolateVars,
                   threadVars>>

(* A running task posts to the pool or to the scheduler.  V8 cancels the   *)
(* tasks of an isolate it has disposed: they run without effect.           *)
TaskPosts(w) ==
    /\ worker[w] = "running" /\ pc[owner[held[w]]] # "disposed"
    /\ \E t \in Unborn :
          \/ Bear(t, owner[held[w]], held[w] \in late) /\ Push(t)
          \/ Bear(t, owner[held[w]], TRUE) /\ EnqueueDelayedTask(t)
    /\ UNCHANGED <<worker, held, pushed, threadVars>>

(* A running task posts to its isolate: the unlocked test of disposed_ ... *)
TaskPostsForeground(w) ==
    /\ worker[w] = "running" /\ pc[owner[held[w]]] # "disposed"
    /\ ~disposed[owner[held[w]]]
    /\ \E t \in Unborn :
          /\ Bear(t, owner[held[w]], held[w] \in late)
          /\ pushed' = [pushed EXCEPT ![w] = t]
    /\ worker' = [worker EXCEPT ![w] = "posting"]
    /\ UNCHANGED <<poolQueue, outstanding, poolDisposed, held, schedVars,
                   isolateVars, threadVars>>

(* ... and the push, whatever has happened to the isolate since.           *)
TaskPushesForeground(w) ==
    /\ worker[w] = "posting"
    /\ PostTask(pushed[w], owner[held[w]])
    /\ worker' = [worker EXCEPT ![w] = "running"]
    /\ pushed' = [pushed EXCEPT ![w] = NoTask]
    /\ UNCHANGED <<bornVars, held, threadVars>>

(* Mutant: finished tasks stay outstanding.                                *)
NoCountDown == UNCHANGED outstanding

(* The task returns and is counted down.                                   *)
CountDown == outstanding' = outstanding - 1

NotifyOfCompletion(w) ==
    /\ worker[w] = "running"
    /\ worker' = [worker EXCEPT ![w] = "waiting"]
    /\ held' = [held EXCEPT ![w] = NoTask]
    /\ CountDown
    /\ UNCHANGED <<bornVars, poolQueue, poolDisposed, pushed, schedVars,
                   isolateVars, threadVars>>

(* WaitPop returns nullptr once the queue is disposed, tasks or not.       *)
WorkerExits(w) ==
    /\ worker[w] = "waiting" /\ poolDisposed
    /\ worker' = [worker EXCEPT ![w] = "exited"]
    /\ UNCHANGED <<bornVars, poolQueue, outstanding, poolDisposed, held,
                   pushed, schedVars, isolateVars, threadVars>>

-----------------------------------------------------------------------------
(* The scheduler thread: DelayedTaskScheduler::Run                         *)

TaskNotified ==
    /\ schedPc = "loop" /\ schedSignal /\ notifyOpen
    /\ schedPc' = "popping" /\ schedSignal' = FALSE
    /\ UNCHANGED <<bornVars, poolVars, schedQueue, notifyOpen, timers,
                   isolateVars, threadVars>>

(* ScheduleTask::Run                                                       *)
StartTimer ==
    /\ schedPc = "popping" /\ schedQueue # <<>>
    /\ Head(schedQueue).kind = "schedule"
    /\ timers' = timers \cup {Head(schedQueue).task}
    /\ schedQueue' = Tail(schedQueue)
    /\ UNCHANGED <<bornVars, poolVars, schedSignal, schedPc, notifyOpen,
                   isolateVars, threadVars>>

(* Mutant: the scheduler's own notifier stays open.                        *)
LeaveNotifier == UNCHANGED notifyOpen

CloseNotifier == notifyOpen' = FALSE

(* DisposeTask::Run deletes the tasks of pending timers, closes the handles *)
CloseHandles ==
    /\ schedPc = "popping" /\ schedQueue # <<>>
    /\ Head(schedQueue).kind = "dispose"
    /\ timers' = {} /\ CloseNotifier
    /\ schedQueue' = Tail(schedQueue)
    /\ UNCHANGED <<bornVars, poolVars, schedSignal, schedPc, isolateVars,
                   threadVars>>

PoppedAll ==
    /\ schedPc = "popping" /\ schedQueue = <<>>
    /\ schedPc' = "loop"
    /\ UNCHANGED <<bornVars, poolVars, schedQueue, schedSignal, notifyOpen,
                   timers, isolateVars, threadVars>>

(* Mutant: an expired timer is still one whose task DisposeTask deletes.   *)
KeepTimer(t) == UNCHANGED timers

(* The timer leaves the set that DisposeTask deletes tasks from.           *)
ForgetTimer(t) == timers' = timers \ {t}

OnTimerExpired(t) ==
    /\ schedPc = "loop" /\ t \in timers
    /\ poolQueue' = Append(poolQueue, t)
    /\ CountUp
    /\ ForgetTimer(t)
    /\ UNCHANGED <<bornVars, poolDisposed, worker, held, pushed, schedQueue,
                   schedSignal, schedPc, notifyOpen, isolateVars, threadVars>>

(* uv_run returns when no handle is active, and the loop is closed.        *)
SchedulerExits ==
    /\ schedPc = "loop" /\ ~notifyOpen /\ timers = {}
    /\ schedPc' = "exited"
    /\ UNCHANGED <<bornVars, poolVars, schedQueue, schedSignal, notifyOpen,
                   timers, isolateVars, threadVars>>

-----------------------------------------------------------------------------
(* JavaScript threads: RuntimeBase::SpinRun                                *)

(* One callback of the loop: code that may post, open or close handles.    *)
LoopEvent(r) ==
    /\ pc[r] = "loop" /\ alive[r]
    /\ PostFrom(r, FALSE)
    /\ \E a \in BOOLEAN : alive' = [alive EXCEPT ![r] = a]
    /\ UNCHANGED <<worker, held, pushed, pc, resume, batch>>

(* foreground_tasks_queue_.PopAll at the start of PerformForegroundTasks   *)
TakeAll(r, i) ==
    /\ batch' = [batch EXCEPT ![r] = fgQueue[i]]
    /\ fgQueue' = [fgQueue EXCEPT ![i] = <<>>]

(* PerIsolateData::OnTaskNotified on the loop of Main, for any isolate     *)
OnTaskNotified(i) ==
    /\ pc[Main] = "loop" /\ alive[Main]
    /\ fgSignal[i] /\ ~disposed[i]
    /\ TakeAll(Main, i)
    /\ fgSignal' = [fgSignal EXCEPT ![i] = FALSE]
    /\ pc' = [pc EXCEPT ![Main] = "perform"]
    /\ resume' = [resume EXCEPT ![Main] = "loop"]
    /\ UNCHANGED <<bornVars, poolVars, schedVars, disposed, alive>>

(* One task of the batch; it may keep the loop of its thread alive.        *)
RunForeground(r) ==
    /\ pc[r] = "perform" /\ batch[r] # <<>>
    /\ PostFrom(owner[Head(batch[r])], Head(batch[r]) \in late)
    /\ batch' = [batch EXCEPT ![r] = Tail(@)]
    /\ \E a \in {alive[r], TRUE} : alive' = [alive EXCEPT ![r] = a]
    /\ UNCHANGED <<worker, held, pushed, pc, resume>>

BatchDone(r) ==
    /\ pc[r] = "perform" /\ batch[r] = <<>>
    /\ pc' = [pc EXCEPT ![r] = resume[r]]
    /\ UNCHANGED <<bornVars, poolVars, schedVars, isolateVars, resume, batch,
                   alive>>

(* uv_run returns; Platform::DrainTasks begins.                            *)
LoopReturns(r) ==
    /\ pc[r] = "loop" /\ ~alive[r]
    /\ pc' = [pc EXCEPT ![r] = "drain"]
    /\ UNCHANGED <<bornVars, poolVars, schedVars, isolateVars, resume, batch,
                   alive>>

(* ConcurrentTaskQueue::WaitDrain returns.                                 *)
WaitDrain(r) ==
    /\ pc[r] = "drain" /\ outstanding <= 0
    /\ pc' = [pc EXCEPT ![r] = "drained"]
    /\ UNCHANGED <<bornVars, poolVars, schedVars, isolateVars, resume, batch,
                   alive>>

(* Mutant: DrainTasks does not look at the pool again.                     *)
WorkOnce == "checkpoint"

(* DrainTasks waits again whenever PerformForegroundTasks did some work.   *)
AfterWork == "drain"

(* PerformForegroundTasks in DrainTasks                                    *)
DrainForeground(r) ==
    /\ pc[r] = "drained"
    /\ TakeAll(r, r)
    /\ pc' = [pc EXCEPT ![r] =
                IF fgQueue[r] = <<>> THEN "checkpoint" ELSE "perform"]
    /\ resume' = [resume EXCEPT ![r] = AfterWork]
    /\ UNCHANGED <<bornVars, poolVars, schedVars, fgSignal, disposed, alive>>

(* PerformTasksCheckpoint runs microtasks, and the loop is looked at again *)
PerformTasksCheckpoint(r) ==
    /\ pc[r] = "checkpoint"
    /\ PostFrom(r, FALSE)
    /\ \E a \in {alive[r], TRUE} :
          /\ alive' = [alive EXCEPT ![r] = a]
          /\ pc' = [pc EXCEPT ![r] = IF a THEN "loop" ELSE "exit"]
    /\ UNCHANGED <<worker, held, pushed, resume, batch>>

(* Platform::UnregisterIsolate in RuntimeBase::Dispose.  Main has joined   *)
(* the JavaScript workers in its kBeforeSpinRunExit callbacks.             *)
UnregisterIsolate(r) ==
    /\ pc[r] = "exit"
    /\ r = Main => \A q \in Runtimes \ {Main} : pc[q] = "disposed"
    /\ fgQueue' = [fgQueue EXCEPT ![r] = <<>>]
    /\ disposed' = [disposed EXCEPT ![r] = TRUE]
    /\ pc' = [pc EXCEPT ![r] = "teardown"]
    /\ UNCHANGED <<bornVars, poolVars, schedVars, fgSignal, resume, batch,
                   alive>>

(* v8::Isolate::Dispose waits for the isolate's running background tasks.  *)
DisposeIsolate(r) ==
    /\ pc[r] = "teardown"
    /\ \A w \in Workers : held[w] # NoTask => owner[held[w]] # r
    /\ pc' = [pc EXCEPT ![r] = "disposed"]
    /\ UNCHANGED <<bornVars, poolVars, schedVars, isolateVars, resume, batch,
                   alive>>

(* ~Platform: DelayedTaskScheduler::Dispose up to the join ...             *)
DisposeScheduler ==
    /\ pc[Main] = "disposed"
    /\ schedQueue' = Append(schedQueue, Destroy)
    /\ schedSignal' = TRUE
    /\ pc' = [pc EXCEPT ![Main] = "joinScheduler"]
    /\ UNCHANGED <<bornVars, poolVars, schedPc, notifyOpen, timers,
                   isolateVars, resume, batch, alive>>

(* ... then ~DelayedTaskScheduler, ~WorkerThreadsPool up to its joins ...  *)
DisposePool ==
    /\ pc[Main] = "joinScheduler" /\ schedPc = "exited"
    /\ poolDisposed' = TRUE
    /\ schedQueue' = <<>>
    /\ pc' = [pc EXCEPT ![Main] = "joinPool"]
    /\ UNCHANGED <<bornVars, poolQueue, outstanding, worker, held, pushed,
                   schedSignal, schedPc, notifyOpen, timers, isolateVars,
                   resume, batch, alive>>

(* ... and the pool's queue destroyed with the tasks left in it.           *)
PoolDestroyed ==
    /\ pc[Main] = "joinPool" /\ \A w \in Workers : worker[w] = "exited"
    /\ poolQueue' = <<>>
    /\ pc' = [pc EXCEPT ![Main] = "gone"]
    /\ UNCHANGED <<bornVars, outstanding, poolDisposed, worker, held, pushed,
                   schedVars, isolateVars, resume, batch, alive>>

-----------------------------------------------------------------------------
(* The places that hold v8::Task objects, and the tasks in each, NoTask     *)
(* standing for none.  A timer's handle holds the task until it expires.   *)
Places ==
    {<<"pool", Main>>, <<"scheduler", Main>>}
    \cup ({"timer"} \X Tasks) \cup ({"held", "pushed"} \X Workers)
    \cup ({"foreground", "batch"} \X Runtimes)

Contents(l) ==
    CASE l[1] = "pool"       -> poolQueue
      [] l[1] = "scheduler"  -> [i \in DOMAIN schedQueue |-> schedQueue[i].task]
      [] l[1] = "timer"      -> IF l[2] \in timers THEN <<l[2]>> ELSE <<>>
      [] l[1] = "held"       -> <<held[l[2]]>>
      [] l[1] = "pushed"     -> <<pushed[l[2]]>>
      [] l[1] = "foreground" -> fgQueue[l[2]]
      [] l[1] = "batch"      -> batch[l[2]]

Inside(l) == Range(Contents(l)) \ {NoTask}

(* A task in no place has been run or destroyed: its identity may be that of *)
(* a new v8::Task.  With tasks in Reused there is no end to what is posted.  *)
Reuse(t) ==
    /\ owner[t] # NoRuntime
    /\ \A l \in Places : t \notin Inside(l)
    /\ owner' = [owner EXCEPT ![t] = NoRuntime]
    /\ late' = late \ {t}
    /\ UNCHANGED <<poolVars, schedVars, isolateVars, threadVars>>

-----------------------------------------------------------------------------
WorkerStep(w) ==
    \/ WaitPop(w) \/ TaskPosts(w) \/ TaskPostsForeground(w)
    \/ TaskPushesForeground(w) \/ NotifyOfCompletion(w) \/ WorkerExits(w)

SchedulerStep ==
    \/ TaskNotified \/ StartTimer \/ CloseHandles \/ PoppedAll
    \/ \E t \in Tasks : OnTimerExpired(t)
    \/ SchedulerExits

ThreadProgress(r) ==
    \/ RunForeground(r) \/ BatchDone(r) \/ LoopReturns(r)
    \/ WaitDrain(r) \/ DrainForeground(r) \/ PerformTasksCheckpoint(r)
    \/ UnregisterIsolate(r) \/ DisposeIsolate(r)

Shutdown == DisposeScheduler \/ DisposePool \/ PoolDestroyed

PlatformStep ==
    \/ \E w \in Workers : WorkerStep(w)
    \/ SchedulerStep
    \/ \E r \in Runtimes : LoopEvent(r) \/ ThreadProgress(r)
    \/ \E i \in Runtimes : OnTaskNotified(i)
    \/ Shutdown

Next == PlatformStep \/ \E t \in Reused : Reuse(t)

(* Tasks return (also those that post foreground tasks all the time), threads *)
(* are scheduled and timers expire; what the loop waits for need never happen. *)
Fairness ==
    /\ \A w \in Workers :
          /\ WF_vars(WaitPop(w)) /\ WF_vars(WorkerExits(w))
          /\ WF_vars(TaskPushesForeground(w))
          /\ SF_vars(NotifyOfCompletion(w))
    /\ WF_vars(SchedulerStep)
    /\ \A r \in Runtimes : WF_vars(ThreadProgress(r))
    /\ WF_vars(Shutdown)

Spec == Init /\ [][Next]_vars /\ Fairness

-----------------------------------------------------------------------------
(* Correctness.                                                            *)

Commands == {Destroy} \cup {Schedule(t) : t \in Tasks}

TypeBorn ==
    /\ owner \in [Tasks -> Runtimes \cup {NoRuntime}] /\ late \in SUBSET Tasks

TypePool ==
    /\ poolQueue \in Seq(Tasks) /\ poolDisposed \in BOOLEAN
    /\ worker \in [Workers -> {"waiting", "running", "posting", "exited"}]
    /\ held \in [Workers -> Tasks \cup {NoTask}]
    /\ pushed \in [Workers -> Tasks \cup {NoTask}]
    /\ \A w \in Workers :
          /\ held[w] = NoTask <=> worker[w] \in {"waiting", "exited"}
          /\ pushed[w] = NoTask <=> worker[w] # "posting"

TypeScheduler ==
    /\ schedQueue \in Seq(Commands) /\ schedSignal \in BOOLEAN
    /\ schedPc \in {"loop", "popping", "exited"}
    /\ notifyOpen \in BOOLEAN /\ timers \in SUBSET Tasks

TypeIsolates ==
    /\ fgQueue \in [Runtimes -> Seq(Tasks)]
    /\ fgSignal \in [Runtimes -> BOOLEAN] /\ disposed \in [Runtimes -> BOOLEAN]

TypeThreads ==
    /\ pc \in [Runtimes -> {"loop", "perform", "drain", "drained",
                            "checkpoint", "exit", "teardown", "disposed",
                            "joinScheduler", "joinPool", "gone"}]
    /\ resume \in [Runtimes -> {"loop", "drain"}]
    /\ batch \in [Runtimes -> Seq(Tasks)] /\ alive \in [Runtimes -> BOOLEAN]

(* The type invariant: what was posted, the pool, the scheduler, the       *)
(* isolates' queues and the JavaScript threads.                            *)
TypeOK ==
    /\ TypeBorn /\ TypePool /\ outstanding \in Nat
    /\ TypeScheduler /\ TypeIsolates /\ TypeThreads

Busy == {w \in Workers : held[w] # NoTask}

(* The count WaitDrain sleeps on is the number of tasks that are queued or *)
(* in a worker's hands: it cannot reach zero early, nor stay above zero    *)
(* when the pool is idle (outstanding_tasks_, ConcurrentTaskQueue.h).      *)
OutstandingExact ==
    pc[Main] # "gone" => outstanding = Len(poolQueue) + Cardinality(Busy)

(* Who is left when the platform goes: the main thread last, and its pool  *)
(* after the scheduler.                                                    *)
Ending == {"teardown", "disposed", "joinScheduler", "joinPool", "gone"}

EndPhases ==
    /\ \A r \in Runtimes \ {Main} :
          /\ pc[r] \notin {"joinScheduler", "joinPool", "gone"}
          /\ pc[Main] \in Ending => pc[r] = "disposed"
    /\ pc[Main] \in {"joinPool", "gone"} => schedPc = "exited"
    /\ pc[Main] = "gone" => \A w \in Workers : worker[w] = "exited"

(* The inductive invariant of the proofs                                   *)
IndInv == TypeOK /\ EndPhases /\ OutstandingExact

(* A task has one owner: it is never twice in a queue, nor in two queues,  *)
(* nor in a queue and in the set of timers whose tasks DisposeTask deletes, *)
(* so that it is neither run nor deleted twice (OnTimerExpired,            *)
(* DisposeTask::Run).                                                      *)
OwnedOnce ==
    /\ \A l \in Places : \A i, j \in DOMAIN Contents(l) :
          Contents(l)[i] = Contents(l)[j] => i = j \/ Contents(l)[i] = NoTask
    /\ \A l, m \in Places : l # m => Inside(l) \cap Inside(m) = {}

Waiting(t) ==
    \/ t \in Range(poolQueue) \cup Range(fgQueue[Main])
    \/ \E w \in Workers : t \in {held[w], pushed[w]}

(* When DrainTasks returns on the main thread, no task of its isolate that *)
(* does not stem from a delayed one is queued or running anywhere, however *)
(* often background tasks posted foreground tasks and the reverse.         *)
DrainComplete ==
    [][ pc[Main] # "checkpoint" /\ pc'[Main] = "checkpoint" =>
          \A t \in Tasks \ late : owner[t] = Main => ~Waiting(t) ]_vars

(* A task arrives that a drain of r has to wait for or to run.              *)
PostedFor(r) ==
    outstanding' > outstanding \/ Len(fgQueue'[r]) > Len(fgQueue[r])

(* DrainTasks returns, unless tasks are posted for ever: to the pool, which  *)
(* all runtimes share, so that any of them can keep WaitDrain of all asleep,  *)
(* or to the isolate's own queue.                                            *)
DrainReturns ==
    \A r \in Runtimes :
        (pc[r] = "drain" ~> pc[r] = "checkpoint") \/ []<><<PostedFor(r)>>_vars

(* ~Platform ends: the scheduler thread leaves its loop whatever timers are *)
(* pending, every worker sees the disposal, and both joins return.         *)
ShutdownEnds == pc[Main] = "disposed" ~> pc[Main] = "gone"

=============================================================================
