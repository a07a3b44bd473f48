-------------------------- MODULE PlatformTasksProofs --------------------------
(***************************************************************************)
(* TLAPS proofs about gallium::Platform: the count WaitDrain sleeps on is  *)
(* exact, for any number of threads, isolates and tasks.                   *)
(***************************************************************************)
EXTENDS PlatformTasks, FiniteSetTheorems, SequenceTheorems, TLAPS

USE DEF poolVars, schedVars, isolateVars, threadVars, bornVars

(* What every way of posting a task does to the queues.                      *)
Posted ==
    /\ TypeBorn' /\ TypeScheduler' /\ TypeIsolates'
    /\ poolQueue' \in Seq(Tasks)
    /\ UNCHANGED <<poolDisposed, schedPc, notifyOpen, timers, disposed>>
    /\ \/ outstanding' = outstanding /\ Len(poolQueue') = Len(poolQueue)
       \/ outstanding' = outstanding + 1 /\ Len(poolQueue') = Len(poolQueue) + 1

(* A task is born for an isolate.                                            *)
LEMMA BearTypes ==
    ASSUME TypeBorn, NEW t \in Tasks, NEW r \in Runtimes \cup {NoRuntime},
           NEW l, Bear(t, r, l)
    PROVE  TypeBorn'
  BY DEF TypeBorn, Bear

(* Each way of posting a task leaves the queues typed and the count exact:   *)
(* in the pool,                                                              *)
LEMMA PushPosts ==
    ASSUME TypePool, TypeScheduler, TypeIsolates, TypeBorn', NEW t \in Tasks, Push(t)
    PROVE  Posted
  <1>1. TypeScheduler' /\ TypeIsolates'
    BY DEF Push, TypeScheduler, TypeIsolates
  <1>2. poolQueue' \in Seq(Tasks) /\ Len(poolQueue') = Len(poolQueue) + 1
    BY DEF Push, TypePool
  <1> QED BY <1>1, <1>2 DEF Posted, Push, CountUp

(* with a delay,                                                             *)
LEMMA DelayPosts ==
    ASSUME TypePool, TypeScheduler, TypeIsolates, TypeBorn', NEW t \in Tasks,
           EnqueueDelayedTask(t)
    PROVE  Posted
  <1>1. Schedule(t) \in Commands
    BY DEF Commands
  <1>2. schedQueue' \in Seq(Commands)
    BY <1>1 DEF EnqueueDelayedTask, TypeScheduler
  <1>3. TypeScheduler'
    BY <1>2 DEF EnqueueDelayedTask, TypeScheduler
  <1>4. TypeIsolates'
    BY DEF EnqueueDelayedTask, TypeIsolates
  <1> QED BY <1>3, <1>4 DEF Posted, EnqueueDelayedTask, TypePool

(* in the foreground of an isolate,                                          *)
LEMMA ForegroundPosts ==
    ASSUME TypePool, TypeScheduler, TypeIsolates, TypeBorn', NEW t \in Tasks, NEW r,
           PostTask(t, r)
    PROVE  Posted
  <1>1. fgQueue' \in [Runtimes -> Seq(Tasks)]
    <2>1. \A q \in Seq(Tasks) : Append(q, t) \in Seq(Tasks)
      OBVIOUS
    <2> QED BY <2>1 DEF PostTask, TypeIsolates
  <1>2. TypeIsolates'
    BY <1>1 DEF PostTask, TypeIsolates
  <1>3. TypeScheduler'
    BY DEF PostTask, TypeScheduler
  <1> QED BY <1>2, <1>3 DEF Posted, PostTask, TypePool

(* or not at all.                                                            *)
LEMMA NothingPosted ==
    ASSUME TypePool, TypeScheduler, TypeIsolates, TypeBorn',
           UNCHANGED <<poolQueue, outstanding, poolDisposed, schedVars, isolateVars>>
    PROVE  Posted
  BY DEF Posted, TypePool, TypeScheduler, TypeIsolates

(* An isolate's code posts at most one task.                                 *)
LEMMA PostFromPosts ==
    ASSUME TypeBorn, TypePool, TypeScheduler, TypeIsolates,
           NEW r \in Runtimes \cup {NoRuntime}, NEW l, PostFrom(r, l)
    PROVE  Posted
  <1>1. CASE PostNothing
    <2>1. TypeBorn'
      BY <1>1 DEF PostNothing, TypeBorn
    <2> QED BY <1>1, <2>1, NothingPosted DEF PostNothing
  <1>2. ASSUME NEW t \in Unborn, Bear(t, r, l), Push(t) PROVE Posted
    BY <1>2, BearTypes, PushPosts DEF Unborn
  <1>3. ASSUME NEW t \in Unborn, Bear(t, r, TRUE), EnqueueDelayedTask(t) PROVE Posted
    BY <1>3, BearTypes, DelayPosts DEF Unborn
  <1>4. ASSUME NEW t \in Unborn, Bear(t, r, l), PostTask(t, r) PROVE Posted
    BY <1>4, BearTypes, ForegroundPosts DEF Unborn
  <1>5. ASSUME NEW t \in Unborn, Bear(t, r, TRUE), PostDelayedTask PROVE Posted
    <2>1. TypeBorn'
      BY <1>5, BearTypes DEF Unborn
    <2> QED BY <1>5, <2>1, NothingPosted DEF PostDelayedTask
  <1> QED BY <1>1, <1>2, <1>3, <1>4, <1>5 DEF PostFrom

(* A task in a worker's hands has an owner's type.                           *)
LEMMA HeldTypes ==
    ASSUME TypeBorn, TypePool, NEW w \in Workers,
           worker[w] \in {"running", "posting"}
    PROVE  /\ held[w] \in Tasks /\ owner[held[w]] \in Runtimes \cup {NoRuntime}
           /\ worker[w] = "posting" => pushed[w] \in Tasks
  BY DEF TypeBorn, TypePool

(* A running task of the pool posts at most one task.                        *)
LEMMA TaskPostsPosts ==
    ASSUME TypeBorn, TypePool, TypeScheduler, TypeIsolates,
           NEW w \in Workers, TaskPosts(w)
    PROVE  Posted
  <1>1. owner[held[w]] \in Runtimes \cup {NoRuntime}
    BY HeldTypes DEF TaskPosts
  <1>2. ASSUME NEW t \in Unborn, Bear(t, owner[held[w]], held[w] \in late), Push(t)
        PROVE  Posted
    BY <1>1, <1>2, BearTypes, PushPosts DEF Unborn
  <1>3. ASSUME NEW t \in Unborn, Bear(t, owner[held[w]], TRUE), EnqueueDelayedTask(t)
        PROVE  Posted
    BY <1>1, <1>3, BearTypes, DelayPosts DEF Unborn
  <1> QED BY <1>2, <1>3 DEF TaskPosts

(* It puts a foreground task into its isolate's queue.                       *)
LEMMA TaskPushesPosts ==
    ASSUME TypeBorn, TypePool, TypeScheduler, TypeIsolates,
           NEW w \in Workers, TaskPushesForeground(w)
    PROVE  Posted
  <1>1. pushed[w] \in Tasks /\ PostTask(pushed[w], owner[held[w]])
    BY HeldTypes DEF TaskPushesForeground
  <1>2. TypeBorn'
    BY DEF TaskPushesForeground, TypeBorn
  <1> QED BY <1>1, <1>2, ForegroundPosts

(* A foreground task posts at most one task.                                 *)
LEMMA RunForegroundPosts ==
    ASSUME TypeBorn, TypePool, TypeScheduler, TypeIsolates, TypeThreads,
           NEW r \in Runtimes, RunForeground(r)
    PROVE  Posted
  <1>1. batch[r] # <<>> /\ batch[r] \in Seq(Tasks)
    BY DEF RunForeground, TypeThreads
  <1>2. Head(batch[r]) \in Tasks
    BY <1>1
  <1>3. owner[Head(batch[r])] \in Runtimes \cup {NoRuntime}
    BY <1>2 DEF TypeBorn
  <1> QED BY <1>3, PostFromPosts DEF RunForeground


(* What was posted, the scheduler and the isolates' queues keep their types. *)
LEMMA QueuesStep ==
    ASSUME TypeBorn, TypePool, TypeScheduler, TypeIsolates, TypeThreads,
           [PlatformStep]_vars
    PROVE  TypeBorn' /\ TypeScheduler' /\ TypeIsolates'
  <1>1. ASSUME NEW w \in Workers, WaitPop(w)
        PROVE  TypeBorn' /\ TypeScheduler' /\ TypeIsolates'
    <2>1. TypeBorn' /\ TypeIsolates'
      BY <1>1 DEF WaitPop, TypeBorn, TypeIsolates, Pop
    <2>2. TypeScheduler'
      BY <1>1 DEF WaitPop, TypeScheduler, Pop
    <2> QED BY <2>1, <2>2
  <1>2. ASSUME NEW w \in Workers, TaskPosts(w)
        PROVE  TypeBorn' /\ TypeScheduler' /\ TypeIsolates'
    <2>1. Posted
      BY <1>2, TaskPostsPosts DEF TaskPosts
    <2> QED BY <2>1 DEF Posted
  <1>3. ASSUME NEW w \in Workers, TaskPostsForeground(w)
        PROVE  TypeBorn' /\ TypeScheduler' /\ TypeIsolates'
    <2>1. TypeIsolates' /\ TypeScheduler'
      BY <1>3 DEF TaskPostsForeground, TypeIsolates, TypeScheduler
    <2>2. PICK t \in Unborn : Bear(t, owner[held[w]], held[w] \in late)
      BY <1>3 DEF TaskPostsForeground
    <2>3. owner[held[w]] \in Runtimes \cup {NoRuntime}
      BY <1>3, HeldTypes DEF TaskPostsForeground
    <2>4. TypeBorn'
      BY <2>2, <2>3, BearTypes DEF Unborn
    <2> QED BY <2>1, <2>4
  <1>4. ASSUME NEW w \in Workers, TaskPushesForeground(w)
        PROVE  TypeBorn' /\ TypeScheduler' /\ TypeIsolates'
    <2>1. Posted
      BY <1>4, TaskPushesPosts DEF TaskPushesForeground
    <2> QED BY <2>1 DEF Posted
  <1>5. ASSUME NEW w \in Workers, NotifyOfCompletion(w)
        PROVE  TypeBorn' /\ TypeScheduler' /\ TypeIsolates'
    <2>1. TypeBorn' /\ TypeIsolates'
      BY <1>5 DEF NotifyOfCompletion, TypeBorn, TypeIsolates, CountDown
    <2>2. TypeScheduler'
      BY <1>5 DEF NotifyOfCompletion, TypeScheduler, CountDown
    <2> QED BY <2>1, <2>2
  <1>6. ASSUME NEW w \in Workers, WorkerExits(w)
        PROVE  TypeBorn' /\ TypeScheduler' /\ TypeIsolates'
    <2>1. TypeBorn' /\ TypeIsolates'
      BY <1>6 DEF WorkerExits, TypeBorn, TypeIsolates
    <2>2. TypeScheduler'
      BY <1>6 DEF WorkerExits, TypeScheduler
    <2> QED BY <2>1, <2>2
  <1>7. CASE TaskNotified
    <2>1. TypeBorn' /\ TypeIsolates'
      BY <1>7 DEF TaskNotified, TypeBorn, TypeIsolates
    <2>2. TypeScheduler'
      BY <1>7 DEF TaskNotified, TypeScheduler
    <2> QED BY <2>1, <2>2
  <1>8. CASE StartTimer
    <2>1. TypeBorn' /\ TypeIsolates'
      BY <1>8 DEF StartTimer, TypeBorn, TypeIsolates
    <2>2. /\ schedQueue # <<>> /\ schedQueue \in Seq(Commands)
          /\ Head(schedQueue).kind = "schedule"
          /\ schedQueue' = Tail(schedQueue)
          /\ timers' = timers \cup {Head(schedQueue).task}
          /\ UNCHANGED <<schedSignal, schedPc, notifyOpen>>
      BY <1>8 DEF StartTimer, TypeScheduler
    <2>3. Head(schedQueue) \in Commands /\ Tail(schedQueue) \in Seq(Commands)
      BY <2>2
    <2>4. Head(schedQueue).task \in Tasks
      BY <2>2, <2>3 DEF Commands, Destroy, Schedule
    <2>5. TypeScheduler'
      BY <2>2, <2>3, <2>4 DEF TypeScheduler
    <2> QED BY <2>1, <2>5
  <1>9. CASE CloseHandles
    <2>1. TypeBorn' /\ TypeIsolates'
      BY <1>9 DEF CloseHandles, TypeBorn, TypeIsolates
    <2>2. schedQueue' \in Seq(Commands)
      BY <1>9 DEF CloseHandles, TypeScheduler
    <2>3. TypeScheduler'
      BY <1>9, <2>2 DEF CloseHandles, CloseNotifier, TypeScheduler
    <2> QED BY <2>1, <2>3
  <1>10. CASE PoppedAll
    <2>1. TypeBorn' /\ TypeIsolates'
      BY <1>10 DEF PoppedAll, TypeBorn, TypeIsolates
    <2>2. TypeScheduler'
      BY <1>10 DEF PoppedAll, TypeScheduler
    <2> QED BY <2>1, <2>2
  <1>11. ASSUME NEW t \in Tasks, OnTimerExpired(t)
        PROVE  TypeBorn' /\ TypeScheduler' /\ TypeIsolates'
    <2>1. TypeBorn' /\ TypeIsolates'
      BY <1>11 DEF OnTimerExpired, TypeBorn, TypeIsolates, CountUp, ForgetTimer
    <2>2. TypeScheduler'
      BY <1>11 DEF OnTimerExpired, TypeScheduler, CountUp, ForgetTimer
    <2> QED BY <2>1, <2>2
  <1>12. CASE SchedulerExits
    <2>1. TypeBorn' /\ TypeIsolates'
      BY <1>12 DEF SchedulerExits, TypeBorn, TypeIsolates
    <2>2. TypeScheduler'
      BY <1>12 DEF SchedulerExits, TypeScheduler
    <2> QED BY <2>1, <2>2
  <1>13. ASSUME NEW r \in Runtimes, LoopEvent(r)
        PROVE  TypeBorn' /\ TypeScheduler' /\ TypeIsolates'
    <2>1. Posted
      BY <1>13, PostFromPosts DEF LoopEvent
    <2> QED BY <2>1 DEF Posted
  <1>14. ASSUME NEW r \in Runtimes, RunForeground(r)
        PROVE  TypeBorn' /\ TypeScheduler' /\ TypeIsolates'
    <2>1. Posted
      BY <1>14, RunForegroundPosts DEF RunForeground
    <2> QED BY <2>1 DEF Posted
  <1>15. ASSUME NEW r \in Runtimes, BatchDone(r)
        PROVE  TypeBorn' /\ TypeScheduler' /\ TypeIsolates'
    <2>1. TypeBorn' /\ TypeIsolates'
      BY <1>15 DEF BatchDone, TypeBorn, TypeIsolates
    <2>2. TypeScheduler'
      BY <1>15 DEF BatchDone, TypeScheduler
    <2> QED BY <2>1, <2>2
  <1>16. ASSUME NEW r \in Runtimes, LoopReturns(r)
        PROVE  TypeBorn' /\ TypeScheduler' /\ TypeIsolates'
    <2>1. TypeBorn' /\ TypeIsolates'
      BY <1>16 DEF LoopReturns, TypeBorn, TypeIsolates
    <2>2. TypeScheduler'
      BY <1>16 DEF LoopReturns, TypeScheduler
    <2> QED BY <2>1, <2>2
  <1>17. ASSUME NEW r \in Runtimes, WaitDrain(r)
        PROVE  TypeBorn' /\ TypeScheduler' /\ TypeIsolates'
    <2>1. TypeBorn' /\ TypeIsolates'
      BY <1>17 DEF WaitDrain, TypeBorn, TypeIsolates
    <2>2. TypeScheduler'
      BY <1>17 DEF WaitDrain, TypeScheduler
    <2> QED BY <2>1, <2>2
  <1>18. ASSUME NEW r \in Runtimes, DrainForeground(r)
        PROVE  TypeBorn' /\ TypeScheduler' /\ TypeIsolates'
    <2>1. TypeBorn' /\ TypeIsolates'
      BY <1>18 DEF DrainForeground, TypeBorn, TypeIsolates, TakeAll, AfterWork
    <2>2. TypeScheduler'
      BY <1>18 DEF DrainForeground, TypeScheduler, TakeAll, AfterWork
    <2> QED BY <2>1, <2>2
  <1>19. ASSUME NEW r \in Runtimes, PerformTasksCheckpoint(r)
        PROVE  TypeBorn' /\ TypeScheduler' /\ TypeIsolates'
    <2>1. Posted
      BY <1>19, PostFromPosts DEF PerformTasksCheckpoint
    <2> QED BY <2>1 DEF Posted
  <1>20. ASSUME NEW r \in Runtimes, UnregisterIsolate(r)
        PROVE  TypeBorn' /\ TypeScheduler' /\ TypeIsolates'
    <2>1. TypeBorn' /\ TypeIsolates'
      BY <1>20 DEF UnregisterIsolate, TypeBorn, TypeIsolates
    <2>2. TypeScheduler'
      BY <1>20 DEF UnregisterIsolate, TypeScheduler
    <2> QED BY <2>1, <2>2
  <1>21. ASSUME NEW r \in Runtimes, DisposeIsolate(r)
        PROVE  TypeBorn' /\ TypeScheduler' /\ TypeIsolates'
    <2>1. TypeBorn' /\ TypeIsolates'
      BY <1>21 DEF DisposeIsolate, TypeBorn, TypeIsolates
    <2>2. TypeScheduler'
      BY <1>21 DEF DisposeIsolate, TypeScheduler
    <2> QED BY <2>1, <2>2
  <1>22. ASSUME NEW i \in Runtimes, OnTaskNotified(i)
        PROVE  TypeBorn' /\ TypeScheduler' /\ TypeIsolates'
    <2>1. TypeBorn' /\ TypeIsolates'
      BY <1>22 DEF OnTaskNotified, TypeBorn, TypeIsolates, TakeAll
    <2>2. TypeScheduler'
      BY <1>22 DEF OnTaskNotified, TypeScheduler, TakeAll
    <2> QED BY <2>1, <2>2
  <1>23. CASE DisposeScheduler
    <2>1. TypeBorn' /\ TypeIsolates'
      BY <1>23 DEF DisposeScheduler, TypeBorn, TypeIsolates
    <2>2. Append(schedQueue, Destroy) \in Seq(Commands)
      BY DEF TypeScheduler, Commands
    <2>3. TypeScheduler'
      BY <1>23, <2>2 DEF DisposeScheduler, TypeScheduler
    <2> QED BY <2>1, <2>3
  <1>24. CASE DisposePool
    <2>1. TypeBorn' /\ TypeIsolates'
      BY <1>24 DEF DisposePool, TypeBorn, TypeIsolates
    <2>2. TypeScheduler'
      BY <1>24 DEF DisposePool, TypeScheduler
    <2> QED BY <2>1, <2>2
  <1>25. CASE PoolDestroyed
    <2>1. TypeBorn' /\ TypeIsolates'
      BY <1>25 DEF PoolDestroyed, TypeBorn, TypeIsolates
    <2>2. TypeScheduler'
      BY <1>25 DEF PoolDestroyed, TypeScheduler
    <2> QED BY <2>1, <2>2
  <1>26. CASE UNCHANGED vars
    BY <1>26 DEF vars, TypeBorn, TypeScheduler, TypeIsolates
  <1> QED
    BY <1>1, <1>2, <1>3, <1>4, <1>5, <1>6, <1>7, <1>8, <1>9, <1>10, <1>11,
       <1>12, <1>13, <1>14, <1>15, <1>16, <1>17, <1>18, <1>19, <1>20, <1>21,
       <1>22, <1>23, <1>24, <1>25, <1>26
       DEF PlatformStep, WorkerStep, SchedulerStep, ThreadProgress, Shutdown

(* The pool keeps its types; a worker holds a task exactly while it runs it. *)
LEMMA PoolStep ==
    ASSUME TypeBorn, TypePool, TypeScheduler, TypeIsolates, TypeThreads,
           [PlatformStep]_vars
    PROVE  TypePool'
  <1>1. ASSUME NEW w \in Workers, WaitPop(w) PROVE TypePool'
    <2>1. /\ poolQueue # <<>> /\ worker[w] = "waiting"
          /\ worker' = [worker EXCEPT ![w] = "running"]
          /\ held' = [held EXCEPT ![w] = Head(poolQueue)]
          /\ poolQueue' = Tail(poolQueue) /\ UNCHANGED <<poolDisposed, pushed>>
      BY <1>1 DEF WaitPop, Pop
    <2>2. Head(poolQueue) \in Tasks /\ Tail(poolQueue) \in Seq(Tasks)
      BY <2>1 DEF TypePool
    <2>3. Head(poolQueue) # NoTask
      BY <2>2, NoTaskAssumption
    <2> QED BY <2>1, <2>2, <2>3 DEF TypePool
  <1>2. ASSUME NEW w \in Workers, TaskPosts(w) PROVE TypePool'
    <2>1. Posted
      BY <1>2, TaskPostsPosts DEF TaskPosts
    <2>2. UNCHANGED <<worker, held, pushed>>
      BY <1>2 DEF TaskPosts
    <2> QED BY <2>1, <2>2 DEF Posted, TypePool
  <1>3. ASSUME NEW w \in Workers, TaskPostsForeground(w) PROVE TypePool'
    <2>1. /\ worker[w] = "running" /\ worker' = [worker EXCEPT ![w] = "posting"]
          /\ UNCHANGED <<poolQueue, poolDisposed, held>>
      BY <1>3 DEF TaskPostsForeground
    <2>2. PICK t \in Tasks : pushed' = [pushed EXCEPT ![w] = t]
      BY <1>3 DEF TaskPostsForeground, Unborn
    <2>3. t # NoTask
      BY NoTaskAssumption
    <2> QED BY <2>1, <2>2, <2>3 DEF TypePool
  <1>4. ASSUME NEW w \in Workers, TaskPushesForeground(w) PROVE TypePool'
    <2>1. Posted
      BY <1>4, TaskPushesPosts
    <2>2. /\ worker[w] = "posting" /\ worker' = [worker EXCEPT ![w] = "running"]
          /\ pushed' = [pushed EXCEPT ![w] = NoTask] /\ UNCHANGED held
      BY <1>4 DEF TaskPushesForeground
    <2> QED BY <2>1, <2>2 DEF Posted, TypePool
  <1>5. ASSUME NEW w \in Workers, NotifyOfCompletion(w) PROVE TypePool'
    BY <1>5 DEF NotifyOfCompletion, CountDown, TypePool
  <1>6. ASSUME NEW w \in Workers, WorkerExits(w) PROVE TypePool'
    BY <1>6 DEF WorkerExits, TypePool
  <1>7. CASE TaskNotified
    BY <1>7 DEF TaskNotified, TypePool
  <1>8. CASE StartTimer
    BY <1>8 DEF StartTimer, TypePool
  <1>9. CASE CloseHandles
    BY <1>9 DEF CloseHandles, CloseNotifier, TypePool
  <1>10. CASE PoppedAll
    BY <1>10 DEF PoppedAll, TypePool
  <1>11. ASSUME NEW t \in Tasks, OnTimerExpired(t) PROVE TypePool'
    <2>1. /\ poolQueue' = Append(poolQueue, t)
          /\ UNCHANGED <<poolDisposed, worker, held, pushed>>
      BY <1>11 DEF OnTimerExpired
    <2>2. Append(poolQueue, t) \in Seq(Tasks)
      BY DEF TypePool
    <2> QED BY <2>1, <2>2 DEF TypePool
  <1>12. CASE SchedulerExits
    BY <1>12 DEF SchedulerExits, TypePool
  <1>13. ASSUME NEW r \in Runtimes, LoopEvent(r) PROVE TypePool'
    <2>1. Posted
      BY <1>13, PostFromPosts DEF LoopEvent
    <2>2. UNCHANGED <<worker, held, pushed>>
      BY <1>13 DEF LoopEvent
    <2> QED BY <2>1, <2>2 DEF Posted, TypePool
  <1>14. ASSUME NEW r \in Runtimes, RunForeground(r) PROVE TypePool'
    <2>1. Posted
      BY <1>14, RunForegroundPosts DEF RunForeground
    <2>2. UNCHANGED <<worker, held, pushed>>
      BY <1>14 DEF RunForeground
    <2> QED BY <2>1, <2>2 DEF Posted, TypePool
  <1>15. ASSUME NEW r \in Runtimes, BatchDone(r) PROVE TypePool'
    BY <1>15 DEF BatchDone, TypePool
  <1>16. ASSUME NEW r \in Runtimes, LoopReturns(r) PROVE TypePool'
    BY <1>16 DEF LoopReturns, TypePool
  <1>17. ASSUME NEW r \in Runtimes, WaitDrain(r) PROVE TypePool'
    BY <1>17 DEF WaitDrain, TypePool
  <1>18. ASSUME NEW r \in Runtimes, DrainForeground(r) PROVE TypePool'
    BY <1>18 DEF DrainForeground, TakeAll, AfterWork, TypePool
  <1>19. ASSUME NEW r \in Runtimes, PerformTasksCheckpoint(r) PROVE TypePool'
    <2>1. Posted
      BY <1>19, PostFromPosts DEF PerformTasksCheckpoint
    <2>2. UNCHANGED <<worker, held, pushed>>
      BY <1>19 DEF PerformTasksCheckpoint
    <2> QED BY <2>1, <2>2 DEF Posted, TypePool
  <1>20. ASSUME NEW r \in Runtimes, UnregisterIsolate(r) PROVE TypePool'
    BY <1>20 DEF UnregisterIsolate, TypePool
  <1>21. ASSUME NEW r \in Runtimes, DisposeIsolate(r) PROVE TypePool'
    BY <1>21 DEF DisposeIsolate, TypePool
  <1>22. ASSUME NEW i \in Runtimes, OnTaskNotified(i) PROVE TypePool'
    BY <1>22 DEF OnTaskNotified, TakeAll, TypePool
  <1>23. CASE DisposeScheduler
    BY <1>23 DEF DisposeScheduler, TypePool
  <1>24. CASE DisposePool
    BY <1>24 DEF DisposePool, TypePool
  <1>25. CASE PoolDestroyed
    <2>1. <<>> \in Seq(Tasks)
      OBVIOUS
    <2> QED BY <1>25, <2>1 DEF PoolDestroyed, TypePool
  <1>26. CASE UNCHANGED vars
    BY <1>26 DEF vars, TypePool
  <1> QED
    BY <1>1, <1>2, <1>3, <1>4, <1>5, <1>6, <1>7, <1>8, <1>9, <1>10, <1>11,
       <1>12, <1>13, <1>14, <1>15, <1>16, <1>17, <1>18, <1>19, <1>20, <1>21,
       <1>22, <1>23, <1>24, <1>25, <1>26
       DEF PlatformStep, WorkerStep, SchedulerStep, ThreadProgress, Shutdown

(* The JavaScript threads keep their types.                                  *)
LEMMA ThreadsStep ==
    ASSUME TypeBorn, TypePool, TypeScheduler, TypeIsolates, TypeThreads,
           [PlatformStep]_vars
    PROVE  TypeThreads'
  <1>1. ASSUME NEW w \in Workers, WaitPop(w) PROVE TypeThreads'
    BY <1>1 DEF WaitPop, Pop, TypeThreads, TypeIsolates
  <1>2. ASSUME NEW w \in Workers, TaskPosts(w) PROVE TypeThreads'
    BY <1>2 DEF TaskPosts, TypeThreads, TypeIsolates
  <1>3. ASSUME NEW w \in Workers, TaskPostsForeground(w) PROVE TypeThreads'
    BY <1>3 DEF TaskPostsForeground, Bear, Unborn, TypeThreads, TypeIsolates
  <1>4. ASSUME NEW w \in Workers, TaskPushesForeground(w) PROVE TypeThreads'
    BY <1>4 DEF TaskPushesForeground, TypeThreads, TypeIsolates
  <1>5. ASSUME NEW w \in Workers, NotifyOfCompletion(w) PROVE TypeThreads'
    BY <1>5 DEF NotifyOfCompletion, CountDown, TypeThreads, TypeIsolates
  <1>6. ASSUME NEW w \in Workers, WorkerExits(w) PROVE TypeThreads'
    BY <1>6 DEF WorkerExits, TypeThreads, TypeIsolates
  <1>7. CASE TaskNotified
    BY <1>7 DEF TaskNotified, TypeThreads, TypeIsolates
  <1>8. CASE StartTimer
    BY <1>8 DEF StartTimer, TypeThreads, TypeIsolates
  <1>9. CASE CloseHandles
    BY <1>9 DEF CloseHandles, CloseNotifier, TypeThreads, TypeIsolates
  <1>10. CASE PoppedAll
    BY <1>10 DEF PoppedAll, TypeThreads, TypeIsolates
  <1>11. ASSUME NEW t \in Tasks, OnTimerExpired(t) PROVE TypeThreads'
    BY <1>11 DEF OnTimerExpired, CountUp, ForgetTimer, TypeThreads,
       TypeIsolates
  <1>12. CASE SchedulerExits
    BY <1>12 DEF SchedulerExits, TypeThreads, TypeIsolates
  <1>13. ASSUME NEW r \in Runtimes, LoopEvent(r) PROVE TypeThreads'
    BY <1>13 DEF LoopEvent, TypeThreads, TypeIsolates
  <1>14. ASSUME NEW r \in Runtimes, RunForeground(r) PROVE TypeThreads'
    <2>1. /\ pc[r] = "perform" /\ batch[r] # <<>> /\ batch' = [batch EXCEPT ![r] = Tail(batch[r])]
          /\ UNCHANGED <<pc, resume>>
      BY <1>14 DEF RunForeground
    <2>2. \A q \in Seq(Tasks) : q # <<>> => Tail(q) \in Seq(Tasks)
      OBVIOUS
    <2>3. batch' \in [Runtimes -> Seq(Tasks)]
      BY <2>1, <2>2 DEF TypeThreads
    <2>4. alive' \in [Runtimes -> BOOLEAN]
      BY <1>14 DEF RunForeground, TypeThreads
    <2> QED BY <2>1, <2>3, <2>4 DEF TypeThreads
  <1>15. ASSUME NEW r \in Runtimes, BatchDone(r) PROVE TypeThreads'
    BY <1>15 DEF BatchDone, TypeThreads, TypeIsolates
  <1>16. ASSUME NEW r \in Runtimes, LoopReturns(r) PROVE TypeThreads'
    BY <1>16 DEF LoopReturns, TypeThreads, TypeIsolates
  <1>17. ASSUME NEW r \in Runtimes, WaitDrain(r) PROVE TypeThreads'
    BY <1>17 DEF WaitDrain, TypeThreads, TypeIsolates
  <1>18. ASSUME NEW r \in Runtimes, DrainForeground(r) PROVE TypeThreads'
    BY <1>18 DEF DrainForeground, TakeAll, AfterWork, TypeThreads,
       TypeIsolates
  <1>19. ASSUME NEW r \in Runtimes, PerformTasksCheckpoint(r)
        PROVE  TypeThreads'
    BY <1>19 DEF PerformTasksCheckpoint, TypeThreads, TypeIsolates
  <1>20. ASSUME NEW r \in Runtimes, UnregisterIsolate(r) PROVE TypeThreads'
    BY <1>20 DEF UnregisterIsolate, TypeThreads, TypeIsolates
  <1>21. ASSUME NEW r \in Runtimes, DisposeIsolate(r) PROVE TypeThreads'
    BY <1>21 DEF DisposeIsolate, TypeThreads, TypeIsolates
  <1>22. ASSUME NEW i \in Runtimes, OnTaskNotified(i) PROVE TypeThreads'
    BY <1>22, MainAssumption DEF OnTaskNotified, TakeAll, TypeThreads,
       TypeIsolates
  <1>23. CASE DisposeScheduler
    BY <1>23, MainAssumption DEF DisposeScheduler, TypeThreads, TypeIsolates
  <1>24. CASE DisposePool
    BY <1>24, MainAssumption DEF DisposePool, TypeThreads, TypeIsolates
  <1>25. CASE PoolDestroyed
    BY <1>25, MainAssumption DEF PoolDestroyed, TypeThreads, TypeIsolates
  <1>26. CASE UNCHANGED vars
    BY <1>26 DEF vars, TypeThreads
  <1> QED
    BY <1>1, <1>2, <1>3, <1>4, <1>5, <1>6, <1>7, <1>8, <1>9, <1>10, <1>11,
       <1>12, <1>13, <1>14, <1>15, <1>16, <1>17, <1>18, <1>19, <1>20, <1>21,
       <1>22, <1>23, <1>24, <1>25, <1>26
       DEF PlatformStep, WorkerStep, SchedulerStep, ThreadProgress, Shutdown

(* Nothing of the platform runs once the main thread has destroyed it.       *)
LEMMA EndStep ==
    ASSUME TypeBorn, TypePool, TypeScheduler, TypeIsolates, TypeThreads,
           EndPhases, [PlatformStep]_vars
    PROVE  EndPhases'
  <1>1. ASSUME NEW w \in Workers, WaitPop(w) PROVE EndPhases'
    BY <1>1, MainAssumption DEF WaitPop, Pop, EndPhases, Ending, TypeThreads
  <1>2. ASSUME NEW w \in Workers, TaskPosts(w) PROVE EndPhases'
    <2>1. Posted
      BY <1>2, TaskPostsPosts
    <2>2. UNCHANGED <<pc, worker>>
      BY <1>2 DEF TaskPosts
    <2> QED BY <2>1, <2>2, MainAssumption DEF EndPhases, Ending, Posted
  <1>3. ASSUME NEW w \in Workers, TaskPostsForeground(w) PROVE EndPhases'
    BY <1>3, MainAssumption DEF TaskPostsForeground, Bear, Unborn, EndPhases,
       Ending, TypeThreads
  <1>4. ASSUME NEW w \in Workers, TaskPushesForeground(w) PROVE EndPhases'
    <2>1. Posted
      BY <1>4, TaskPushesPosts
    <2>2. /\ UNCHANGED pc /\ worker[w] = "posting"
          /\ worker' = [worker EXCEPT ![w] = "running"]
      BY <1>4 DEF TaskPushesForeground
    <2>3. pc[Main] # "gone"
      BY <2>2 DEF EndPhases
    <2> QED BY <2>1, <2>2, <2>3, MainAssumption DEF EndPhases, Ending, Posted
  <1>5. ASSUME NEW w \in Workers, NotifyOfCompletion(w) PROVE EndPhases'
    BY <1>5, MainAssumption DEF NotifyOfCompletion, CountDown, EndPhases,
       Ending, TypeThreads
  <1>6. ASSUME NEW w \in Workers, WorkerExits(w) PROVE EndPhases'
    BY <1>6, MainAssumption DEF WorkerExits, EndPhases, Ending, TypeThreads
  <1>7. CASE TaskNotified
    BY <1>7, MainAssumption DEF TaskNotified, EndPhases, Ending, TypeThreads
  <1>8. CASE StartTimer
    BY <1>8, MainAssumption DEF StartTimer, EndPhases, Ending, TypeThreads
  <1>9. CASE CloseHandles
    BY <1>9, MainAssumption DEF CloseHandles, CloseNotifier, EndPhases,
       Ending, TypeThreads
  <1>10. CASE PoppedAll
    BY <1>10, MainAssumption DEF PoppedAll, EndPhases, Ending, TypeThreads
  <1>11. ASSUME NEW t \in Tasks, OnTimerExpired(t) PROVE EndPhases'
    BY <1>11, MainAssumption DEF OnTimerExpired, CountUp, ForgetTimer,
       EndPhases, Ending, TypeThreads
  <1>12. CASE SchedulerExits
    BY <1>12, MainAssumption DEF SchedulerExits, EndPhases, Ending,
       TypeThreads
  <1>13. ASSUME NEW r \in Runtimes, LoopEvent(r) PROVE EndPhases'
    BY <1>13, MainAssumption DEF LoopEvent, EndPhases, Ending, TypeThreads
  <1>14. ASSUME NEW r \in Runtimes, RunForeground(r) PROVE EndPhases'
    BY <1>14, MainAssumption DEF RunForeground, EndPhases, Ending, TypeThreads
  <1>15. ASSUME NEW r \in Runtimes, BatchDone(r) PROVE EndPhases'
    BY <1>15, MainAssumption DEF BatchDone, EndPhases, Ending, TypeThreads
  <1>16. ASSUME NEW r \in Runtimes, LoopReturns(r) PROVE EndPhases'
    BY <1>16, MainAssumption DEF LoopReturns, EndPhases, Ending, TypeThreads
  <1>17. ASSUME NEW r \in Runtimes, WaitDrain(r) PROVE EndPhases'
    BY <1>17, MainAssumption DEF WaitDrain, EndPhases, Ending, TypeThreads
  <1>18. ASSUME NEW r \in Runtimes, DrainForeground(r) PROVE EndPhases'
    BY <1>18, MainAssumption DEF DrainForeground, TakeAll, AfterWork,
       EndPhases, Ending, TypeThreads
  <1>19. ASSUME NEW r \in Runtimes, PerformTasksCheckpoint(r) PROVE EndPhases'
    BY <1>19, MainAssumption DEF PerformTasksCheckpoint, EndPhases, Ending,
       TypeThreads
  <1>20. ASSUME NEW r \in Runtimes, UnregisterIsolate(r) PROVE EndPhases'
    BY <1>20, MainAssumption DEF UnregisterIsolate, EndPhases, Ending,
       TypeThreads
  <1>21. ASSUME NEW r \in Runtimes, DisposeIsolate(r) PROVE EndPhases'
    <2>1. pc[r] = "teardown" /\ pc' = [pc EXCEPT ![r] = "disposed"] /\ UNCHANGED <<schedPc, worker>>
      BY <1>21 DEF DisposeIsolate
    <2> QED BY <2>1, MainAssumption DEF EndPhases, Ending, TypeThreads
  <1>22. ASSUME NEW i \in Runtimes, OnTaskNotified(i) PROVE EndPhases'
    BY <1>22, MainAssumption DEF OnTaskNotified, TakeAll, EndPhases, Ending,
       TypeThreads
  <1>23. CASE DisposeScheduler
    BY <1>23, MainAssumption DEF DisposeScheduler, EndPhases, Ending,
       TypeThreads
  <1>24. CASE DisposePool
    BY <1>24, MainAssumption DEF DisposePool, EndPhases, Ending, TypeThreads
  <1>25. CASE PoolDestroyed
    BY <1>25, MainAssumption DEF PoolDestroyed, EndPhases, Ending, TypeThreads
  <1>26. CASE UNCHANGED vars
    BY <1>26 DEF vars, EndPhases
  <1> QED
    BY <1>1, <1>2, <1>3, <1>4, <1>5, <1>6, <1>7, <1>8, <1>9, <1>10, <1>11,
       <1>12, <1>13, <1>14, <1>15, <1>16, <1>17, <1>18, <1>19, <1>20, <1>21,
       <1>22, <1>23, <1>24, <1>25, <1>26
       DEF PlatformStep, WorkerStep, SchedulerStep, ThreadProgress, Shutdown

-------------------------------------------------------------------------------
(* The workers that hold a task are finitely many.                           *)
LEMMA BusyFinite == IsFiniteSet(Busy) /\ Cardinality(Busy) \in Nat
  BY FinitePool, FS_Subset, FS_CardinalityType DEF Busy

(* A worker that takes a task is one more busy worker.                       *)
LEMMA BusyMore ==
    ASSUME TypePool, NEW w \in Workers, NEW t \in Tasks, held[w] = NoTask,
           held' = [held EXCEPT ![w] = t]
    PROVE  Cardinality(Busy') = Cardinality(Busy) + 1
  <1>1. Busy' = Busy \cup {w} /\ w \notin Busy
    BY NoTaskAssumption DEF Busy, TypePool
  <1> QED BY <1>1, BusyFinite, FS_AddElement

(* A worker that is done is one fewer.                                       *)
LEMMA BusyLess ==
    ASSUME TypePool, NEW w \in Workers, held[w] # NoTask,
           held' = [held EXCEPT ![w] = NoTask]
    PROVE  Cardinality(Busy') = Cardinality(Busy) - 1
  <1>1. Busy' = Busy \ {w} /\ w \in Busy
    BY DEF Busy, TypePool
  <1> QED BY <1>1, BusyFinite, FS_RemoveElement

(* The count of outstanding tasks stays exact.                               *)
LEMMA CountStep ==
    ASSUME TypeBorn, TypePool, TypeScheduler, TypeIsolates, TypeThreads,
           EndPhases, OutstandingExact, outstanding \in Nat, [PlatformStep]_vars
    PROVE  OutstandingExact' /\ outstanding' \in Nat
  <1>1. ASSUME NEW w \in Workers, WaitPop(w)
        PROVE  OutstandingExact' /\ outstanding' \in Nat
    <2>1. pc[Main] # "gone"
      BY <1>1, MainAssumption DEF WaitPop, EndPhases, Ending
    <2>2. Len(poolQueue) \in Nat /\ outstanding = Len(poolQueue) + Cardinality(Busy)
      BY <2>1 DEF OutstandingExact, TypePool
    <2>3. /\ held[w] = NoTask /\ poolQueue # <<>>
          /\ held' = [held EXCEPT ![w] = Head(poolQueue)]
          /\ poolQueue' = Tail(poolQueue) /\ outstanding' = outstanding
      BY <1>1 DEF WaitPop, Pop, TypePool
    <2>4. Head(poolQueue) \in Tasks /\ Len(Tail(poolQueue)) = Len(poolQueue) - 1
      BY <2>3 DEF TypePool
    <2>5. outstanding' = Len(poolQueue') + Cardinality(Busy') /\ outstanding' \in Nat
      <3>1. Cardinality(Busy') = Cardinality(Busy) + 1
        BY <2>3, <2>4, BusyMore
      <3> QED BY <2>2, <2>3, <2>4, <3>1, BusyFinite
    <2> QED BY <2>2, <2>5, BusyFinite DEF OutstandingExact
  <1>2. ASSUME NEW w \in Workers, TaskPosts(w)
        PROVE  OutstandingExact' /\ outstanding' \in Nat
    <2>1. Posted
      BY <1>2, TaskPostsPosts DEF TaskPosts
    <2>2. UNCHANGED held /\ (pc'[Main] # "gone" => pc[Main] # "gone")
      BY <1>2, MainAssumption DEF TaskPosts, TypeThreads
    <2>3. Busy' = Busy
      BY <2>2 DEF Busy
    <2>4. pc[Main] # "gone"
      BY <1>2, MainAssumption DEF TaskPosts, EndPhases, Ending, TypePool
    <2>5. Len(poolQueue) \in Nat /\ outstanding = Len(poolQueue) + Cardinality(Busy)
      BY <2>4 DEF OutstandingExact, TypePool
    <2>6. outstanding' = Len(poolQueue') + Cardinality(Busy)
      BY <2>1, <2>5, BusyFinite DEF Posted
    <2> QED BY <2>3, <2>5, <2>6, BusyFinite DEF OutstandingExact, Posted
  <1>3. ASSUME NEW w \in Workers, TaskPostsForeground(w)
        PROVE  OutstandingExact' /\ outstanding' \in Nat
    <2>1. UNCHANGED <<held, poolQueue, outstanding>>
      BY <1>3 DEF TaskPostsForeground
    <2>2. pc[Main] = "gone" => pc'[Main] = "gone"
      BY <1>3, MainAssumption DEF TaskPostsForeground, TypeThreads, Bear, Unborn
    <2>3. Busy' = Busy
      BY <2>1 DEF Busy
    <2> QED BY <2>1, <2>2, <2>3 DEF OutstandingExact
  <1>4. ASSUME NEW w \in Workers, TaskPushesForeground(w)
        PROVE  OutstandingExact' /\ outstanding' \in Nat
    <2>1. Posted
      BY <1>4, TaskPushesPosts DEF TaskPushesForeground
    <2>2. UNCHANGED held /\ (pc'[Main] # "gone" => pc[Main] # "gone")
      BY <1>4, MainAssumption DEF TaskPushesForeground, TypeThreads
    <2>3. Busy' = Busy
      BY <2>2 DEF Busy
    <2>4. pc[Main] # "gone"
      BY <1>4, MainAssumption DEF TaskPushesForeground, EndPhases, Ending, TypePool
    <2>5. Len(poolQueue) \in Nat /\ outstanding = Len(poolQueue) + Cardinality(Busy)
      BY <2>4 DEF OutstandingExact, TypePool
    <2>6. outstanding' = Len(poolQueue') + Cardinality(Busy)
      BY <2>1, <2>5, BusyFinite DEF Posted
    <2> QED BY <2>3, <2>5, <2>6, BusyFinite DEF OutstandingExact, Posted
  <1>5. ASSUME NEW w \in Workers, NotifyOfCompletion(w)
        PROVE  OutstandingExact' /\ outstanding' \in Nat
    <2>1. pc[Main] # "gone"
      BY <1>5, MainAssumption DEF NotifyOfCompletion, EndPhases, Ending
    <2>2. Len(poolQueue) \in Nat /\ outstanding = Len(poolQueue) + Cardinality(Busy)
      BY <2>1 DEF OutstandingExact, TypePool
    <2>3. /\ held[w] # NoTask /\ held' = [held EXCEPT ![w] = NoTask]
          /\ poolQueue' = poolQueue /\ outstanding' = outstanding - 1
      BY <1>5 DEF NotifyOfCompletion, CountDown, TypePool
    <2>4. Cardinality(Busy') = Cardinality(Busy) - 1 /\ w \in Busy
      BY <2>3, BusyLess DEF Busy
    <2>5. outstanding' = Len(poolQueue') + Cardinality(Busy') /\ outstanding' \in Nat
      <3>1. Cardinality(Busy) # 0
        BY <2>4, BusyFinite, FS_EmptySet
      <3> QED BY <2>2, <2>3, <2>4, <3>1, BusyFinite
    <2> QED BY <2>2, <2>5, BusyFinite DEF OutstandingExact
  <1>6. ASSUME NEW w \in Workers, WorkerExits(w)
        PROVE  OutstandingExact' /\ outstanding' \in Nat
    <2>1. UNCHANGED <<held, poolQueue, outstanding>>
      BY <1>6 DEF WorkerExits
    <2>2. pc[Main] = "gone" => pc'[Main] = "gone"
      BY <1>6, MainAssumption DEF WorkerExits, TypeThreads
    <2>3. Busy' = Busy
      BY <2>1 DEF Busy
    <2> QED BY <2>1, <2>2, <2>3 DEF OutstandingExact
  <1>7. CASE TaskNotified
    <2>1. UNCHANGED <<held, poolQueue, outstanding>>
      BY <1>7 DEF TaskNotified
    <2>2. pc[Main] = "gone" => pc'[Main] = "gone"
      BY <1>7, MainAssumption DEF TaskNotified, TypeThreads
    <2>3. Busy' = Busy
      BY <2>1 DEF Busy
    <2> QED BY <2>1, <2>2, <2>3 DEF OutstandingExact
  <1>8. CASE StartTimer
    <2>1. UNCHANGED <<held, poolQueue, outstanding>>
      BY <1>8 DEF StartTimer
    <2>2. pc[Main] = "gone" => pc'[Main] = "gone"
      BY <1>8, MainAssumption DEF StartTimer, TypeThreads
    <2>3. Busy' = Busy
      BY <2>1 DEF Busy
    <2> QED BY <2>1, <2>2, <2>3 DEF OutstandingExact
  <1>9. CASE CloseHandles
    <2>1. UNCHANGED <<held, poolQueue, outstanding>>
      BY <1>9 DEF CloseHandles
    <2>2. pc[Main] = "gone" => pc'[Main] = "gone"
      BY <1>9, MainAssumption DEF CloseHandles, TypeThreads, CloseNotifier
    <2>3. Busy' = Busy
      BY <2>1 DEF Busy
    <2> QED BY <2>1, <2>2, <2>3 DEF OutstandingExact
  <1>10. CASE PoppedAll
    <2>1. UNCHANGED <<held, poolQueue, outstanding>>
      BY <1>10 DEF PoppedAll
    <2>2. pc[Main] = "gone" => pc'[Main] = "gone"
      BY <1>10, MainAssumption DEF PoppedAll, TypeThreads
    <2>3. Busy' = Busy
      BY <2>1 DEF Busy
    <2> QED BY <2>1, <2>2, <2>3 DEF OutstandingExact
  <1>11. ASSUME NEW t \in Tasks, OnTimerExpired(t)
        PROVE  OutstandingExact' /\ outstanding' \in Nat
    <2>1. pc[Main] # "gone"
      BY <1>11, MainAssumption DEF OnTimerExpired, EndPhases, Ending
    <2>2. Len(poolQueue) \in Nat /\ outstanding = Len(poolQueue) + Cardinality(Busy)
      BY <2>1 DEF OutstandingExact, TypePool
    <2>3. /\ held' = held /\ poolQueue' = Append(poolQueue, t)
          /\ outstanding' = outstanding + 1
      BY <1>11 DEF OnTimerExpired, CountUp
    <2>4. Busy' = Busy /\ Len(poolQueue') = Len(poolQueue) + 1
      BY <2>3 DEF Busy, TypePool
    <2>6. \A a, b \in Nat : a + b \in Nat /\ (a + b) + 1 = (a + 1) + b /\ (a + b) + 1 \in Nat
      OBVIOUS
    <2>5. outstanding' = Len(poolQueue') + Cardinality(Busy') /\ outstanding' \in Nat
      BY <2>2, <2>3, <2>4, <2>6, BusyFinite, Zenon
    <2> QED BY <2>2, <2>5, BusyFinite DEF OutstandingExact
  <1>12. CASE SchedulerExits
    <2>1. UNCHANGED <<held, poolQueue, outstanding>>
      BY <1>12 DEF SchedulerExits
    <2>2. pc[Main] = "gone" => pc'[Main] = "gone"
      BY <1>12, MainAssumption DEF SchedulerExits, TypeThreads
    <2>3. Busy' = Busy
      BY <2>1 DEF Busy
    <2> QED BY <2>1, <2>2, <2>3 DEF OutstandingExact
  <1>13. ASSUME NEW r \in Runtimes, LoopEvent(r)
        PROVE  OutstandingExact' /\ outstanding' \in Nat
    <2>1. Posted
      BY <1>13, PostFromPosts DEF LoopEvent
    <2>2. UNCHANGED held /\ (pc'[Main] # "gone" => pc[Main] # "gone")
      BY <1>13, MainAssumption DEF LoopEvent, TypeThreads
    <2>3. Busy' = Busy
      BY <2>2 DEF Busy
    <2>4. pc[Main] # "gone"
      BY <1>13, MainAssumption DEF LoopEvent, EndPhases, Ending, TypePool
    <2>5. Len(poolQueue) \in Nat /\ outstanding = Len(poolQueue) + Cardinality(Busy)
      BY <2>4 DEF OutstandingExact, TypePool
    <2>6. outstanding' = Len(poolQueue') + Cardinality(Busy)
      BY <2>1, <2>5, BusyFinite DEF Posted
    <2> QED BY <2>3, <2>5, <2>6, BusyFinite DEF OutstandingExact, Posted
  <1>14. ASSUME NEW r \in Runtimes, RunForeground(r)
        PROVE  OutstandingExact' /\ outstanding' \in Nat
    <2>1. Posted
      BY <1>14, RunForegroundPosts DEF RunForeground
    <2>2. UNCHANGED held /\ (pc'[Main] # "gone" => pc[Main] # "gone")
      BY <1>14, MainAssumption DEF RunForeground, TypeThreads
    <2>3. Busy' = Busy
      BY <2>2 DEF Busy
    <2>4. pc[Main] # "gone"
      BY <1>14, MainAssumption DEF RunForeground, EndPhases, Ending, TypePool
    <2>5. Len(poolQueue) \in Nat /\ outstanding = Len(poolQueue) + Cardinality(Busy)
      BY <2>4 DEF OutstandingExact, TypePool
    <2>6. outstanding' = Len(poolQueue') + Cardinality(Busy)
      BY <2>1, <2>5, BusyFinite DEF Posted
    <2> QED BY <2>3, <2>5, <2>6, BusyFinite DEF OutstandingExact, Posted
  <1>15. ASSUME NEW r \in Runtimes, BatchDone(r)
        PROVE  OutstandingExact' /\ outstanding' \in Nat
    <2>1. UNCHANGED <<held, poolQueue, outstanding>>
      BY <1>15 DEF BatchDone
    <2>2. pc[Main] = "gone" => pc'[Main] = "gone"
      BY <1>15, MainAssumption DEF BatchDone, TypeThreads
    <2>3. Busy' = Busy
      BY <2>1 DEF Busy
    <2> QED BY <2>1, <2>2, <2>3 DEF OutstandingExact
  <1>16. ASSUME NEW r \in Runtimes, LoopReturns(r)
        PROVE  OutstandingExact' /\ outstanding' \in Nat
    <2>1. UNCHANGED <<held, poolQueue, outstanding>>
      BY <1>16 DEF LoopReturns
    <2>2. pc[Main] = "gone" => pc'[Main] = "gone"
      BY <1>16, MainAssumption DEF LoopReturns, TypeThreads
    <2>3. Busy' = Busy
      BY <2>1 DEF Busy
    <2> QED BY <2>1, <2>2, <2>3 DEF OutstandingExact
  <1>17. ASSUME NEW r \in Runtimes, WaitDrain(r)
        PROVE  OutstandingExact' /\ outstanding' \in Nat
    <2>1. UNCHANGED <<held, poolQueue, outstanding>>
      BY <1>17 DEF WaitDrain
    <2>2. pc[Main] = "gone" => pc'[Main] = "gone"
      BY <1>17, MainAssumption DEF WaitDrain, TypeThreads
    <2>3. Busy' = Busy
      BY <2>1 DEF Busy
    <2> QED BY <2>1, <2>2, <2>3 DEF OutstandingExact
  <1>18. ASSUME NEW r \in Runtimes, DrainForeground(r)
        PROVE  OutstandingExact' /\ outstanding' \in Nat
    <2>1. UNCHANGED <<held, poolQueue, outstanding>>
      BY <1>18 DEF DrainForeground
    <2>2. pc[Main] = "gone" => pc'[Main] = "gone"
      BY <1>18, MainAssumption DEF DrainForeground, TypeThreads, TakeAll, AfterWork
    <2>3. Busy' = Busy
      BY <2>1 DEF Busy
    <2> QED BY <2>1, <2>2, <2>3 DEF OutstandingExact
  <1>19. ASSUME NEW r \in Runtimes, PerformTasksCheckpoint(r)
        PROVE  OutstandingExact' /\ outstanding' \in Nat
    <2>1. Posted
      BY <1>19, PostFromPosts DEF PerformTasksCheckpoint
    <2>2. UNCHANGED held /\ (pc'[Main] # "gone" => pc[Main] # "gone")
      BY <1>19, MainAssumption DEF PerformTasksCheckpoint, TypeThreads
    <2>3. Busy' = Busy
      BY <2>2 DEF Busy
    <2>4. pc[Main] # "gone"
      BY <1>19, MainAssumption DEF PerformTasksCheckpoint, EndPhases, Ending, TypePool
    <2>5. Len(poolQueue) \in Nat /\ outstanding = Len(poolQueue) + Cardinality(Busy)
      BY <2>4 DEF OutstandingExact, TypePool
    <2>6. outstanding' = Len(poolQueue') + Cardinality(Busy)
      BY <2>1, <2>5, BusyFinite DEF Posted
    <2> QED BY <2>3, <2>5, <2>6, BusyFinite DEF OutstandingExact, Posted
  <1>20. ASSUME NEW r \in Runtimes, UnregisterIsolate(r)
        PROVE  OutstandingExact' /\ outstanding' \in Nat
    <2>1. UNCHANGED <<held, poolQueue, outstanding>>
      BY <1>20 DEF UnregisterIsolate
    <2>2. pc[Main] = "gone" => pc'[Main] = "gone"
      BY <1>20, MainAssumption DEF UnregisterIsolate, TypeThreads
    <2>3. Busy' = Busy
      BY <2>1 DEF Busy
    <2> QED BY <2>1, <2>2, <2>3 DEF OutstandingExact
  <1>21. ASSUME NEW r \in Runtimes, DisposeIsolate(r)
        PROVE  OutstandingExact' /\ outstanding' \in Nat
    <2>1. UNCHANGED <<held, poolQueue, outstanding>>
      BY <1>21 DEF DisposeIsolate
    <2>2. pc[Main] = "gone" => pc'[Main] = "gone"
      BY <1>21, MainAssumption DEF DisposeIsolate, TypeThreads
    <2>3. Busy' = Busy
      BY <2>1 DEF Busy
    <2> QED BY <2>1, <2>2, <2>3 DEF OutstandingExact
  <1>22. ASSUME NEW i \in Runtimes, OnTaskNotified(i)
        PROVE  OutstandingExact' /\ outstanding' \in Nat
    <2>1. UNCHANGED <<held, poolQueue, outstanding>>
      BY <1>22 DEF OnTaskNotified
    <2>2. pc[Main] = "gone" => pc'[Main] = "gone"
      BY <1>22, MainAssumption DEF OnTaskNotified, TypeThreads, TakeAll
    <2>3. Busy' = Busy
      BY <2>1 DEF Busy
    <2> QED BY <2>1, <2>2, <2>3 DEF OutstandingExact
  <1>23. CASE DisposeScheduler
    <2>1. UNCHANGED <<held, poolQueue, outstanding>>
      BY <1>23 DEF DisposeScheduler
    <2>2. pc[Main] = "gone" => pc'[Main] = "gone"
      BY <1>23, MainAssumption DEF DisposeScheduler, TypeThreads
    <2>3. Busy' = Busy
      BY <2>1 DEF Busy
    <2> QED BY <2>1, <2>2, <2>3 DEF OutstandingExact
  <1>24. CASE DisposePool
    <2>1. UNCHANGED <<held, poolQueue, outstanding>>
      BY <1>24 DEF DisposePool
    <2>2. pc[Main] = "gone" => pc'[Main] = "gone"
      BY <1>24, MainAssumption DEF DisposePool, TypeThreads
    <2>3. Busy' = Busy
      BY <2>1 DEF Busy
    <2> QED BY <2>1, <2>2, <2>3 DEF OutstandingExact
  <1>25. CASE PoolDestroyed
    <2>1. pc'[Main] = "gone" /\ outstanding' = outstanding
      BY <1>25, MainAssumption DEF PoolDestroyed, TypeThreads
    <2> QED BY <2>1 DEF OutstandingExact
  <1>26. CASE UNCHANGED vars
    <2>1. UNCHANGED <<held, poolQueue, outstanding>>
      BY <1>26 DEF vars
    <2>2. pc[Main] = "gone" => pc'[Main] = "gone"
      BY <1>26, MainAssumption DEF vars, TypeThreads
    <2>3. Busy' = Busy
      BY <2>1 DEF Busy
    <2> QED BY <2>1, <2>2, <2>3 DEF OutstandingExact
  <1> QED
    BY <1>1, <1>2, <1>3, <1>4, <1>5, <1>6, <1>7, <1>8, <1>9, <1>10, <1>11,
       <1>12, <1>13, <1>14, <1>15, <1>16, <1>17, <1>18, <1>19, <1>20, <1>21,
       <1>22, <1>23, <1>24, <1>25, <1>26
       DEF PlatformStep, WorkerStep, SchedulerStep, ThreadProgress, Shutdown

(* A task that is in no place leaves the queues and the threads alone.       *)
LEMMA ReuseStep ==
    ASSUME IndInv, NEW t \in Reused, Reuse(t)
    PROVE  IndInv'
  <1>1. /\ TypeBorn /\ TypePool /\ TypeScheduler /\ TypeIsolates /\ TypeThreads
        /\ outstanding \in Nat /\ EndPhases /\ OutstandingExact
    BY Zenon DEF IndInv, TypeOK
  <1>2. TypeBorn'
    BY <1>1, ReusedAssumption DEF Reuse, TypeBorn
  <1>3. TypePool' /\ TypeScheduler' /\ TypeIsolates' /\ TypeThreads'
    <2>1. TypePool' /\ TypeScheduler'
      BY <1>1 DEF Reuse, TypePool, TypeScheduler
    <2>2. TypeIsolates' /\ TypeThreads'
      BY <1>1 DEF Reuse, TypeIsolates, TypeThreads
    <2> QED BY <2>1, <2>2
  <1>4. EndPhases'
    BY <1>1 DEF Reuse, EndPhases
  <1>5. OutstandingExact' /\ outstanding' \in Nat
    BY <1>1 DEF Reuse, OutstandingExact, Busy
  <1> QED BY <1>2, <1>3, <1>4, <1>5, Zenon DEF IndInv, TypeOK

(* The state the platform is made in satisfies the invariant.                *)
LEMMA InitialTypes == Init => IndInv
  <1> SUFFICES ASSUME Init PROVE IndInv
    OBVIOUS
  <1>1. <<>> \in Seq(Tasks) /\ <<>> \in Seq(Commands)
    OBVIOUS
  <1>2. TypeBorn
    BY DEF Init, TypeBorn
  <1>3. TypeScheduler
    BY <1>1 DEF Init, TypeScheduler
  <1>4. TypeBorn /\ TypeScheduler
    BY <1>2, <1>3
  <1>5. TypePool /\ outstanding \in Nat
    BY <1>1 DEF Init, TypePool
  <1>6. TypeIsolates /\ TypeThreads
    BY DEF Init, TypeIsolates, TypeThreads
  <1>7. EndPhases
    BY MainAssumption DEF Init, EndPhases, Ending
  <1>8. OutstandingExact
    <2>1. Busy = {}
      BY DEF Init, Busy
    <2> QED BY <2>1, FS_EmptySet DEF Init, OutstandingExact
  <1> QED BY <1>4, <1>5, <1>6, <1>7, <1>8 DEF IndInv, TypeOK

(* Every step keeps it.                                                      *)
LEMMA InductiveStep == IndInv /\ [Next]_vars => IndInv'
  <1> SUFFICES ASSUME IndInv, [PlatformStep]_vars PROVE IndInv'
    BY ReuseStep, Zenon DEF Next
  <1>1. /\ TypeBorn /\ TypePool /\ TypeScheduler /\ TypeIsolates /\ TypeThreads
        /\ outstanding \in Nat /\ EndPhases /\ OutstandingExact
    BY Zenon DEF IndInv, TypeOK
  <1>2. TypeBorn' /\ TypeScheduler' /\ TypeIsolates'
    BY <1>1, QueuesStep, Zenon
  <1>3. TypePool' /\ TypeThreads'
    BY <1>1, PoolStep, ThreadsStep, Zenon
  <1>4. EndPhases'
    BY <1>1, EndStep, Zenon
  <1>5. OutstandingExact' /\ outstanding' \in Nat
    BY <1>1, CountStep, Zenon
  <1> QED BY <1>2, <1>3, <1>4, <1>5, Zenon DEF IndInv, TypeOK

(* The initial state and every step satisfy the inductive invariant.         *)
LEMMA Inductive == Spec => []IndInv
  BY InitialTypes, InductiveStep, PTL DEF Spec

(* The queues, the pool's threads, the scheduler and the JavaScript threads  *)
(* have the types of TypeOK; a worker holds a task exactly while it runs it. *)
THEOREM TypeCorrect == Spec => []TypeOK
  BY Inductive, PTL DEF IndInv

(* outstanding_tasks_ is the number of tasks in the pool's queue or in a     *)
(* worker's hands until the pool is gone, so WaitDrain never sleeps on an    *)
(* idle pool nor returns from a busy one.                                    *)
THEOREM CountIsExact == Spec => []OutstandingExact
  BY Inductive, PTL DEF IndInv

================================================================================
