-------------------------- MODULE TaskOwnershipProofs --------------------------
(***************************************************************************)
(* TLAPS proofs about the tasks of gallium::Platform, for any number of    *)
(* threads, isolates and tasks: a task has one owner, and DrainTasks leaves *)
(* nothing behind.  A step drops tasks, moves one or a whole queue, or adds *)
(* a new task, and what it does to each place proves OwnedOnce.            *)
(***************************************************************************)
EXTENDS PlatformTasksProofs

USE DEF poolVars, schedVars, isolateVars, threadVars, bornVars

AnyTask == Tasks \cup {NoTask}

(* No task but NoTask is twice in a sequence.                                *)
Distinct(s) == \A i, j \in DOMAIN s : s[i] = s[j] => i = j \/ s[i] = NoTask

(* What a place that gains no task has after a step.                         *)
Less(c, d) ==
    \/ d = c \/ d = <<>> \/ d = <<NoTask>> \/ d = Append(c, NoTask)
    \/ c # <<>> /\ d = Tail(c)

(* What a place that gains task x has.                                       *)
More(c, d, x) == d = Append(c, x) \/ d = <<x>>

(* A task in a place was posted for some isolate.                            *)
Born == \A l \in Places : Inside(l) \cap Unborn = {}

-------------------------------------------------------------------------------
(* Sequences of tasks.                                                       *)

(* What a sequence holds after an append or without its head.                *)
LEMMA RangeOf ==
    ASSUME NEW S, NEW s \in Seq(S), NEW x
    PROVE  /\ Range(Append(s, x)) = Range(s) \cup {x}
           /\ s # <<>> => Head(s) \in Range(s) /\ Range(Tail(s)) \subseteq Range(s)
           /\ s # <<>> => Range(s) = {Head(s)} \cup Range(Tail(s))
           /\ Range(s) \subseteq S
  <1>1. Range(Append(s, x)) = Range(s) \cup {x}
    <2>1. /\ DOMAIN Append(s, x) = DOMAIN s \cup {Len(s) + 1}
          /\ Append(s, x)[Len(s) + 1] = x
          /\ \A i \in DOMAIN s : Append(s, x)[i] = s[i]
      OBVIOUS
    <2> QED BY <2>1, Zenon DEF Range
  <1>2. ASSUME s # <<>> PROVE Range(s) = {Head(s)} \cup Range(Tail(s))
    <2>1. /\ 1 \in DOMAIN s /\ s[1] = Head(s)
          /\ \A i \in DOMAIN Tail(s) : i + 1 \in DOMAIN s /\ Tail(s)[i] = s[i + 1]
          /\ \A i \in DOMAIN s : i = 1 \/ (i - 1 \in DOMAIN Tail(s) /\ Tail(s)[i - 1] = s[i])
      BY <1>2
    <2>2. \A i \in DOMAIN s : s[i] \in {Head(s)} \cup Range(Tail(s))
      BY <2>1 DEF Range
    <2>3. Head(s) \in Range(s) /\ \A i \in DOMAIN Tail(s) : Tail(s)[i] \in Range(s)
      BY <2>1, Zenon DEF Range
    <2> QED BY <2>2, <2>3 DEF Range
  <1>3. Range(s) \subseteq S
    BY DEF Range
  <1> QED BY <1>1, <1>2, <1>3

(* What the sequences of no and one element hold.                            *)
LEMMA RangeOne == \A x : Range(<<x>>) = {x} /\ Range(<<>>) = {}
  BY DEF Range

(* A place that gains nothing keeps its tasks distinct.                      *)
LEMMA LessKeeps ==
    ASSUME NEW c \in Seq(AnyTask), NEW d, Less(c, d), Distinct(c)
    PROVE  /\ Distinct(d) /\ d \in Seq(AnyTask)
           /\ Range(d) \ {NoTask} \subseteq Range(c) \ {NoTask}
  <1>1. CASE d = c
    BY <1>1
  <1>2. CASE d = <<>>
    BY <1>2, RangeOne DEF Distinct
  <1>3. CASE d = <<NoTask>>
    BY <1>3, RangeOne DEF Distinct, AnyTask
  <1>4. CASE d = Append(c, NoTask)
    <2>1. d \in Seq(AnyTask)
      BY <1>4 DEF AnyTask
    <2>2. Distinct(d)
      BY <1>4 DEF Distinct
    <2> QED BY <1>4, <2>1, <2>2, RangeOf
  <1>5. CASE c # <<>> /\ d = Tail(c)
    <2>1. Distinct(d) /\ d \in Seq(AnyTask)
      BY <1>5 DEF Distinct
    <2> QED BY <1>5, <2>1, RangeOf
  <1> QED BY <1>1, <1>2, <1>3, <1>4, <1>5 DEF Less

(* A task that was not in a place is there once when it arrives.             *)
LEMMA MoreKeeps ==
    ASSUME NEW c \in Seq(AnyTask), NEW d, NEW x \in Tasks, More(c, d, x), Distinct(c),
           x \notin Range(c) \ {NoTask}
    PROVE  Distinct(d) /\ Range(d) \ {NoTask} \subseteq (Range(c) \ {NoTask}) \cup {x}
  <1>1. CASE d = <<x>>
    BY <1>1, RangeOne DEF Distinct
  <1>2. CASE d = Append(c, x)
    <2>1. x \notin Range(c)
      BY NoTaskAssumption
    <2>2. Distinct(d)
      <3>1. \A i \in DOMAIN c : c[i] # x
        BY <2>1 DEF Range
      <3> QED BY <1>2, <3>1 DEF Distinct
    <2> QED BY <1>2, <2>2, RangeOf
  <1> QED BY <1>1, <1>2 DEF More

(* The task popped from a queue is in it no more.                            *)
LEMMA HeadLeaves ==
    ASSUME NEW c \in Seq(AnyTask), c # <<>>, Distinct(c), Head(c) # NoTask
    PROVE  Head(c) \notin Range(Tail(c))
  <1>1. ASSUME NEW i \in DOMAIN Tail(c), Tail(c)[i] = Head(c) PROVE FALSE
    <2>1. /\ 1 \in DOMAIN c /\ c[1] = Head(c)
          /\ i + 1 \in DOMAIN c /\ c[i + 1] = Tail(c)[i] /\ i + 1 # 1
      BY <1>1
    <2> QED BY <1>1, <2>1 DEF Distinct
  <1> QED BY <1>1 DEF Range

-------------------------------------------------------------------------------
(* Places and what they contain.                                             *)

(* Every place is of one of seven kinds,                                     *)
LEMMA PlaceKinds ==
    ASSUME NEW l \in Places
    PROVE  \/ l = <<"pool", Main>> \/ l = <<"scheduler", Main>>
           \/ \E t \in Tasks : l = <<"timer", t>>
           \/ \E w \in Workers : l = <<"held", w>> \/ l = <<"pushed", w>>
           \/ \E r \in Runtimes : l = <<"foreground", r>> \/ l = <<"batch", r>>
  BY DEF Places

(* and these are places.                                                     *)
LEMMA ArePlaces ==
    /\ <<"pool", Main>> \in Places /\ <<"scheduler", Main>> \in Places
    /\ \A t \in Tasks : <<"timer", t>> \in Places
    /\ \A w \in Workers : <<"held", w>> \in Places /\ <<"pushed", w>> \in Places
    /\ \A r \in Runtimes : <<"foreground", r>> \in Places /\ <<"batch", r>> \in Places
  BY DEF Places

(* The tasks of the scheduler's commands, in their order.                    *)
TasksOf(s) == [i \in DOMAIN s |-> s[i].task]

(* The contents of each kind of place,                                       *)
LEMMA ContentsOf ==
    /\ Contents(<<"pool", Main>>) = poolQueue
    /\ Contents(<<"scheduler", Main>>) = TasksOf(schedQueue)
    /\ \A t : Contents(<<"timer", t>>) = IF t \in timers THEN <<t>> ELSE <<>>
    /\ \A w : Contents(<<"held", w>>) = <<held[w]>>
    /\ \A w : Contents(<<"pushed", w>>) = <<pushed[w]>>
    /\ \A r : Contents(<<"foreground", r>>) = fgQueue[r]
    /\ \A r : Contents(<<"batch", r>>) = batch[r]
  BY DEF Contents, TasksOf

(* also in the next state.                                                   *)
LEMMA ContentsNext ==
    /\ Contents(<<"pool", Main>>)' = poolQueue'
    /\ Contents(<<"scheduler", Main>>)' = TasksOf(schedQueue')
    /\ \A t : Contents(<<"timer", t>>)' = IF t \in timers' THEN <<t>> ELSE <<>>
    /\ \A w : Contents(<<"held", w>>)' = <<held'[w]>>
    /\ \A w : Contents(<<"pushed", w>>)' = <<pushed'[w]>>
    /\ \A r : Contents(<<"foreground", r>>)' = fgQueue'[r]
    /\ \A r : Contents(<<"batch", r>>)' = batch'[r]
  BY DEF Contents, TasksOf

(* The tasks of the scheduler's commands follow them.                        *)
LEMMA TasksOfSeq ==
    ASSUME NEW s \in Seq(Commands), NEW c \in Commands
    PROVE  /\ TasksOf(s) \in Seq(AnyTask)
           /\ TasksOf(Append(s, c)) = Append(TasksOf(s), c.task)
           /\ s # <<>> => /\ TasksOf(s) # <<>>
                          /\ Head(TasksOf(s)) = Head(s).task
                          /\ TasksOf(Tail(s)) = Tail(TasksOf(s))
           /\ TasksOf(<<>>) = <<>>
  <1>0. \A k \in Commands : k.task \in AnyTask
    BY DEF Commands, Destroy, Schedule, AnyTask
  <1>1. TasksOf(s) \in Seq(AnyTask) /\ Len(TasksOf(s)) = Len(s)
    <2>1. \A n \in Nat : \A f \in [1 .. n -> AnyTask] : f \in Seq(AnyTask) /\ Len(f) = n
      OBVIOUS
    <2>2. TasksOf(s) \in [1 .. Len(s) -> AnyTask]
      BY <1>0 DEF TasksOf
    <2> QED BY <2>1, <2>2
  <1>2. TasksOf(Append(s, c)) = Append(TasksOf(s), c.task)
    <2>1. TasksOf(Append(s, c)) = [i \in 1 .. Len(s) + 1 |-> Append(s, c)[i].task]
      BY DEF TasksOf
    <2>2. Append(TasksOf(s), c.task) =
             [i \in 1 .. Len(s) + 1 |-> IF i = Len(s) + 1 THEN c.task ELSE TasksOf(s)[i]]
      BY <1>1
    <2>3. \A i \in 1 .. Len(s) + 1 :
             Append(s, c)[i].task = IF i = Len(s) + 1 THEN c.task ELSE TasksOf(s)[i]
      BY DEF TasksOf
    <2> QED BY <2>1, <2>2, <2>3
  <1>3. ASSUME s # <<>>
        PROVE  /\ TasksOf(s) # <<>> /\ Head(TasksOf(s)) = Head(s).task
               /\ TasksOf(Tail(s)) = Tail(TasksOf(s))
    <2>1. TasksOf(s) # <<>> /\ Head(TasksOf(s)) = Head(s).task
      BY <1>1, <1>3 DEF TasksOf
    <2>2. /\ Tail(s) \in Seq(Commands) /\ Len(Tail(s)) = Len(s) - 1
          /\ \A i \in 1 .. Len(s) - 1 : Tail(s)[i] = s[i + 1]
      BY <1>3
    <2>3. /\ TasksOf(Tail(s)) \in Seq(AnyTask) /\ Len(TasksOf(Tail(s))) = Len(s) - 1
          /\ \A i \in 1 .. Len(s) - 1 : TasksOf(Tail(s))[i] = s[i + 1].task
      <3>1. TasksOf(Tail(s)) \in [1 .. Len(s) - 1 -> AnyTask]
        BY <1>0, <2>2 DEF TasksOf
      <3>2. \A i \in 1 .. Len(s) - 1 : TasksOf(Tail(s))[i] = s[i + 1].task
        BY <2>2 DEF TasksOf
      <3>3. \A n \in Nat : \A f \in [1 .. n -> AnyTask] : f \in Seq(AnyTask) /\ Len(f) = n
        OBVIOUS
      <3>4. Len(s) - 1 \in Nat
        BY <1>3
      <3> QED BY <3>1, <3>2, <3>3, <3>4
    <2>4. /\ Tail(TasksOf(s)) \in Seq(AnyTask) /\ Len(Tail(TasksOf(s))) = Len(s) - 1
          /\ \A i \in 1 .. Len(s) - 1 : Tail(TasksOf(s))[i] = TasksOf(s)[i + 1]
      BY <1>1, <2>1
    <2>5. \A i \in 1 .. Len(s) - 1 : TasksOf(s)[i + 1] = s[i + 1].task
      BY DEF TasksOf
    <2>6. TasksOf(Tail(s)) = Tail(TasksOf(s))
      BY <2>3, <2>4, <2>5, SeqEqual
    <2> QED BY <2>1, <2>6
  <1>4. TasksOf(<<>>) = <<>>
    BY DEF TasksOf
  <1> QED BY <1>1, <1>2, <1>3, <1>4

(* A place holds a sequence of tasks.                                        *)
LEMMA ContentsType ==
    ASSUME TypePool, TypeScheduler, TypeIsolates, TypeThreads, NEW l \in Places
    PROVE  Contents(l) \in Seq(AnyTask)
  <1>1. \A s \in Seq(Tasks) : s \in Seq(AnyTask)
    BY DEF AnyTask
  <1>2. \A t \in AnyTask : <<t>> \in Seq(AnyTask) /\ <<>> \in Seq(AnyTask)
    OBVIOUS
  <1>3. CASE l = <<"pool", Main>>
    BY <1>1, <1>3, ContentsOf DEF TypePool
  <1>4. CASE l = <<"scheduler", Main>>
    <2>1. Destroy \in Commands
      BY DEF Commands
    <2> QED BY <1>4, <2>1, ContentsOf, TasksOfSeq DEF TypeScheduler
  <1>5. CASE \E t \in Tasks : l = <<"timer", t>>
    <2>1. PICK t \in Tasks : l = <<"timer", t>>
      BY <1>5
    <2>2. Contents(l) = <<t>> \/ Contents(l) = <<>>
      BY <2>1, ContentsOf
    <2> QED BY <1>2, <2>2 DEF AnyTask
  <1>6. CASE \E w \in Workers : l = <<"held", w>> \/ l = <<"pushed", w>>
    <2>1. PICK w \in Workers : l = <<"held", w>> \/ l = <<"pushed", w>>
      BY <1>6
    <2>2. Contents(l) = <<held[w]>> \/ Contents(l) = <<pushed[w]>>
      BY <2>1, ContentsOf
    <2>3. held[w] \in AnyTask /\ pushed[w] \in AnyTask
      BY DEF TypePool, AnyTask
    <2> QED BY <1>2, <2>2, <2>3
  <1>7. CASE \E r \in Runtimes : l = <<"foreground", r>> \/ l = <<"batch", r>>
    BY <1>1, <1>7, ContentsOf DEF TypeIsolates, TypeThreads
  <1> QED BY <1>3, <1>4, <1>5, <1>6, <1>7, PlaceKinds

(* Each place but those of E has what it had.                                *)
KeptBut(E) == \A l \in Places \ E : Contents(l)' = Contents(l)

(* Places outside E whose variable a step leaves alone keep their contents.  *)
LEMMA Kept ==
    ASSUME NEW E,
           <<"pool", Main>> \in E \/ UNCHANGED poolQueue,
           <<"scheduler", Main>> \in E \/ UNCHANGED schedQueue,
           \A t \in Tasks : <<"timer", t>> \in E \/ (t \in timers' <=> t \in timers),
           \A w \in Workers : <<"held", w>> \in E \/ held'[w] = held[w],
           \A w \in Workers : <<"pushed", w>> \in E \/ pushed'[w] = pushed[w],
           \A r \in Runtimes : <<"foreground", r>> \in E \/ fgQueue'[r] = fgQueue[r],
           \A r \in Runtimes : <<"batch", r>> \in E \/ batch'[r] = batch[r]
    PROVE  KeptBut(E)
  <1> SUFFICES ASSUME NEW l \in Places, l \notin E PROVE Contents(l)' = Contents(l)
    BY DEF KeptBut
  <1>1. CASE l = <<"pool", Main>> \/ l = <<"scheduler", Main>>
    BY <1>1, ContentsOf, ContentsNext
  <1>2. ASSUME NEW t \in Tasks, l = <<"timer", t>> PROVE Contents(l)' = Contents(l)
    BY <1>2, ContentsOf, ContentsNext
  <1>3. ASSUME NEW w \in Workers, l = <<"held", w>> \/ l = <<"pushed", w>>
        PROVE  Contents(l)' = Contents(l)
    BY <1>3, ContentsOf, ContentsNext
  <1>4. ASSUME NEW r \in Runtimes, l = <<"foreground", r>> \/ l = <<"batch", r>>
        PROVE  Contents(l)' = Contents(l)
    BY <1>4, ContentsOf, ContentsNext
  <1> QED BY <1>1, <1>2, <1>3, <1>4, PlaceKinds

-------------------------------------------------------------------------------
(* What a step that moves at most one task keeps.                            *)

Types == TypeBorn /\ TypePool /\ TypeScheduler /\ TypeIsolates /\ TypeThreads

(* A task keeps its owner until it is gone, and whether it is a delayed one: *)
(* no step of the platform changes them.                                     *)
OwnersKept ==
    /\ \A t \in Tasks : owner[t] # NoRuntime => owner'[t] = owner[t]
    /\ late \subseteq late'

(* A place that gains nothing.                                               *)
LEMMA LessInside ==
    ASSUME Types, OwnedOnce, NEW l \in Places, Less(Contents(l), Contents(l)')
    PROVE  Distinct(Contents(l)') /\ Inside(l)' \subseteq Inside(l)
  <1>1. Distinct(Contents(l))
    BY DEF OwnedOnce, Distinct
  <1>2. Contents(l) \in Seq(AnyTask)
    BY ContentsType DEF Types
  <1> QED BY <1>1, <1>2, LessKeeps DEF Inside

(* No place gains a task.                                                    *)
LEMMA DropKeeps ==
    ASSUME Types, OwnedOnce, Born, OwnersKept,
           \A l \in Places : Less(Contents(l), Contents(l)')
    PROVE  OwnedOnce' /\ Born'
  <1>1. \A l \in Places : Distinct(Contents(l)') /\ Inside(l)' \subseteq Inside(l)
    BY LessInside
  <1>2. \A l, m \in Places : l # m => Inside(l)' \cap Inside(m)' = {}
    BY <1>1 DEF OwnedOnce
  <1>3. OwnedOnce'
    BY <1>1, <1>2, Zenon DEF OwnedOnce, Distinct, Places
  <1>4. \A l \in Places : Inside(l)' \cap Unborn' = {}
    <2>1. Unborn' \subseteq Unborn
      BY DEF Unborn, OwnersKept
    <2> QED BY <1>1, <2>1 DEF Born
  <1> QED BY <1>3, <1>4, Zenon DEF Born, Places

(* Place q may gain task x, which is then in no other place.                 *)
LEMMA MoveKeeps ==
    ASSUME Types, OwnedOnce, Born, OwnersKept, NEW q \in Places, NEW x \in Tasks,
           owner'[x] # NoRuntime,
           \A l \in Places \ {q} : Less(Contents(l), Contents(l)') /\ x \notin Inside(l)',
           More(Contents(q), Contents(q)', x), x \notin Inside(q)
    PROVE  OwnedOnce' /\ Born'
  <1>1. \A l \in Places \ {q} :
           Distinct(Contents(l)') /\ Inside(l)' \subseteq Inside(l) \ {x}
    BY LessInside
  <1>2. Distinct(Contents(q)') /\ Inside(q)' \subseteq Inside(q) \cup {x}
    <2>1. Distinct(Contents(q))
      BY DEF OwnedOnce, Distinct
    <2>2. Contents(q) \in Seq(AnyTask)
      BY ContentsType DEF Types
    <2> QED BY <2>1, <2>2, MoreKeeps DEF Inside
  <1>3. \A l \in Places : Distinct(Contents(l)')
    BY <1>1, <1>2
  <1>4. ASSUME NEW l \in Places, NEW m \in Places, l # m
        PROVE  Inside(l)' \cap Inside(m)' = {}
    <2>1. Inside(l) \cap Inside(m) = {}
      BY <1>4 DEF OwnedOnce
    <2> QED BY <1>1, <1>2, <1>4, <2>1
  <1>5. OwnedOnce'
    BY <1>3, <1>4, Zenon DEF OwnedOnce, Distinct, Places
  <1>6. \A l \in Places : Inside(l)' \cap Unborn' = {}
    <2>1. Unborn' \subseteq Unborn \ {x}
      BY DEF Unborn, OwnersKept
    <2> QED BY <1>1, <1>2, <2>1 DEF Born
  <1> QED BY <1>5, <1>6, Zenon DEF Born, Places

(* Place q takes over all that place p had.                                  *)
LEMMA TakeKeeps ==
    ASSUME Types, OwnedOnce, Born, OwnersKept, NEW p \in Places, NEW q \in Places, p # q,
           KeptBut({p, q}), Contents(q)' = Contents(p), Contents(p)' = <<>>
    PROVE  OwnedOnce' /\ Born'
  <1>1. \A l \in Places \ {p, q} : Contents(l)' = Contents(l) /\ Inside(l)' = Inside(l)
    BY DEF KeptBut, Inside
  <1>2. Inside(q)' = Inside(p) /\ Inside(p)' = {}
    BY RangeOne DEF Inside
  <1>3. \A l \in Places : Distinct(Contents(l)')
    <2>1. \A l \in Places : Distinct(Contents(l))
      BY Zenon DEF OwnedOnce, Distinct
    <2>2. Distinct(<<>>)
      BY DEF Distinct
    <2> QED BY <1>1, <2>1, <2>2
  <1>4. ASSUME NEW l \in Places, NEW m \in Places, l # m
        PROVE  Inside(l)' \cap Inside(m)' = {}
    <2>1. /\ Inside(l) \cap Inside(m) = {}
          /\ p # m => Inside(p) \cap Inside(m) = {}
          /\ l # p => Inside(l) \cap Inside(p) = {}
      BY <1>4 DEF OwnedOnce
    <2> QED BY <1>1, <1>2, <1>4, <2>1
  <1>5. OwnedOnce'
    BY <1>3, <1>4, Zenon DEF OwnedOnce, Distinct, Places
  <1>6. \A l \in Places : Inside(l)' \cap Unborn' = {}
    <2>1. Unborn' \subseteq Unborn
      BY DEF Unborn, OwnersKept
    <2> QED BY <1>1, <1>2, <2>1 DEF Born
  <1> QED BY <1>5, <1>6, Zenon DEF Born, Places

(* The task at the head of place p moves to place q.                         *)
LEMMA PopMoves ==
    ASSUME Types, OwnedOnce, Born, OwnersKept, NEW p \in Places, NEW q \in Places, p # q,
           KeptBut({p, q}), Contents(p) # <<>>, Head(Contents(p)) \in Tasks,
           Contents(p)' = Tail(Contents(p)) \/ Contents(p)' \in {<<>>, <<NoTask>>},
           More(Contents(q), Contents(q)', Head(Contents(p)))
    PROVE  OwnedOnce' /\ Born'
  <1> DEFINE x == Head(Contents(p))
  <1>1. Contents(p) \in Seq(AnyTask) /\ x # NoTask /\ Distinct(Contents(p))
    BY ContentsType, NoTaskAssumption DEF Types, OwnedOnce, Distinct
  <1>2. x \in Inside(p)
    BY <1>1, RangeOf DEF Inside
  <1>3. owner'[x] # NoRuntime
    BY <1>2 DEF Born, Unborn, OwnersKept
  <1>4. \A l \in Places \ {p} : x \notin Inside(l)
    BY <1>2 DEF OwnedOnce
  <1>5. x \notin Inside(p)' /\ Less(Contents(p), Contents(p)')
    <2>1. CASE Contents(p)' = Tail(Contents(p))
      BY <1>1, <2>1, HeadLeaves DEF Inside, Less
    <2>2. CASE Contents(p)' \in {<<>>, <<NoTask>>}
      BY <1>1, <2>2, RangeOne DEF Inside, Less
    <2> QED BY <2>1, <2>2
  <1>6. \A l \in Places \ {p, q} : Contents(l)' = Contents(l) /\ Inside(l)' = Inside(l)
    BY DEF KeptBut, Inside
  <1>7. \A l \in Places \ {q} : Less(Contents(l), Contents(l)') /\ x \notin Inside(l)'
    BY <1>4, <1>5, <1>6 DEF Less
  <1>8. x \notin Inside(q)
    BY <1>4
  <1> HIDE DEF x
  <1> QED BY <1>3, <1>7, <1>8, MoveKeeps DEF x

(* A step that leaves every queue and holder as it is.                       *)
LEMMA QuietKeeps ==
    ASSUME Types, OwnedOnce, Born, OwnersKept,
           UNCHANGED <<poolQueue, schedQueue, timers, held, pushed, fgQueue, batch>>
    PROVE  OwnedOnce' /\ Born'
  <1>1. KeptBut({})
    BY Kept
  <1> QED BY <1>1, DropKeeps DEF KeptBut, Less

(* A task in a place belongs to an isolate.                                  *)
LEMMA OwnerOf ==
    ASSUME Types, Born, NEW l \in Places, NEW x \in Inside(l)
    PROVE  x \in Tasks /\ owner[x] \in Runtimes /\ x \notin Unborn
  <1>1. Range(Contents(l)) \subseteq AnyTask
    BY ContentsType, RangeOf DEF Types
  <1>2. x \in Tasks
    BY <1>1 DEF Inside, AnyTask
  <1> QED BY <1>2 DEF Types, TypeBorn, Born, Unborn

(* The tasks in a worker's hands were posted for an isolate.                 *)
LEMMA HeldOwner ==
    ASSUME Types, Born, NEW w \in Workers
    PROVE  /\ held[w] # NoTask => held[w] \in Tasks /\ owner[held[w]] \in Runtimes
           /\ pushed[w] # NoTask => pushed[w] \in Tasks /\ owner[pushed[w]] \in Runtimes
  <1>1. /\ Inside(<<"held", w>>) = {held[w]} \ {NoTask}
        /\ Inside(<<"pushed", w>>) = {pushed[w]} \ {NoTask}
    BY ContentsOf, RangeOne DEF Inside
  <1> QED BY <1>1, ArePlaces, OwnerOf

(* So were those in an isolate's queue and in a batch.                       *)
LEMMA QueueOwner ==
    ASSUME Types, Born, NEW r \in Runtimes
    PROVE  /\ \A x \in Range(fgQueue[r]) : x \in Tasks /\ owner[x] \in Runtimes
           /\ \A x \in Range(batch[r]) : x \in Tasks /\ owner[x] \in Runtimes
           /\ batch[r] # <<>> => Head(batch[r]) \in Range(batch[r])
  <1>1. fgQueue[r] \in Seq(Tasks) /\ batch[r] \in Seq(Tasks)
    BY DEF Types, TypeIsolates, TypeThreads
  <1>2. /\ Range(fgQueue[r]) \subseteq Tasks /\ Range(batch[r]) \subseteq Tasks
        /\ batch[r] # <<>> => Head(batch[r]) \in Range(batch[r])
    BY <1>1, RangeOf
  <1>3. /\ Inside(<<"foreground", r>>) = Range(fgQueue[r])
        /\ Inside(<<"batch", r>>) = Range(batch[r])
    BY <1>2, ContentsOf, NoTaskAssumption DEF Inside
  <1> QED BY <1>2, <1>3, ArePlaces, OwnerOf

-------------------------------------------------------------------------------
(* What posting does.                                                        *)

(* Task t of isolate r is born, into a queue or, being delayed, into none.   *)
Arrives(t, r) ==
    /\ t \in Unborn /\ owner' = [owner EXCEPT ![t] = r]
    /\ late' \in {late, late \cup {t}}
    /\ UNCHANGED timers
    /\ \/ /\ poolQueue' = Append(poolQueue, t)
          /\ UNCHANGED <<schedQueue, fgQueue>>
       \/ /\ schedQueue' = Append(schedQueue, Schedule(t)) /\ t \in late'
          /\ UNCHANGED <<poolQueue, fgQueue>>
       \/ /\ fgQueue' = [fgQueue EXCEPT ![r] = Append(@, t)]
          /\ UNCHANGED <<poolQueue, schedQueue>>
       \/ UNCHANGED <<poolQueue, schedQueue, fgQueue>>

(* The code that may post does not.                                          *)
NothingArrives ==
    UNCHANGED <<poolQueue, schedQueue, fgQueue, timers, owner, late>>

(* Code of isolate r posts nothing or a new task of r.                       *)
LEMMA PostFromArrives ==
    ASSUME NEW r, NEW l, PostFrom(r, l)
    PROVE  NothingArrives \/ \E t \in Tasks : Arrives(t, r) /\ (l => t \in late')
  <1>1. CASE PostNothing
    BY <1>1 DEF PostNothing, NothingArrives
  <1>2. ASSUME NEW t \in Unborn,
               \/ Bear(t, r, l) /\ Push(t)
               \/ Bear(t, r, TRUE) /\ EnqueueDelayedTask(t)
               \/ Bear(t, r, l) /\ PostTask(t, r)
               \/ Bear(t, r, TRUE) /\ PostDelayedTask
        PROVE  t \in Tasks /\ Arrives(t, r) /\ (l => t \in late')
    BY <1>2 DEF Unborn, Bear, Push, EnqueueDelayedTask, PostTask, PostDelayedTask, Arrives
  <1> QED BY <1>1, <1>2 DEF PostFrom

(* A task of the pool posts for its own isolate, and a delayed one delayed   *)
(* tasks.                                                                    *)
LEMMA TaskPostsArrives ==
    ASSUME NEW w \in Workers, TaskPosts(w)
    PROVE  \E t \in Tasks :
              Arrives(t, owner[held[w]]) /\ (held[w] \in late => t \in late')
  <1>1. ASSUME NEW t \in Unborn,
               \/ Bear(t, owner[held[w]], held[w] \in late) /\ Push(t)
               \/ Bear(t, owner[held[w]], TRUE) /\ EnqueueDelayedTask(t)
        PROVE  t \in Tasks /\ Arrives(t, owner[held[w]]) /\ (held[w] \in late => t \in late')
    BY <1>1 DEF Unborn, Bear, Push, EnqueueDelayedTask, Arrives
  <1> QED BY <1>1 DEF TaskPosts

(* A new task leaves the owners of the others alone.                         *)
LEMMA ArrivalKeepsOwners ==
    ASSUME TypeBorn, NEW t, NEW r, Arrives(t, r)
    PROVE  OwnersKept
  BY DEF TypeBorn, Arrives, Unborn, OwnersKept

(* A new task is in no place yet; a thread may have run one of its batch.    *)
LEMMA ArrivalKeeps ==
    ASSUME Types, OwnedOnce, Born, NEW r \in Runtimes, NEW t \in Tasks, Arrives(t, r),
           UNCHANGED <<held, pushed>>,
           \A u \in Runtimes : \/ batch'[u] = batch[u]
                               \/ batch[u] # <<>> /\ batch'[u] = Tail(batch[u])
    PROVE  OwnedOnce' /\ Born'
  <1> DEFINE Batches == {"batch"} \X Runtimes
  <1>0. OwnersKept /\ owner'[t] # NoRuntime
    BY ArrivalKeepsOwners, MainAssumption DEF Types, TypeBorn, Arrives
  <1>1. \A l \in Places : t \notin Inside(l)
    BY DEF Born, Arrives
  <1>2. \A l \in Batches : l \in Places /\ Less(Contents(l), Contents(l)')
    <2>1. ASSUME NEW u \in Runtimes
          PROVE  /\ <<"batch", u>> \in Places
                 /\ Less(Contents(<<"batch", u>>), Contents(<<"batch", u>>)')
      BY ArePlaces, ContentsOf, ContentsNext DEF Less
    <2> QED BY <2>1
  <1>3. \A l \in Places : Less(Contents(l), Contents(l)') => t \notin Inside(l)'
    BY <1>1, LessInside
  <1>4. ASSUME NEW q \in Places, q \notin Batches, KeptBut({q} \cup Batches),
               More(Contents(q), Contents(q)', t)
        PROVE  OwnedOnce' /\ Born'
    <2>1. \A l \in Places \ {q} : Less(Contents(l), Contents(l)')
      BY <1>2, <1>4 DEF KeptBut, Less
    <2> HIDE DEF Batches
    <2> QED BY <1>0, <1>1, <1>3, <1>4, <2>1, MoveKeeps
  <1>5. CASE poolQueue' = Append(poolQueue, t) /\ UNCHANGED <<schedQueue, fgQueue>>
    <2>1. KeptBut({<<"pool", Main>>} \cup Batches)
      BY <1>5, Kept DEF Arrives
    <2>2. More(Contents(<<"pool", Main>>), Contents(<<"pool", Main>>)', t)
      BY <1>5, ContentsOf, ContentsNext DEF More
    <2> QED BY <1>4, <2>1, <2>2, ArePlaces
  <1>6. CASE schedQueue' = Append(schedQueue, Schedule(t)) /\ UNCHANGED <<poolQueue, fgQueue>>
    <2>1. KeptBut({<<"scheduler", Main>>} \cup Batches)
      BY <1>6, Kept DEF Arrives
    <2>2. Schedule(t) \in Commands /\ Schedule(t).task = t
      BY DEF Commands, Schedule
    <2>3. More(Contents(<<"scheduler", Main>>), Contents(<<"scheduler", Main>>)', t)
      <3>1. TasksOf(schedQueue') = Append(TasksOf(schedQueue), t)
        BY <1>6, <2>2, TasksOfSeq DEF Types, TypeScheduler
      <3> QED BY <3>1, ContentsOf, ContentsNext DEF More
    <2> QED BY <1>4, <2>1, <2>3, ArePlaces
  <1>7. CASE /\ fgQueue' = [fgQueue EXCEPT ![r] = Append(@, t)]
             /\ UNCHANGED <<poolQueue, schedQueue>>
    <2>0. /\ fgQueue'[r] = Append(fgQueue[r], t)
          /\ \A u \in Runtimes : u # r => fgQueue'[u] = fgQueue[u]
      BY <1>7 DEF Types, TypeIsolates
    <2>1. KeptBut({<<"foreground", r>>} \cup Batches)
      BY <1>7, <2>0, Kept DEF Arrives
    <2>2. More(Contents(<<"foreground", r>>), Contents(<<"foreground", r>>)', t)
      BY <2>0, ContentsOf, ContentsNext DEF More
    <2> QED BY <1>4, <2>1, <2>2, ArePlaces
  <1>8. CASE UNCHANGED <<poolQueue, schedQueue, fgQueue>>
    <2>1. KeptBut(Batches)
      BY <1>8, Kept DEF Arrives
    <2>2. \A l \in Places : Less(Contents(l), Contents(l)')
      BY <1>2, <2>1 DEF KeptBut, Less
    <2> QED BY <1>0, <2>2, DropKeeps
  <1> QED BY <1>5, <1>6, <1>7, <1>8 DEF Arrives

(* A task keeps its isolate, and a delayed one stays one, whatever step is   *)
(* taken.                                                                    *)
LEMMA OwnersStep ==
    ASSUME Types, [PlatformStep]_vars
    PROVE  OwnersKept
  <1>1. ASSUME NEW w \in Workers, WaitPop(w) PROVE OwnersKept
    <2>1. UNCHANGED <<owner, late>>
      BY <1>1 DEF WaitPop, Pop
    <2> QED BY <2>1 DEF OwnersKept
  <1>2. ASSUME NEW w \in Workers, TaskPosts(w) PROVE OwnersKept
    BY <1>2, TaskPostsArrives, ArrivalKeepsOwners DEF Types
  <1>3. ASSUME NEW w \in Workers, TaskPostsForeground(w) PROVE OwnersKept
    BY <1>3 DEF TaskPostsForeground, Bear, Unborn, Types, TypeBorn, OwnersKept
  <1>4. ASSUME NEW w \in Workers, TaskPushesForeground(w) PROVE OwnersKept
    <2>1. UNCHANGED <<owner, late>>
      BY <1>4 DEF TaskPushesForeground
    <2> QED BY <2>1 DEF OwnersKept
  <1>5. ASSUME NEW w \in Workers, NotifyOfCompletion(w) PROVE OwnersKept
    <2>1. UNCHANGED <<owner, late>>
      BY <1>5 DEF NotifyOfCompletion, CountDown
    <2> QED BY <2>1 DEF OwnersKept
  <1>6. ASSUME NEW w \in Workers, WorkerExits(w) PROVE OwnersKept
    <2>1. UNCHANGED <<owner, late>>
      BY <1>6 DEF WorkerExits
    <2> QED BY <2>1 DEF OwnersKept
  <1>7. CASE TaskNotified
    <2>1. UNCHANGED <<owner, late>>
      BY <1>7 DEF TaskNotified
    <2> QED BY <2>1 DEF OwnersKept
  <1>8. CASE StartTimer
    <2>1. UNCHANGED <<owner, late>>
      BY <1>8 DEF StartTimer
    <2> QED BY <2>1 DEF OwnersKept
  <1>9. CASE CloseHandles
    <2>1. UNCHANGED <<owner, late>>
      BY <1>9 DEF CloseHandles, CloseNotifier
    <2> QED BY <2>1 DEF OwnersKept
  <1>10. CASE PoppedAll
    <2>1. UNCHANGED <<owner, late>>
      BY <1>10 DEF PoppedAll
    <2> QED BY <2>1 DEF OwnersKept
  <1>11. ASSUME NEW t \in Tasks, OnTimerExpired(t) PROVE OwnersKept
    <2>1. UNCHANGED <<owner, late>>
      BY <1>11 DEF OnTimerExpired, CountUp, ForgetTimer
    <2> QED BY <2>1 DEF OwnersKept
  <1>12. CASE SchedulerExits
    <2>1. UNCHANGED <<owner, late>>
      BY <1>12 DEF SchedulerExits
    <2> QED BY <2>1 DEF OwnersKept
  <1>13. ASSUME NEW r \in Runtimes, LoopEvent(r) PROVE OwnersKept
    <2>1. PostFrom(r, FALSE)
      BY <1>13 DEF LoopEvent
    <2>2. CASE NothingArrives
      BY <2>2 DEF NothingArrives, OwnersKept
    <2>3. CASE \E t \in Tasks : Arrives(t, r)
      BY <2>3, ArrivalKeepsOwners DEF Types
    <2> QED BY <2>1, <2>2, <2>3, PostFromArrives
  <1>14. ASSUME NEW r \in Runtimes, RunForeground(r) PROVE OwnersKept
    <2>1. PostFrom(owner[Head(batch[r])], Head(batch[r]) \in late)
      BY <1>14 DEF RunForeground
    <2>2. CASE NothingArrives
      BY <2>2 DEF NothingArrives, OwnersKept
    <2>3. CASE \E t \in Tasks : Arrives(t, owner[Head(batch[r])])
      BY <2>3, ArrivalKeepsOwners DEF Types
    <2> QED BY <2>1, <2>2, <2>3, PostFromArrives
  <1>15. ASSUME NEW r \in Runtimes, BatchDone(r) PROVE OwnersKept
    <2>1. UNCHANGED <<owner, late>>
      BY <1>15 DEF BatchDone
    <2> QED BY <2>1 DEF OwnersKept
  <1>16. ASSUME NEW r \in Runtimes, LoopReturns(r) PROVE OwnersKept
    <2>1. UNCHANGED <<owner, late>>
      BY <1>16 DEF LoopReturns
    <2> QED BY <2>1 DEF OwnersKept
  <1>17. ASSUME NEW r \in Runtimes, WaitDrain(r) PROVE OwnersKept
    <2>1. UNCHANGED <<owner, late>>
      BY <1>17 DEF WaitDrain
    <2> QED BY <2>1 DEF OwnersKept
  <1>18. ASSUME NEW r \in Runtimes, DrainForeground(r) PROVE OwnersKept
    <2>1. UNCHANGED <<owner, late>>
      BY <1>18 DEF DrainForeground, TakeAll, AfterWork
    <2> QED BY <2>1 DEF OwnersKept
  <1>19. ASSUME NEW r \in Runtimes, PerformTasksCheckpoint(r) PROVE OwnersKept
    <2>1. PostFrom(r, FALSE)
      BY <1>19 DEF PerformTasksCheckpoint
    <2>2. CASE NothingArrives
      BY <2>2 DEF NothingArrives, OwnersKept
    <2>3. CASE \E t \in Tasks : Arrives(t, r)
      BY <2>3, ArrivalKeepsOwners DEF Types
    <2> QED BY <2>1, <2>2, <2>3, PostFromArrives
  <1>20. ASSUME NEW r \in Runtimes, UnregisterIsolate(r) PROVE OwnersKept
    <2>1. UNCHANGED <<owner, late>>
      BY <1>20 DEF UnregisterIsolate
    <2> QED BY <2>1 DEF OwnersKept
  <1>21. ASSUME NEW r \in Runtimes, DisposeIsolate(r) PROVE OwnersKept
    <2>1. UNCHANGED <<owner, late>>
      BY <1>21 DEF DisposeIsolate
    <2> QED BY <2>1 DEF OwnersKept
  <1>22. ASSUME NEW i \in Runtimes, OnTaskNotified(i) PROVE OwnersKept
    <2>1. UNCHANGED <<owner, late>>
      BY <1>22 DEF OnTaskNotified, TakeAll
    <2> QED BY <2>1 DEF OwnersKept
  <1>23. CASE DisposeScheduler
    <2>1. UNCHANGED <<owner, late>>
      BY <1>23 DEF DisposeScheduler
    <2> QED BY <2>1 DEF OwnersKept
  <1>24. CASE DisposePool
    <2>1. UNCHANGED <<owner, late>>
      BY <1>24 DEF DisposePool
    <2> QED BY <2>1 DEF OwnersKept
  <1>25. CASE PoolDestroyed
    <2>1. UNCHANGED <<owner, late>>
      BY <1>25 DEF PoolDestroyed
    <2> QED BY <2>1 DEF OwnersKept
  <1>26. CASE UNCHANGED vars
    BY <1>26 DEF vars, OwnersKept
  <1> QED
    BY <1>1, <1>2, <1>3, <1>4, <1>5, <1>6, <1>7, <1>8, <1>9, <1>10, <1>11,
       <1>12, <1>13, <1>14, <1>15, <1>16, <1>17, <1>18, <1>19, <1>20, <1>21,
       <1>22, <1>23, <1>24, <1>25, <1>26
       DEF PlatformStep, WorkerStep, SchedulerStep, ThreadProgress, Shutdown

(* The command that ends the scheduler carries no task.                      *)
LEMMA DestroyType == Destroy \in Commands /\ Destroy.task = NoTask
  BY DEF Commands, Destroy

(* A step moves a task from one place to another, puts a new one into a      *)
(* place, or drops some.                                                     *)
LEMMA OwnedStep ==
    ASSUME Types, OwnedOnce, Born, OwnersKept, [PlatformStep]_vars
    PROVE  OwnedOnce' /\ Born'
  <1>1. ASSUME NEW w \in Workers, WaitPop(w) PROVE OwnedOnce' /\ Born'
    <2> DEFINE p == <<"pool", Main>>  q == <<"held", w>>
    <2>1. /\ UNCHANGED <<schedQueue, timers, pushed, fgQueue, batch>>
          /\ poolQueue # <<>> /\ poolQueue' = Tail(poolQueue)
          /\ held'[w] = Head(poolQueue) /\ \A v \in Workers : v # w => held'[v] = held[v]
          /\ poolQueue \in Seq(Tasks)
      BY <1>1 DEF WaitPop, Pop, Types, TypePool
    <2>2. KeptBut({p, q})
      BY <2>1, Kept
    <2>3. Contents(p) = poolQueue /\ Contents(p)' = Tail(poolQueue)
      BY <2>1, ContentsOf, ContentsNext, Zenon
    <2>6. Head(poolQueue) \in Tasks
      BY <2>1
    <2>5. Contents(q)' = <<Head(poolQueue)>>
      BY <2>1, ContentsNext
    <2>4. p \in Places /\ q \in Places /\ p # q
      BY ArePlaces
    <2> HIDE DEF p, q
    <2> QED BY <2>1, <2>2, <2>3, <2>4, <2>5, <2>6, PopMoves DEF More
  <1>2. ASSUME NEW w \in Workers, TaskPosts(w) PROVE OwnedOnce' /\ Born'
    <2>1. owner[held[w]] \in Runtimes
      BY <1>2, HeldOwner DEF TaskPosts, Types, TypePool
    <2>2. /\ UNCHANGED <<held, pushed, batch>>
      BY <1>2 DEF TaskPosts
    <2> QED BY <1>2, <2>1, <2>2, TaskPostsArrives, ArrivalKeeps
  <1>3. ASSUME NEW w \in Workers, TaskPostsForeground(w)
        PROVE  OwnedOnce' /\ Born'
    <2>1. PICK t \in Unborn : /\ pushed' = [pushed EXCEPT ![w] = t]
                              /\ owner' = [owner EXCEPT ![t] = owner[held[w]]]
      BY <1>3 DEF TaskPostsForeground, Bear
    <2> DEFINE q == <<"pushed", w>>
    <2>2. /\ UNCHANGED <<poolQueue, schedQueue, timers, held, fgQueue, batch>>
          /\ pushed'[w] = t /\ \A v \in Workers : v # w => pushed'[v] = pushed[v]
      BY <1>3, <2>1 DEF TaskPostsForeground, Types, TypePool
    <2>3. t \in Tasks /\ owner'[t] # NoRuntime
      <3>1. owner[held[w]] \in Runtimes
        BY <1>3, HeldOwner DEF TaskPostsForeground, Types, TypePool
      <3> QED BY <2>1, <3>1, MainAssumption DEF Unborn, Types, TypeBorn
    <2>4. KeptBut({q})
      BY <2>2, Kept
    <2>5. \A l \in Places : t \notin Inside(l)
      BY DEF Born
    <2>6. \A l \in Places \ {q} : Less(Contents(l), Contents(l)') /\ t \notin Inside(l)'
      BY <2>4, <2>5 DEF KeptBut, Less, Inside
    <2>7. More(Contents(q), Contents(q)', t) /\ q \in Places
      BY <2>2, ContentsNext, ArePlaces DEF More
    <2> HIDE DEF q
    <2> QED BY <2>3, <2>5, <2>6, <2>7, MoveKeeps
  <1>4. ASSUME NEW w \in Workers, TaskPushesForeground(w)
        PROVE  OwnedOnce' /\ Born'
    <2>0. /\ held[w] # NoTask /\ pushed[w] # NoTask
      BY <1>4 DEF TaskPushesForeground, Types, TypePool
    <2>1. PICK i \in Runtimes : i = owner[held[w]]
      BY <2>0, HeldOwner
    <2>8. PICK x \in Tasks : x = pushed[w]
      BY <2>0, HeldOwner
    <2> DEFINE p == <<"pushed", w>>  q == <<"foreground", i>>
    <2>2. /\ UNCHANGED <<poolQueue, schedQueue, timers, held, batch>>
          /\ pushed'[w] = NoTask /\ \A v \in Workers : v # w => pushed'[v] = pushed[v]
          /\ fgQueue'[i] = Append(fgQueue[i], x)
          /\ \A u \in Runtimes : u # i => fgQueue'[u] = fgQueue[u]
      BY <1>4, <2>1, <2>8 DEF TaskPushesForeground, PostTask, Types, TypePool, TypeIsolates
    <2>3. KeptBut({p, q})
      BY <2>2, Kept
    <2>4. Contents(p) = <<x>> /\ Contents(p)' = <<NoTask>>
      BY <2>2, <2>8, ContentsOf, ContentsNext
    <2>5. Contents(q)' = Append(Contents(q), x)
      BY <2>2, ContentsOf, ContentsNext
    <2>6. p \in Places /\ q \in Places /\ p # q
      BY ArePlaces
    <2>7. <<x>> # <<>> /\ Head(<<x>>) = x
      OBVIOUS
    <2> HIDE DEF p, q
    <2> QED BY <2>3, <2>4, <2>5, <2>6, <2>7, PopMoves DEF More
  <1>5. ASSUME NEW w \in Workers, NotifyOfCompletion(w)
        PROVE  OwnedOnce' /\ Born'
    <2>1. /\ UNCHANGED <<poolQueue, schedQueue, timers, pushed, fgQueue, batch>>
          /\ held'[w] = NoTask /\ \A v \in Workers : v # w => held'[v] = held[v]
      BY <1>5 DEF NotifyOfCompletion, CountDown, Types, TypePool, TypeIsolates, TypeThreads, TypeScheduler
    <2>2. KeptBut({<<"held", w>>})
      BY <2>1, Kept
    <2>3. Less(Contents(<<"held", w>>), Contents(<<"held", w>>)')
      BY <2>1, ContentsOf, ContentsNext DEF Less
    <2> QED BY <2>2, <2>3, DropKeeps DEF KeptBut, Less
  <1>6. ASSUME NEW w \in Workers, WorkerExits(w) PROVE OwnedOnce' /\ Born'
    <2>1. UNCHANGED <<poolQueue, schedQueue, timers, held, pushed, fgQueue, batch>>
      BY <1>6 DEF WorkerExits
    <2> QED BY <2>1, QuietKeeps
  <1>7. CASE TaskNotified
    <2>1. UNCHANGED <<poolQueue, schedQueue, timers, held, pushed, fgQueue, batch>>
      BY <1>7 DEF TaskNotified
    <2> QED BY <2>1, QuietKeeps
  <1>8. CASE StartTimer
    <2>1. /\ UNCHANGED <<poolQueue, held, pushed, fgQueue, batch>>
          /\ schedQueue # <<>> /\ schedQueue' = Tail(schedQueue)
          /\ timers' = timers \cup {Head(schedQueue).task}
          /\ Head(schedQueue).kind = "schedule" /\ schedQueue \in Seq(Commands)
      BY <1>8 DEF StartTimer, Types, TypeScheduler
    <2>2. PICK x \in Tasks : x = Head(schedQueue).task
      <3>1. Head(schedQueue) \in Commands
        BY <2>1
      <3> QED BY <2>1, <3>1 DEF Commands, Destroy, Schedule
    <2> DEFINE p == <<"scheduler", Main>>  q == <<"timer", x>>
    <2>3. \A t \in Tasks : <<"timer", t>> # q => t # x
      OBVIOUS
    <2>4. KeptBut({p, q})
      BY <2>1, <2>2, <2>3, Kept
    <2>5. /\ Contents(p) # <<>> /\ Head(Contents(p)) = x
          /\ Contents(p)' = Tail(Contents(p))
      BY <2>1, <2>2, ContentsOf, ContentsNext, TasksOfSeq, DestroyType
    <2>6. Contents(q)' = <<x>>
      BY <2>1, <2>2, ContentsNext
    <2>7. p \in Places /\ q \in Places /\ p # q
      BY ArePlaces
    <2> HIDE DEF p, q
    <2> QED BY <2>4, <2>5, <2>6, <2>7, PopMoves DEF More
  <1>9. CASE CloseHandles
    <2> DEFINE E == {<<"scheduler", Main>>} \cup ({"timer"} \X Tasks)
    <2>1. /\ UNCHANGED <<poolQueue, held, pushed, fgQueue, batch>>
          /\ schedQueue # <<>> /\ schedQueue' = Tail(schedQueue) /\ timers' = {}
      BY <1>9 DEF CloseHandles
    <2>2. KeptBut(E)
      BY <2>1, Kept
    <2>3. Less(Contents(<<"scheduler", Main>>), Contents(<<"scheduler", Main>>)')
      BY <2>1, ContentsOf, ContentsNext, TasksOfSeq, DestroyType DEF Less, Types, TypeScheduler
    <2>4. \A t \in Tasks : Less(Contents(<<"timer", t>>), Contents(<<"timer", t>>)')
      BY <2>1, ContentsNext DEF Less
    <2>5. \A l \in E : Less(Contents(l), Contents(l)')
      BY <2>3, <2>4
    <2> QED BY <2>2, <2>5, DropKeeps DEF KeptBut, Less
  <1>10. CASE PoppedAll
    <2>1. UNCHANGED <<poolQueue, schedQueue, timers, held, pushed, fgQueue, batch>>
      BY <1>10 DEF PoppedAll
    <2> QED BY <2>1, QuietKeeps
  <1>11. ASSUME NEW t \in Tasks, OnTimerExpired(t) PROVE OwnedOnce' /\ Born'
    <2> DEFINE p == <<"timer", t>>  q == <<"pool", Main>>
    <2>1. /\ UNCHANGED <<schedQueue, held, pushed, fgQueue, batch>>
          /\ t \in timers /\ timers' = timers \ {t} /\ poolQueue' = Append(poolQueue, t)
      BY <1>11 DEF OnTimerExpired, ForgetTimer
    <2>2. \A u \in Tasks : <<"timer", u>> # p => u # t
      OBVIOUS
    <2>3. KeptBut({p, q})
      BY <2>1, <2>2, Kept
    <2>4. Contents(p) = <<t>> /\ Contents(p)' = <<>>
      BY <2>1, ContentsOf, ContentsNext
    <2>5. Contents(q)' = Append(Contents(q), t)
      BY <2>1, ContentsOf, ContentsNext
    <2>6. p \in Places /\ q \in Places /\ p # q
      BY ArePlaces
    <2>7. <<t>> # <<>> /\ Head(<<t>>) = t
      OBVIOUS
    <2> HIDE DEF p, q
    <2> QED BY <2>3, <2>4, <2>5, <2>6, <2>7, PopMoves DEF More
  <1>12. CASE SchedulerExits
    <2>1. UNCHANGED <<poolQueue, schedQueue, timers, held, pushed, fgQueue, batch>>
      BY <1>12 DEF SchedulerExits
    <2> QED BY <2>1, QuietKeeps
  <1>13. ASSUME NEW r \in Runtimes, LoopEvent(r) PROVE OwnedOnce' /\ Born'
    <2>1. PostFrom(r, FALSE) /\ UNCHANGED <<held, pushed, batch>>
      BY <1>13 DEF LoopEvent
    <2>2. CASE NothingArrives
      <3>1. UNCHANGED <<poolQueue, schedQueue, timers, held, pushed, fgQueue, batch>>
        BY <2>1, <2>2 DEF NothingArrives
      <3> QED BY <3>1, QuietKeeps
    <2>3. CASE \E t \in Tasks : Arrives(t, r)
      BY <2>1, <2>3, ArrivalKeeps
    <2> QED BY <2>1, <2>2, <2>3, PostFromArrives
  <1>14. ASSUME NEW r \in Runtimes, RunForeground(r) PROVE OwnedOnce' /\ Born'
    <2> DEFINE i == owner[Head(batch[r])]  q == <<"batch", r>>
    <2>1. PostFrom(i, Head(batch[r]) \in late) /\ UNCHANGED <<held, pushed>>
      BY <1>14 DEF RunForeground
    <2>2. /\ batch[r] # <<>> /\ batch'[r] = Tail(batch[r])
          /\ \A u \in Runtimes : u # r => batch'[u] = batch[u]
      BY <1>14 DEF RunForeground, Types, TypeThreads
    <2>3. i \in Runtimes
      BY <2>2, QueueOwner
    <2>4. CASE NothingArrives
      <3>1. KeptBut({q})
        BY <2>1, <2>2, <2>4, Kept DEF NothingArrives
      <3>2. Less(Contents(q), Contents(q)')
        BY <2>2, ContentsOf, ContentsNext DEF Less
      <3> QED BY <3>1, <3>2, DropKeeps DEF KeptBut, Less
    <2>5. CASE \E t \in Tasks : Arrives(t, i)
      BY <2>1, <2>2, <2>3, <2>5, ArrivalKeeps
    <2> QED BY <2>1, <2>4, <2>5, PostFromArrives
  <1>15. ASSUME NEW r \in Runtimes, BatchDone(r) PROVE OwnedOnce' /\ Born'
    <2>1. UNCHANGED <<poolQueue, schedQueue, timers, held, pushed, fgQueue, batch>>
      BY <1>15 DEF BatchDone
    <2> QED BY <2>1, QuietKeeps
  <1>16. ASSUME NEW r \in Runtimes, LoopReturns(r) PROVE OwnedOnce' /\ Born'
    <2>1. UNCHANGED <<poolQueue, schedQueue, timers, held, pushed, fgQueue, batch>>
      BY <1>16 DEF LoopReturns
    <2> QED BY <2>1, QuietKeeps
  <1>17. ASSUME NEW r \in Runtimes, WaitDrain(r) PROVE OwnedOnce' /\ Born'
    <2>1. UNCHANGED <<poolQueue, schedQueue, timers, held, pushed, fgQueue, batch>>
      BY <1>17 DEF WaitDrain
    <2> QED BY <2>1, QuietKeeps
  <1>18. ASSUME NEW r \in Runtimes, DrainForeground(r)
        PROVE  OwnedOnce' /\ Born'
    <2> DEFINE p == <<"foreground", r>>  q == <<"batch", r>>
    <2>1. /\ UNCHANGED <<poolQueue, schedQueue, timers, held, pushed>>
          /\ batch'[r] = fgQueue[r] /\ fgQueue'[r] = <<>>
          /\ \A u \in Runtimes : u # r => batch'[u] = batch[u]
          /\ \A u \in Runtimes : u # r => fgQueue'[u] = fgQueue[u]
      BY <1>18, MainAssumption DEF DrainForeground, TakeAll, Types, TypeIsolates, TypeThreads
    <2>2. KeptBut({p, q})
      BY <2>1, Kept
    <2>3. Contents(q)' = Contents(p) /\ Contents(p)' = <<>>
      BY <2>1, ContentsOf, ContentsNext
    <2>4. p \in Places /\ q \in Places /\ p # q
      BY ArePlaces, MainAssumption
    <2> HIDE DEF p, q
    <2> QED BY <2>2, <2>3, <2>4, TakeKeeps
  <1>19. ASSUME NEW r \in Runtimes, PerformTasksCheckpoint(r)
        PROVE  OwnedOnce' /\ Born'
    <2>1. PostFrom(r, FALSE) /\ UNCHANGED <<held, pushed, batch>>
      BY <1>19 DEF PerformTasksCheckpoint
    <2>2. CASE NothingArrives
      <3>1. UNCHANGED <<poolQueue, schedQueue, timers, held, pushed, fgQueue, batch>>
        BY <2>1, <2>2 DEF NothingArrives
      <3> QED BY <3>1, QuietKeeps
    <2>3. CASE \E t \in Tasks : Arrives(t, r)
      BY <2>1, <2>3, ArrivalKeeps
    <2> QED BY <2>1, <2>2, <2>3, PostFromArrives
  <1>20. ASSUME NEW r \in Runtimes, UnregisterIsolate(r)
        PROVE  OwnedOnce' /\ Born'
    <2>1. /\ UNCHANGED <<poolQueue, schedQueue, timers, held, pushed, batch>>
          /\ fgQueue'[r] = <<>> /\ \A u \in Runtimes : u # r => fgQueue'[u] = fgQueue[u]
      BY <1>20 DEF UnregisterIsolate, Types, TypePool, TypeIsolates, TypeThreads, TypeScheduler
    <2>2. KeptBut({<<"foreground", r>>})
      BY <2>1, Kept
    <2>3. Less(Contents(<<"foreground", r>>), Contents(<<"foreground", r>>)')
      BY <2>1, ContentsOf, ContentsNext DEF Less
    <2> QED BY <2>2, <2>3, DropKeeps DEF KeptBut, Less
  <1>21. ASSUME NEW r \in Runtimes, DisposeIsolate(r)
        PROVE  OwnedOnce' /\ Born'
    <2>1. UNCHANGED <<poolQueue, schedQueue, timers, held, pushed, fgQueue, batch>>
      BY <1>21 DEF DisposeIsolate
    <2> QED BY <2>1, QuietKeeps
  <1>22. ASSUME NEW i \in Runtimes, OnTaskNotified(i)
        PROVE  OwnedOnce' /\ Born'
    <2> DEFINE p == <<"foreground", i>>  q == <<"batch", Main>>
    <2>1. /\ UNCHANGED <<poolQueue, schedQueue, timers, held, pushed>>
          /\ batch'[Main] = fgQueue[i] /\ fgQueue'[i] = <<>>
          /\ \A u \in Runtimes : u # Main => batch'[u] = batch[u]
          /\ \A u \in Runtimes : u # i => fgQueue'[u] = fgQueue[u]
      BY <1>22, MainAssumption DEF OnTaskNotified, TakeAll, Types, TypeIsolates, TypeThreads
    <2>2. KeptBut({p, q})
      BY <2>1, Kept
    <2>3. Contents(q)' = Contents(p) /\ Contents(p)' = <<>>
      BY <2>1, ContentsOf, ContentsNext
    <2>4. p \in Places /\ q \in Places /\ p # q
      BY ArePlaces, MainAssumption
    <2> HIDE DEF p, q
    <2> QED BY <2>2, <2>3, <2>4, TakeKeeps
  <1>23. CASE DisposeScheduler
    <2>1. /\ UNCHANGED <<poolQueue, timers, held, pushed, fgQueue, batch>>
          /\ schedQueue' = Append(schedQueue, Destroy)
      BY <1>23 DEF DisposeScheduler
    <2>2. KeptBut({<<"scheduler", Main>>})
      BY <2>1, Kept
    <2>3. Less(Contents(<<"scheduler", Main>>), Contents(<<"scheduler", Main>>)')
      BY <2>1, ContentsOf, ContentsNext, TasksOfSeq, DestroyType DEF Less, Types, TypeScheduler
    <2> QED BY <2>2, <2>3, DropKeeps DEF KeptBut, Less
  <1>24. CASE DisposePool
    <2>1. /\ UNCHANGED <<poolQueue, timers, held, pushed, fgQueue, batch>>
          /\ schedQueue' = <<>>
      BY <1>24 DEF DisposePool
    <2>2. KeptBut({<<"scheduler", Main>>})
      BY <2>1, Kept
    <2>3. Less(Contents(<<"scheduler", Main>>), Contents(<<"scheduler", Main>>)')
      BY <2>1, ContentsOf, ContentsNext, TasksOfSeq, DestroyType DEF Less, Types, TypeScheduler
    <2> QED BY <2>2, <2>3, DropKeeps DEF KeptBut, Less
  <1>25. CASE PoolDestroyed
    <2>1. /\ UNCHANGED <<schedQueue, timers, held, pushed, fgQueue, batch>>
          /\ poolQueue' = <<>>
      BY <1>25 DEF PoolDestroyed, Types, TypePool, TypeIsolates, TypeThreads, TypeScheduler
    <2>2. KeptBut({<<"pool", Main>>})
      BY <2>1, Kept
    <2>3. Less(Contents(<<"pool", Main>>), Contents(<<"pool", Main>>)')
      BY <2>1, ContentsOf, ContentsNext DEF Less
    <2> QED BY <2>2, <2>3, DropKeeps DEF KeptBut, Less
  <1>26. CASE UNCHANGED vars
    <2>1. UNCHANGED <<poolQueue, schedQueue, timers, held, pushed, fgQueue, batch>>
      BY <1>26 DEF vars
    <2> QED BY <2>1, QuietKeeps
  <1> QED
    BY <1>1, <1>2, <1>3, <1>4, <1>5, <1>6, <1>7, <1>8, <1>9, <1>10, <1>11,
       <1>12, <1>13, <1>14, <1>15, <1>16, <1>17, <1>18, <1>19, <1>20, <1>21,
       <1>22, <1>23, <1>24, <1>25, <1>26
       DEF PlatformStep, WorkerStep, SchedulerStep, ThreadProgress, Shutdown

-------------------------------------------------------------------------------
(* Whose tasks a queue holds, and which tasks are delayed ones.              *)

(* The foreground queue of an isolate holds its tasks.                       *)
OwnQueues == \A r \in Runtimes : \A t \in Range(fgQueue[r]) : owner[t] = r

(* Main also runs the tasks of other isolates (OnTaskNotified).              *)
OwnBatches ==
    \A r \in Runtimes \ {Main} : \A t \in Range(batch[r]) : owner[t] = r

(* A foreground task belongs to the isolate of the task that posts it.       *)
OwnPushed ==
    \A w \in Workers : worker[w] = "posting" => owner[pushed[w]] = owner[held[w]]

(* What the scheduler and its timers hold stems from delayed tasks.          *)
Delayed ==
    /\ timers \subseteq late
    /\ \A c \in Range(schedQueue) : c.task \in late \cup {NoTask}

(* The pool holds the task, or a worker has it in its hands.                 *)
InPool(t) ==
    t \in Range(poolQueue) \/ \E w \in Workers : t \in {held[w], pushed[w]}

(* Once WaitDrain has returned to the main thread, only its delayed tasks    *)
(* can reach the pool: nothing of its isolate runs that could post others.   *)
DrainedQuiet ==
    pc[Main] = "drained" =>
        \A t \in Tasks \ late : owner[t] = Main => ~InPool(t)

(* A step at whose end no queue or batch has a task it did not have.         *)
QueuesShrink ==
    /\ \A r \in Runtimes : fgQueue'[r] = fgQueue[r] \/ fgQueue'[r] = <<>>
    /\ \A r \in Runtimes : \/ batch'[r] = batch[r]
                           \/ batch[r] # <<>> /\ batch'[r] = Tail(batch[r])

(* A step that leaves the workers alone that are posting.                    *)
PushersKept ==
    \A v \in Workers : worker'[v] = "posting" =>
        worker[v] = "posting" /\ pushed'[v] = pushed[v] /\ held'[v] = held[v]

(* A batch that is worked off gains nothing.                                 *)
LEMMA BatchShrinks ==
    ASSUME Types, NEW r \in Runtimes,
           \/ batch'[r] = batch[r]
           \/ batch[r] # <<>> /\ batch'[r] = Tail(batch[r])
    PROVE  Range(batch'[r]) \subseteq Range(batch[r])
  <1>1. batch[r] \in Seq(Tasks)
    BY DEF Types, TypeThreads
  <1> QED BY <1>1, RangeOf

(* Queues that gain nothing hold their isolate's tasks,                      *)
LEMMA OwnKept ==
    ASSUME Types, Born, OwnersKept, OwnQueues, OwnBatches, QueuesShrink
    PROVE  OwnQueues' /\ OwnBatches'
  <1>1. ASSUME NEW r \in Runtimes, NEW t \in Range(fgQueue'[r]) PROVE owner'[t] = r
    <2>1. t \in Range(fgQueue[r])
      BY <1>1, RangeOne DEF QueuesShrink
    <2> QED BY <2>1, QueueOwner, MainAssumption DEF OwnQueues, OwnersKept
  <1>2. ASSUME NEW r \in Runtimes \ {Main}, NEW t \in Range(batch'[r]) PROVE owner'[t] = r
    <2>1. t \in Range(batch[r])
      BY <1>2, BatchShrinks DEF QueuesShrink
    <2> QED BY <2>1, QueueOwner, MainAssumption DEF OwnBatches, OwnersKept
  <1>3. OwnQueues'
    BY <1>1 DEF OwnQueues
  <1>4. OwnBatches'
    BY <1>2 DEF OwnBatches
  <1> QED BY <1>3, <1>4

(* and workers that go on with what they have post for theirs.               *)
LEMMA PushedKept ==
    ASSUME Types, Born, OwnersKept, OwnPushed, PushersKept
    PROVE  OwnPushed'
  <1> SUFFICES ASSUME NEW w \in Workers, worker'[w] = "posting"
               PROVE  owner'[pushed'[w]] = owner'[held'[w]]
    BY DEF OwnPushed
  <1>1. worker[w] = "posting" /\ pushed'[w] = pushed[w] /\ held'[w] = held[w]
    BY DEF PushersKept
  <1>2. held[w] # NoTask /\ pushed[w] # NoTask
    BY <1>1 DEF Types, TypePool
  <1>3. owner'[pushed[w]] = owner[pushed[w]] /\ owner'[held[w]] = owner[held[w]]
    BY <1>2, HeldOwner, MainAssumption DEF OwnersKept
  <1> QED BY <1>1, <1>3 DEF OwnPushed

(* A task that arrives in a foreground queue arrives in its isolate's.       *)
LEMMA OwnArrival ==
    ASSUME Types, Born, OwnersKept, OwnQueues, OwnBatches, NEW i \in Runtimes,
           NEW t \in Tasks, owner'[t] = i,
           \A r \in Runtimes : \/ fgQueue'[r] = fgQueue[r]
                               \/ r = i /\ fgQueue'[r] = Append(fgQueue[r], t),
           \A r \in Runtimes : \/ batch'[r] = batch[r]
                               \/ batch[r] # <<>> /\ batch'[r] = Tail(batch[r])
    PROVE  OwnQueues' /\ OwnBatches'
  <1>1. ASSUME NEW r \in Runtimes, NEW x \in Range(fgQueue'[r]) PROVE owner'[x] = r
    <2>1. fgQueue[r] \in Seq(Tasks)
      BY DEF Types, TypeIsolates
    <2>2. Range(Append(fgQueue[r], t)) = Range(fgQueue[r]) \cup {t}
      BY <2>1, RangeOf
    <2>3. x \in Range(fgQueue[r]) \/ (r = i /\ x = t)
      <3>1. CASE fgQueue'[r] = fgQueue[r]
        BY <1>1, <3>1
      <3>2. CASE r = i /\ fgQueue'[r] = Append(fgQueue[r], t)
        <4>1. x \in Range(Append(fgQueue[r], t))
          BY <1>1, <3>2, Zenon
        <4> QED BY <2>2, <3>2, <4>1
      <3> QED BY <3>1, <3>2
    <2>4. CASE x \in Range(fgQueue[r])
      BY <2>4, QueueOwner, MainAssumption DEF OwnQueues, OwnersKept
    <2> QED BY <2>3, <2>4
  <1>2. ASSUME NEW r \in Runtimes \ {Main}, NEW x \in Range(batch'[r]) PROVE owner'[x] = r
    <2>1. x \in Range(batch[r])
      BY <1>2, BatchShrinks
    <2> QED BY <2>1, QueueOwner, MainAssumption DEF OwnBatches, OwnersKept
  <1>3. OwnQueues'
    BY <1>1 DEF OwnQueues
  <1>4. OwnBatches'
    BY <1>2 DEF OwnBatches
  <1> QED BY <1>3, <1>4

(* A new task of an isolate enters its own queue.                            *)
LEMMA OwnPosted ==
    ASSUME Types, Born, OwnersKept, OwnQueues, OwnBatches, NEW i \in Runtimes,
           NEW t \in Tasks, Arrives(t, i),
           \A r \in Runtimes : \/ batch'[r] = batch[r]
                               \/ batch[r] # <<>> /\ batch'[r] = Tail(batch[r])
    PROVE  OwnQueues' /\ OwnBatches'
  <1>1. owner'[t] = i
    BY DEF Arrives, Types, TypeBorn
  <1>2. \A r \in Runtimes : \/ fgQueue'[r] = fgQueue[r]
                            \/ r = i /\ fgQueue'[r] = Append(fgQueue[r], t)
    BY DEF Arrives, Types, TypeIsolates
  <1> QED BY <1>1, <1>2, OwnArrival

(* Foreground tasks are queued for their isolate, whoever posts them.        *)
LEMMA OwnStep ==
    ASSUME Types, Born, OwnersKept, OwnQueues, OwnBatches, OwnPushed,
           [PlatformStep]_vars
    PROVE  OwnQueues' /\ OwnBatches' /\ OwnPushed'
  <1>1. ASSUME NEW w \in Workers, WaitPop(w)
        PROVE  OwnQueues' /\ OwnBatches' /\ OwnPushed'
    <2>1. QueuesShrink /\ PushersKept
      BY <1>1 DEF WaitPop, Pop, QueuesShrink, PushersKept, Types, TypePool, TypeIsolates, TypeThreads
    <2> QED BY <2>1, OwnKept, PushedKept
  <1>2. ASSUME NEW w \in Workers, TaskPosts(w)
        PROVE  OwnQueues' /\ OwnBatches' /\ OwnPushed'
    <2>1. owner[held[w]] \in Runtimes
      BY <1>2, HeldOwner DEF TaskPosts, Types, TypePool
    <2>2. UNCHANGED <<worker, held, pushed, batch>>
      BY <1>2 DEF TaskPosts
    <2>3. OwnPushed'
      BY <2>2, PushedKept DEF PushersKept
    <2> QED BY <1>2, <2>1, <2>2, <2>3, TaskPostsArrives, OwnPosted
  <1>3. ASSUME NEW w \in Workers, TaskPostsForeground(w)
        PROVE  OwnQueues' /\ OwnBatches' /\ OwnPushed'
    <2>1. OwnQueues' /\ OwnBatches'
      BY <1>3, OwnKept DEF TaskPostsForeground, QueuesShrink
    <2>2. PICK t \in Tasks : /\ pushed' = [pushed EXCEPT ![w] = t]
                             /\ owner' = [owner EXCEPT ![t] = owner[held[w]]]
      BY <1>3 DEF TaskPostsForeground, Bear, Unborn
    <2>3. ASSUME NEW v \in Workers, worker'[v] = "posting"
          PROVE  owner'[pushed'[v]] = owner'[held'[v]]
      <3>1. /\ UNCHANGED held /\ held[w] # NoTask
            /\ v # w => worker[v] = "posting" /\ pushed'[v] = pushed[v]
            /\ pushed'[w] = t /\ owner'[t] = owner[held[w]]
        BY <1>3, <2>2, <2>3 DEF TaskPostsForeground, Types, TypePool, TypeBorn
      <3>2. CASE v = w
        BY <3>1, <3>2, HeldOwner, MainAssumption DEF OwnersKept
      <3>3. CASE v # w
        <4>1. held[v] # NoTask /\ pushed[v] # NoTask
          BY <3>1, <3>3 DEF Types, TypePool
        <4>2. owner'[pushed[v]] = owner[pushed[v]] /\ owner'[held[v]] = owner[held[v]]
          BY <4>1, HeldOwner, MainAssumption DEF OwnersKept
        <4> QED BY <3>1, <3>3, <4>2 DEF OwnPushed
      <3> QED BY <3>2, <3>3
    <2>4. OwnPushed'
      BY <2>3 DEF OwnPushed
    <2> QED BY <2>1, <2>4
  <1>4. ASSUME NEW w \in Workers, TaskPushesForeground(w)
        PROVE  OwnQueues' /\ OwnBatches' /\ OwnPushed'
    <2>1. /\ worker[w] = "posting" /\ held[w] # NoTask /\ pushed[w] # NoTask
          /\ PostTask(pushed[w], owner[held[w]]) /\ UNCHANGED <<batch, owner>>
      BY <1>4 DEF TaskPushesForeground, Types, TypePool
    <2>2. /\ owner[held[w]] \in Runtimes /\ pushed[w] \in Tasks
          /\ owner'[pushed[w]] = owner[held[w]]
      BY <2>1, HeldOwner DEF OwnPushed
    <2>5. /\ UNCHANGED batch
          /\ \A r \in Runtimes :
                \/ fgQueue'[r] = fgQueue[r]
                \/ r = owner[held[w]] /\ fgQueue'[r] = Append(fgQueue[r], pushed[w])
      BY <2>1 DEF PostTask, Types, TypeIsolates
    <2>3. OwnQueues' /\ OwnBatches'
      BY <2>2, <2>5, OwnArrival
    <2>4. PushersKept
      BY <1>4 DEF TaskPushesForeground, PushersKept, Types, TypePool
    <2> QED BY <2>3, <2>4, PushedKept
  <1>5. ASSUME NEW w \in Workers, NotifyOfCompletion(w)
        PROVE  OwnQueues' /\ OwnBatches' /\ OwnPushed'
    <2>1. QueuesShrink /\ PushersKept
      BY <1>5 DEF NotifyOfCompletion, CountDown, QueuesShrink, PushersKept, Types, TypePool, TypeIsolates, TypeThreads
    <2> QED BY <2>1, OwnKept, PushedKept
  <1>6. ASSUME NEW w \in Workers, WorkerExits(w)
        PROVE  OwnQueues' /\ OwnBatches' /\ OwnPushed'
    <2>1. QueuesShrink /\ PushersKept
      BY <1>6 DEF WorkerExits, QueuesShrink, PushersKept, Types, TypePool, TypeIsolates, TypeThreads
    <2> QED BY <2>1, OwnKept, PushedKept
  <1>7. CASE TaskNotified
    <2>1. QueuesShrink /\ PushersKept
      BY <1>7 DEF TaskNotified, QueuesShrink, PushersKept, Types, TypePool, TypeIsolates, TypeThreads
    <2> QED BY <2>1, OwnKept, PushedKept
  <1>8. CASE StartTimer
    <2>1. QueuesShrink /\ PushersKept
      BY <1>8 DEF StartTimer, QueuesShrink, PushersKept, Types, TypePool, TypeIsolates, TypeThreads
    <2> QED BY <2>1, OwnKept, PushedKept
  <1>9. CASE CloseHandles
    <2>1. QueuesShrink /\ PushersKept
      BY <1>9 DEF CloseHandles, CloseNotifier, QueuesShrink, PushersKept, Types, TypePool, TypeIsolates, TypeThreads
    <2> QED BY <2>1, OwnKept, PushedKept
  <1>10. CASE PoppedAll
    <2>1. QueuesShrink /\ PushersKept
      BY <1>10 DEF PoppedAll, QueuesShrink, PushersKept, Types, TypePool, TypeIsolates, TypeThreads
    <2> QED BY <2>1, OwnKept, PushedKept
  <1>11. ASSUME NEW t \in Tasks, OnTimerExpired(t)
        PROVE  OwnQueues' /\ OwnBatches' /\ OwnPushed'
    <2>1. QueuesShrink /\ PushersKept
      BY <1>11 DEF OnTimerExpired, CountUp, ForgetTimer, QueuesShrink, PushersKept, Types, TypePool, TypeIsolates, TypeThreads
    <2> QED BY <2>1, OwnKept, PushedKept
  <1>12. CASE SchedulerExits
    <2>1. QueuesShrink /\ PushersKept
      BY <1>12 DEF SchedulerExits, QueuesShrink, PushersKept, Types, TypePool, TypeIsolates, TypeThreads
    <2> QED BY <2>1, OwnKept, PushedKept
  <1>13. ASSUME NEW r \in Runtimes, LoopEvent(r)
        PROVE  OwnQueues' /\ OwnBatches' /\ OwnPushed'
    <2>1. PostFrom(r, FALSE) /\ UNCHANGED <<worker, held, pushed>>
      BY <1>13 DEF LoopEvent
    <2>2. \A u \in Runtimes : \/ batch'[u] = batch[u]
                              \/ batch[u] # <<>> /\ batch'[u] = Tail(batch[u])
      BY <1>13 DEF LoopEvent, Types, TypeThreads
    <2>3. OwnPushed'
      BY <2>1, PushedKept DEF PushersKept
    <2>4. CASE NothingArrives
      BY <2>2, <2>3, <2>4, OwnKept DEF NothingArrives, QueuesShrink
    <2>5. CASE \E t \in Tasks : Arrives(t, r)
      BY <2>2, <2>3, <2>5, QueueOwner, OwnPosted
    <2> QED BY <2>1, <2>4, <2>5, PostFromArrives
  <1>14. ASSUME NEW r \in Runtimes, RunForeground(r)
        PROVE  OwnQueues' /\ OwnBatches' /\ OwnPushed'
    <2>1. PostFrom(owner[Head(batch[r])], Head(batch[r]) \in late) /\ UNCHANGED <<worker, held, pushed>>
      BY <1>14 DEF RunForeground
    <2>2. \A u \in Runtimes : \/ batch'[u] = batch[u]
                              \/ batch[u] # <<>> /\ batch'[u] = Tail(batch[u])
      BY <1>14 DEF RunForeground, Types, TypeThreads
    <2>3. OwnPushed'
      BY <2>1, PushedKept DEF PushersKept
    <2>6. owner[Head(batch[r])] \in Runtimes
      BY <1>14, QueueOwner DEF RunForeground
    <2>4. CASE NothingArrives
      BY <2>2, <2>3, <2>4, OwnKept DEF NothingArrives, QueuesShrink
    <2>5. CASE \E t \in Tasks : Arrives(t, owner[Head(batch[r])])
      BY <2>2, <2>3, <2>5, <2>6, QueueOwner, OwnPosted
    <2> QED BY <2>1, <2>4, <2>5, PostFromArrives
  <1>15. ASSUME NEW r \in Runtimes, BatchDone(r)
        PROVE  OwnQueues' /\ OwnBatches' /\ OwnPushed'
    <2>1. QueuesShrink /\ PushersKept
      BY <1>15 DEF BatchDone, QueuesShrink, PushersKept, Types, TypePool, TypeIsolates, TypeThreads
    <2> QED BY <2>1, OwnKept, PushedKept
  <1>16. ASSUME NEW r \in Runtimes, LoopReturns(r)
        PROVE  OwnQueues' /\ OwnBatches' /\ OwnPushed'
    <2>1. QueuesShrink /\ PushersKept
      BY <1>16 DEF LoopReturns, QueuesShrink, PushersKept, Types, TypePool, TypeIsolates, TypeThreads
    <2> QED BY <2>1, OwnKept, PushedKept
  <1>17. ASSUME NEW r \in Runtimes, WaitDrain(r)
        PROVE  OwnQueues' /\ OwnBatches' /\ OwnPushed'
    <2>1. QueuesShrink /\ PushersKept
      BY <1>17 DEF WaitDrain, QueuesShrink, PushersKept, Types, TypePool, TypeIsolates, TypeThreads
    <2> QED BY <2>1, OwnKept, PushedKept
  <1>18. ASSUME NEW r \in Runtimes, DrainForeground(r)
        PROVE  OwnQueues' /\ OwnBatches' /\ OwnPushed'
    <2>1. /\ UNCHANGED <<worker, held, pushed, owner>>
          /\ batch'[r] = fgQueue[r] /\ fgQueue'[r] = <<>>
          /\ \A u \in Runtimes : u # r => batch'[u] = batch[u]
          /\ \A u \in Runtimes : u # r => fgQueue'[u] = fgQueue[u]
      BY <1>18, MainAssumption DEF DrainForeground, TakeAll, Types, TypeIsolates, TypeThreads
    <2>2. OwnPushed'
      BY <2>1, PushedKept DEF PushersKept
    <2>3. OwnQueues'
      <3>1. \A u \in Runtimes : fgQueue'[u] = fgQueue[u] \/ Range(fgQueue'[u]) = {}
        BY <2>1, RangeOne
      <3> QED BY <2>1, <3>1 DEF OwnQueues
    <2>4. OwnBatches'
      BY <2>1 DEF OwnQueues, OwnBatches
    <2> QED BY <2>2, <2>3, <2>4
  <1>19. ASSUME NEW r \in Runtimes, PerformTasksCheckpoint(r)
        PROVE  OwnQueues' /\ OwnBatches' /\ OwnPushed'
    <2>1. PostFrom(r, FALSE) /\ UNCHANGED <<worker, held, pushed>>
      BY <1>19 DEF PerformTasksCheckpoint
    <2>2. \A u \in Runtimes : \/ batch'[u] = batch[u]
                              \/ batch[u] # <<>> /\ batch'[u] = Tail(batch[u])
      BY <1>19 DEF PerformTasksCheckpoint, Types, TypeThreads
    <2>3. OwnPushed'
      BY <2>1, PushedKept DEF PushersKept
    <2>4. CASE NothingArrives
      BY <2>2, <2>3, <2>4, OwnKept DEF NothingArrives, QueuesShrink
    <2>5. CASE \E t \in Tasks : Arrives(t, r)
      BY <2>2, <2>3, <2>5, QueueOwner, OwnPosted
    <2> QED BY <2>1, <2>4, <2>5, PostFromArrives
  <1>20. ASSUME NEW r \in Runtimes, UnregisterIsolate(r)
        PROVE  OwnQueues' /\ OwnBatches' /\ OwnPushed'
    <2>1. QueuesShrink /\ PushersKept
      BY <1>20 DEF UnregisterIsolate, QueuesShrink, PushersKept, Types, TypePool, TypeIsolates, TypeThreads
    <2> QED BY <2>1, OwnKept, PushedKept
  <1>21. ASSUME NEW r \in Runtimes, DisposeIsolate(r)
        PROVE  OwnQueues' /\ OwnBatches' /\ OwnPushed'
    <2>1. QueuesShrink /\ PushersKept
      BY <1>21 DEF DisposeIsolate, QueuesShrink, PushersKept, Types, TypePool, TypeIsolates, TypeThreads
    <2> QED BY <2>1, OwnKept, PushedKept
  <1>22. ASSUME NEW i \in Runtimes, OnTaskNotified(i)
        PROVE  OwnQueues' /\ OwnBatches' /\ OwnPushed'
    <2>1. /\ UNCHANGED <<worker, held, pushed, owner>>
          /\ batch'[Main] = fgQueue[i] /\ fgQueue'[i] = <<>>
          /\ \A u \in Runtimes : u # Main => batch'[u] = batch[u]
          /\ \A u \in Runtimes : u # i => fgQueue'[u] = fgQueue[u]
      BY <1>22, MainAssumption DEF OnTaskNotified, TakeAll, Types, TypeIsolates, TypeThreads
    <2>2. OwnPushed'
      BY <2>1, PushedKept DEF PushersKept
    <2>3. OwnQueues'
      <3>1. \A u \in Runtimes : fgQueue'[u] = fgQueue[u] \/ Range(fgQueue'[u]) = {}
        BY <2>1, RangeOne
      <3> QED BY <2>1, <3>1 DEF OwnQueues
    <2>4. OwnBatches'
      BY <2>1 DEF OwnQueues, OwnBatches
    <2> QED BY <2>2, <2>3, <2>4
  <1>23. CASE DisposeScheduler
    <2>1. QueuesShrink /\ PushersKept
      BY <1>23 DEF DisposeScheduler, QueuesShrink, PushersKept, Types, TypePool, TypeIsolates, TypeThreads
    <2> QED BY <2>1, OwnKept, PushedKept
  <1>24. CASE DisposePool
    <2>1. QueuesShrink /\ PushersKept
      BY <1>24 DEF DisposePool, QueuesShrink, PushersKept, Types, TypePool, TypeIsolates, TypeThreads
    <2> QED BY <2>1, OwnKept, PushedKept
  <1>25. CASE PoolDestroyed
    <2>1. QueuesShrink /\ PushersKept
      BY <1>25 DEF PoolDestroyed, QueuesShrink, PushersKept, Types, TypePool, TypeIsolates, TypeThreads
    <2> QED BY <2>1, OwnKept, PushedKept
  <1>26. CASE UNCHANGED vars
    <2>1. QueuesShrink /\ PushersKept
      BY <1>26 DEF vars, QueuesShrink, PushersKept, Types, TypePool, TypeIsolates, TypeThreads
    <2> QED BY <2>1, OwnKept, PushedKept
  <1> QED
    BY <1>1, <1>2, <1>3, <1>4, <1>5, <1>6, <1>7, <1>8, <1>9, <1>10, <1>11,
       <1>12, <1>13, <1>14, <1>15, <1>16, <1>17, <1>18, <1>19, <1>20, <1>21,
       <1>22, <1>23, <1>24, <1>25, <1>26
       DEF PlatformStep, WorkerStep, SchedulerStep, ThreadProgress, Shutdown

(* Delayed tasks stay delayed ones when none is added.                       *)
LEMMA DelayedKept ==
    ASSUME Types, Delayed, OwnersKept, timers' \subseteq timers,
           \/ UNCHANGED schedQueue
           \/ schedQueue # <<>> /\ schedQueue' = Tail(schedQueue)
           \/ schedQueue' = <<>>
    PROVE  Delayed'
  <1>1. Range(schedQueue') \subseteq Range(schedQueue)
    <2>1. schedQueue \in Seq(Commands)
      BY DEF Types, TypeScheduler
    <2> QED BY <2>1, RangeOf, RangeOne
  <1> QED BY <1>1 DEF Delayed, OwnersKept

(* The scheduler is sent a delayed task or none.                             *)
LEMMA DelayedMore ==
    ASSUME Types, Delayed, OwnersKept, UNCHANGED timers, NEW c,
           schedQueue' = Append(schedQueue, c), c.task \in late' \cup {NoTask}
    PROVE  Delayed'
  <1>1. Range(schedQueue') = Range(schedQueue) \cup {c}
    BY RangeOf DEF Types, TypeScheduler
  <1> QED BY <1>1 DEF Delayed, OwnersKept

(* A new task reaches the scheduler as a delayed one.                        *)
LEMMA DelayedArrival ==
    ASSUME Types, Delayed, OwnersKept, NEW t, NEW r, Arrives(t, r)
    PROVE  Delayed'
  <1>1. CASE UNCHANGED schedQueue
    BY <1>1, DelayedKept DEF Arrives
  <1>2. CASE schedQueue' = Append(schedQueue, Schedule(t)) /\ t \in late'
    <2>1. Schedule(t).task = t
      BY DEF Schedule
    <2> QED BY <1>2, <2>1, DelayedMore DEF Arrives
  <1> QED BY <1>1, <1>2 DEF Arrives

(* What the scheduler has to delay stems from delayed tasks.                 *)
LEMMA DelayedStep ==
    ASSUME Types, OwnersKept, Delayed, [PlatformStep]_vars
    PROVE  Delayed'
  <1>1. ASSUME NEW w \in Workers, WaitPop(w) PROVE Delayed'
    <2>1. timers' \subseteq timers
      BY <1>1 DEF WaitPop, Pop
    <2>2. \/ UNCHANGED schedQueue
          \/ schedQueue # <<>> /\ schedQueue' = Tail(schedQueue)
          \/ schedQueue' = <<>>
      BY <1>1 DEF WaitPop, Pop
    <2> QED BY <2>1, <2>2, DelayedKept
  <1>2. ASSUME NEW w \in Workers, TaskPosts(w) PROVE Delayed'
    BY <1>2, TaskPostsArrives, DelayedArrival
  <1>3. ASSUME NEW w \in Workers, TaskPostsForeground(w) PROVE Delayed'
    <2>1. timers' \subseteq timers
      BY <1>3 DEF TaskPostsForeground, Bear, Unborn
    <2>2. \/ UNCHANGED schedQueue
          \/ schedQueue # <<>> /\ schedQueue' = Tail(schedQueue)
          \/ schedQueue' = <<>>
      BY <1>3 DEF TaskPostsForeground, Bear, Unborn
    <2> QED BY <2>1, <2>2, DelayedKept
  <1>4. ASSUME NEW w \in Workers, TaskPushesForeground(w) PROVE Delayed'
    <2>1. timers' \subseteq timers
      BY <1>4 DEF TaskPushesForeground, PostTask
    <2>2. \/ UNCHANGED schedQueue
          \/ schedQueue # <<>> /\ schedQueue' = Tail(schedQueue)
          \/ schedQueue' = <<>>
      BY <1>4 DEF TaskPushesForeground, PostTask
    <2> QED BY <2>1, <2>2, DelayedKept
  <1>5. ASSUME NEW w \in Workers, NotifyOfCompletion(w) PROVE Delayed'
    <2>1. timers' \subseteq timers
      BY <1>5 DEF NotifyOfCompletion, CountDown
    <2>2. \/ UNCHANGED schedQueue
          \/ schedQueue # <<>> /\ schedQueue' = Tail(schedQueue)
          \/ schedQueue' = <<>>
      BY <1>5 DEF NotifyOfCompletion, CountDown
    <2> QED BY <2>1, <2>2, DelayedKept
  <1>6. ASSUME NEW w \in Workers, WorkerExits(w) PROVE Delayed'
    <2>1. timers' \subseteq timers
      BY <1>6 DEF WorkerExits
    <2>2. \/ UNCHANGED schedQueue
          \/ schedQueue # <<>> /\ schedQueue' = Tail(schedQueue)
          \/ schedQueue' = <<>>
      BY <1>6 DEF WorkerExits
    <2> QED BY <2>1, <2>2, DelayedKept
  <1>7. CASE TaskNotified
    <2>1. timers' \subseteq timers
      BY <1>7 DEF TaskNotified
    <2>2. \/ UNCHANGED schedQueue
          \/ schedQueue # <<>> /\ schedQueue' = Tail(schedQueue)
          \/ schedQueue' = <<>>
      BY <1>7 DEF TaskNotified
    <2> QED BY <2>1, <2>2, DelayedKept
  <1>8. CASE StartTimer
    <2>1. /\ schedQueue # <<>> /\ schedQueue' = Tail(schedQueue)
          /\ timers' = timers \cup {Head(schedQueue).task} /\ UNCHANGED late
          /\ Head(schedQueue).kind = "schedule" /\ schedQueue \in Seq(Commands)
      BY <1>8 DEF StartTimer, Types, TypeScheduler
    <2>2. /\ Range(Tail(schedQueue)) \subseteq Range(schedQueue)
          /\ Head(schedQueue) \in Range(schedQueue) /\ Head(schedQueue) \in Commands
      BY <2>1, RangeOf
    <2>3. Head(schedQueue).task \in late
      BY <2>1, <2>2, NoTaskAssumption DEF Delayed, Commands, Destroy, Schedule
    <2> QED BY <2>1, <2>2, <2>3 DEF Delayed
  <1>9. CASE CloseHandles
    <2>1. timers' \subseteq timers
      BY <1>9 DEF CloseHandles, CloseNotifier
    <2>2. \/ UNCHANGED schedQueue
          \/ schedQueue # <<>> /\ schedQueue' = Tail(schedQueue)
          \/ schedQueue' = <<>>
      BY <1>9 DEF CloseHandles, CloseNotifier
    <2> QED BY <2>1, <2>2, DelayedKept
  <1>10. CASE PoppedAll
    <2>1. timers' \subseteq timers
      BY <1>10 DEF PoppedAll
    <2>2. \/ UNCHANGED schedQueue
          \/ schedQueue # <<>> /\ schedQueue' = Tail(schedQueue)
          \/ schedQueue' = <<>>
      BY <1>10 DEF PoppedAll
    <2> QED BY <2>1, <2>2, DelayedKept
  <1>11. ASSUME NEW t \in Tasks, OnTimerExpired(t) PROVE Delayed'
    <2>1. timers' \subseteq timers
      BY <1>11 DEF OnTimerExpired, CountUp, ForgetTimer
    <2>2. \/ UNCHANGED schedQueue
          \/ schedQueue # <<>> /\ schedQueue' = Tail(schedQueue)
          \/ schedQueue' = <<>>
      BY <1>11 DEF OnTimerExpired, CountUp, ForgetTimer
    <2> QED BY <2>1, <2>2, DelayedKept
  <1>12. CASE SchedulerExits
    <2>1. timers' \subseteq timers
      BY <1>12 DEF SchedulerExits
    <2>2. \/ UNCHANGED schedQueue
          \/ schedQueue # <<>> /\ schedQueue' = Tail(schedQueue)
          \/ schedQueue' = <<>>
      BY <1>12 DEF SchedulerExits
    <2> QED BY <2>1, <2>2, DelayedKept
  <1>13. ASSUME NEW r \in Runtimes, LoopEvent(r) PROVE Delayed'
    <2>1. PostFrom(r, FALSE)
      BY <1>13 DEF LoopEvent
    <2>2. CASE NothingArrives
      BY <2>2, DelayedKept DEF NothingArrives
    <2>3. CASE \E t \in Tasks : Arrives(t, r)
      BY <2>3, DelayedArrival
    <2> QED BY <2>1, <2>2, <2>3, PostFromArrives
  <1>14. ASSUME NEW r \in Runtimes, RunForeground(r) PROVE Delayed'
    <2>1. PostFrom(owner[Head(batch[r])], Head(batch[r]) \in late)
      BY <1>14 DEF RunForeground
    <2>2. CASE NothingArrives
      BY <2>2, DelayedKept DEF NothingArrives
    <2>3. CASE \E t \in Tasks : Arrives(t, owner[Head(batch[r])])
      BY <2>3, DelayedArrival
    <2> QED BY <2>1, <2>2, <2>3, PostFromArrives
  <1>15. ASSUME NEW r \in Runtimes, BatchDone(r) PROVE Delayed'
    <2>1. timers' \subseteq timers
      BY <1>15 DEF BatchDone
    <2>2. \/ UNCHANGED schedQueue
          \/ schedQueue # <<>> /\ schedQueue' = Tail(schedQueue)
          \/ schedQueue' = <<>>
      BY <1>15 DEF BatchDone
    <2> QED BY <2>1, <2>2, DelayedKept
  <1>16. ASSUME NEW r \in Runtimes, LoopReturns(r) PROVE Delayed'
    <2>1. timers' \subseteq timers
      BY <1>16 DEF LoopReturns
    <2>2. \/ UNCHANGED schedQueue
          \/ schedQueue # <<>> /\ schedQueue' = Tail(schedQueue)
          \/ schedQueue' = <<>>
      BY <1>16 DEF LoopReturns
    <2> QED BY <2>1, <2>2, DelayedKept
  <1>17. ASSUME NEW r \in Runtimes, WaitDrain(r) PROVE Delayed'
    <2>1. timers' \subseteq timers
      BY <1>17 DEF WaitDrain
    <2>2. \/ UNCHANGED schedQueue
          \/ schedQueue # <<>> /\ schedQueue' = Tail(schedQueue)
          \/ schedQueue' = <<>>
      BY <1>17 DEF WaitDrain
    <2> QED BY <2>1, <2>2, DelayedKept
  <1>18. ASSUME NEW r \in Runtimes, DrainForeground(r) PROVE Delayed'
    <2>1. timers' \subseteq timers
      BY <1>18 DEF DrainForeground, TakeAll, AfterWork
    <2>2. \/ UNCHANGED schedQueue
          \/ schedQueue # <<>> /\ schedQueue' = Tail(schedQueue)
          \/ schedQueue' = <<>>
      BY <1>18 DEF DrainForeground, TakeAll, AfterWork
    <2> QED BY <2>1, <2>2, DelayedKept
  <1>19. ASSUME NEW r \in Runtimes, PerformTasksCheckpoint(r) PROVE Delayed'
    <2>1. PostFrom(r, FALSE)
      BY <1>19 DEF PerformTasksCheckpoint
    <2>2. CASE NothingArrives
      BY <2>2, DelayedKept DEF NothingArrives
    <2>3. CASE \E t \in Tasks : Arrives(t, r)
      BY <2>3, DelayedArrival
    <2> QED BY <2>1, <2>2, <2>3, PostFromArrives
  <1>20. ASSUME NEW r \in Runtimes, UnregisterIsolate(r) PROVE Delayed'
    <2>1. timers' \subseteq timers
      BY <1>20 DEF UnregisterIsolate
    <2>2. \/ UNCHANGED schedQueue
          \/ schedQueue # <<>> /\ schedQueue' = Tail(schedQueue)
          \/ schedQueue' = <<>>
      BY <1>20 DEF UnregisterIsolate
    <2> QED BY <2>1, <2>2, DelayedKept
  <1>21. ASSUME NEW r \in Runtimes, DisposeIsolate(r) PROVE Delayed'
    <2>1. timers' \subseteq timers
      BY <1>21 DEF DisposeIsolate
    <2>2. \/ UNCHANGED schedQueue
          \/ schedQueue # <<>> /\ schedQueue' = Tail(schedQueue)
          \/ schedQueue' = <<>>
      BY <1>21 DEF DisposeIsolate
    <2> QED BY <2>1, <2>2, DelayedKept
  <1>22. ASSUME NEW i \in Runtimes, OnTaskNotified(i) PROVE Delayed'
    <2>1. timers' \subseteq timers
      BY <1>22 DEF OnTaskNotified, TakeAll
    <2>2. \/ UNCHANGED schedQueue
          \/ schedQueue # <<>> /\ schedQueue' = Tail(schedQueue)
          \/ schedQueue' = <<>>
      BY <1>22 DEF OnTaskNotified, TakeAll
    <2> QED BY <2>1, <2>2, DelayedKept
  <1>23. CASE DisposeScheduler
    <2>1. UNCHANGED timers /\ schedQueue' = Append(schedQueue, Destroy)
      BY <1>23 DEF DisposeScheduler
    <2> QED BY <2>1, DestroyType, DelayedMore
  <1>24. CASE DisposePool
    <2>1. timers' \subseteq timers
      BY <1>24 DEF DisposePool
    <2>2. \/ UNCHANGED schedQueue
          \/ schedQueue # <<>> /\ schedQueue' = Tail(schedQueue)
          \/ schedQueue' = <<>>
      BY <1>24 DEF DisposePool
    <2> QED BY <2>1, <2>2, DelayedKept
  <1>25. CASE PoolDestroyed
    <2>1. timers' \subseteq timers
      BY <1>25 DEF PoolDestroyed
    <2>2. \/ UNCHANGED schedQueue
          \/ schedQueue # <<>> /\ schedQueue' = Tail(schedQueue)
          \/ schedQueue' = <<>>
      BY <1>25 DEF PoolDestroyed
    <2> QED BY <2>1, <2>2, DelayedKept
  <1>26. CASE UNCHANGED vars
    <2>1. timers' \subseteq timers
      BY <1>26 DEF vars
    <2>2. \/ UNCHANGED schedQueue
          \/ schedQueue # <<>> /\ schedQueue' = Tail(schedQueue)
          \/ schedQueue' = <<>>
      BY <1>26 DEF vars
    <2> QED BY <2>1, <2>2, DelayedKept
  <1> QED
    BY <1>1, <1>2, <1>3, <1>4, <1>5, <1>6, <1>7, <1>8, <1>9, <1>10, <1>11,
       <1>12, <1>13, <1>14, <1>15, <1>16, <1>17, <1>18, <1>19, <1>20, <1>21,
       <1>22, <1>23, <1>24, <1>25, <1>26
       DEF PlatformStep, WorkerStep, SchedulerStep, ThreadProgress, Shutdown

-------------------------------------------------------------------------------
(* The main thread between WaitDrain and its foreground tasks.               *)

(* A task in the pool was posted before.                                     *)
LEMMA InPoolOwner ==
    ASSUME Types, Born, OwnersKept, NEW t \in Tasks, InPool(t)
    PROVE  owner[t] \in Runtimes /\ owner'[t] = owner[t]
  <1>1. t # NoTask /\ poolQueue \in Seq(Tasks)
    BY NoTaskAssumption DEF Types, TypePool
  <1>2. CASE t \in Range(poolQueue)
    <2>1. t \in Inside(<<"pool", Main>>)
      BY <1>1, <1>2, ContentsOf DEF Inside
    <2>2. owner[t] \in Runtimes
      BY <2>1, ArePlaces, OwnerOf
    <2> QED BY <2>2, MainAssumption DEF OwnersKept
  <1>3. CASE \E w \in Workers : t \in {held[w], pushed[w]}
    BY <1>1, <1>3, HeldOwner, MainAssumption DEF OwnersKept
  <1> QED BY <1>2, <1>3 DEF InPool

(* What comes into the pool is a delayed task or one of another isolate.     *)
LEMMA QuietPool ==
    ASSUME Types, Born, OwnersKept, DrainedQuiet,
           pc'[Main] = "drained" => pc[Main] = "drained",
           \A t \in Tasks : pc[Main] = "drained" /\ InPool(t)' =>
               InPool(t) \/ t \in late' \/ owner'[t] # Main
    PROVE  DrainedQuiet'
  <1> SUFFICES ASSUME pc'[Main] = "drained", NEW t \in Tasks, t \notin late',
                      owner'[t] = Main, InPool(t)'
               PROVE  FALSE
    BY DEF DrainedQuiet
  <1>1. InPool(t) /\ pc[Main] = "drained"
    OBVIOUS
  <1>2. owner[t] = Main /\ t \notin late
    BY <1>1, InPoolOwner DEF OwnersKept
  <1> QED BY <1>1, <1>2 DEF DrainedQuiet

(* Posting for isolate r brings no task of another isolate.                  *)
LEMMA QuietArrival ==
    ASSUME Types, Born, OwnersKept, DrainedQuiet, UNCHANGED <<held, pushed>>,
           pc'[Main] = "drained" => pc[Main] = "drained",
           NEW r, NEW t \in Tasks, Arrives(t, r),
           pc[Main] = "drained" => r # Main \/ t \in late'
    PROVE  DrainedQuiet'
  <1>1. ASSUME NEW x \in Tasks, InPool(x)' PROVE InPool(x) \/ x = t
    <2>1. Range(poolQueue') \subseteq Range(poolQueue) \cup {t}
      <3>1. poolQueue \in Seq(Tasks) /\ t \in Tasks
        BY DEF Types, TypePool
      <3>2. Range(Append(poolQueue, t)) = Range(poolQueue) \cup {t}
        BY <3>1, RangeOf
      <3>3. poolQueue' = Append(poolQueue, t) \/ poolQueue' = poolQueue
        BY DEF Arrives
      <3> QED BY <3>2, <3>3, Zenon
    <2> QED BY <1>1, <2>1 DEF InPool
  <1>2. owner'[t] = r
    BY DEF Arrives, Types, TypeBorn
  <1> QED BY <1>1, <1>2, QuietPool

(* Nothing but delayed tasks of Main's isolate reaches the pool while its    *)
(* thread is between WaitDrain and its foreground tasks.                     *)
LEMMA DrainedStep ==
    ASSUME Types, Born, OwnersKept, OwnBatches, Delayed, OutstandingExact,
           DrainedQuiet, [PlatformStep]_vars
    PROVE  DrainedQuiet'
  <1>1. ASSUME NEW w \in Workers, WaitPop(w) PROVE DrainedQuiet'
    <2>1. /\ UNCHANGED <<pushed, pc>> /\ poolQueue # <<>> /\ poolQueue' = Tail(poolQueue)
          /\ held' = [held EXCEPT ![w] = Head(poolQueue)]
      BY <1>1 DEF WaitPop, Pop
    <2>2. /\ Range(Tail(poolQueue)) \subseteq Range(poolQueue)
          /\ Head(poolQueue) \in Range(poolQueue)
      BY <2>1, RangeOf DEF Types, TypePool
    <2>3. \A v \in Workers : held'[v] \in {held[v], Head(poolQueue)}
      BY <2>1 DEF Types, TypePool
    <2>4. \A t \in Tasks : InPool(t)' => InPool(t)
      BY <2>1, <2>2, <2>3 DEF InPool
    <2> QED BY <2>1, <2>4, QuietPool
  <1>2. ASSUME NEW w \in Workers, TaskPosts(w) PROVE DrainedQuiet'
    <2>1. UNCHANGED <<held, pushed, pc>> /\ held[w] # NoTask
      BY <1>2 DEF TaskPosts, Types, TypePool
    <2>2. PICK t \in Tasks : Arrives(t, owner[held[w]]) /\ (held[w] \in late => t \in late')
      BY <1>2, TaskPostsArrives
    <2>3. pc[Main] = "drained" => owner[held[w]] # Main \/ held[w] \in late
      BY <2>1, HeldOwner DEF DrainedQuiet, InPool
    <2> QED BY <2>1, <2>2, <2>3, QuietArrival
  <1>3. ASSUME NEW w \in Workers, TaskPostsForeground(w) PROVE DrainedQuiet'
    <2>1. UNCHANGED <<poolQueue, held, pc>> /\ held[w] # NoTask
      BY <1>3 DEF TaskPostsForeground, Types, TypePool
    <2>2. PICK t \in Tasks : /\ Bear(t, owner[held[w]], held[w] \in late)
                             /\ pushed' = [pushed EXCEPT ![w] = t]
      BY <1>3 DEF TaskPostsForeground, Unborn
    <2>3. pc[Main] = "drained" => owner[held[w]] # Main \/ held[w] \in late
      BY <2>1, HeldOwner DEF DrainedQuiet, InPool
    <2>4. owner'[t] = owner[held[w]] /\ (held[w] \in late => t \in late')
      BY <2>2 DEF Bear, Types, TypeBorn
    <2>5. \A v \in Workers : pushed'[v] \in {pushed[v], t}
      BY <2>2 DEF Types, TypePool
    <2>6. \A x \in Tasks : InPool(x)' => InPool(x) \/ x = t
      BY <2>1, <2>5 DEF InPool
    <2> QED BY <2>1, <2>3, <2>4, <2>6, QuietPool
  <1>4. ASSUME NEW w \in Workers, TaskPushesForeground(w) PROVE DrainedQuiet'
    <2>1. /\ UNCHANGED <<poolQueue, held, pc>> /\ pushed' = [pushed EXCEPT ![w] = NoTask]
      BY <1>4 DEF TaskPushesForeground, PostTask
    <2>2. \A v \in Workers : pushed'[v] \in {pushed[v], NoTask}
      BY <2>1 DEF Types, TypePool
    <2>3. \A t \in Tasks : InPool(t)' => InPool(t)
      BY <2>1, <2>2, NoTaskAssumption DEF InPool
    <2> QED BY <2>1, <2>3, QuietPool
  <1>5. ASSUME NEW w \in Workers, NotifyOfCompletion(w) PROVE DrainedQuiet'
    <2>1. /\ UNCHANGED <<poolQueue, pushed, pc>> /\ held' = [held EXCEPT ![w] = NoTask]
      BY <1>5 DEF NotifyOfCompletion
    <2>2. \A v \in Workers : held'[v] \in {held[v], NoTask}
      BY <2>1 DEF Types, TypePool
    <2>3. \A t \in Tasks : InPool(t)' => InPool(t)
      BY <2>1, <2>2, NoTaskAssumption DEF InPool
    <2> QED BY <2>1, <2>3, QuietPool
  <1>6. ASSUME NEW w \in Workers, WorkerExits(w) PROVE DrainedQuiet'
    <2>1. /\ pc'[Main] = "drained" => pc[Main] = "drained"
          /\ UNCHANGED <<poolQueue, held, pushed>>
      BY <1>6, MainAssumption DEF WorkerExits, Types, TypeThreads
    <2> QED BY <2>1, QuietPool DEF InPool
  <1>7. CASE TaskNotified
    <2>1. /\ pc'[Main] = "drained" => pc[Main] = "drained"
          /\ UNCHANGED <<poolQueue, held, pushed>>
      BY <1>7, MainAssumption DEF TaskNotified, Types, TypeThreads
    <2> QED BY <2>1, QuietPool DEF InPool
  <1>8. CASE StartTimer
    <2>1. /\ pc'[Main] = "drained" => pc[Main] = "drained"
          /\ UNCHANGED <<poolQueue, held, pushed>>
      BY <1>8, MainAssumption DEF StartTimer, Types, TypeThreads
    <2> QED BY <2>1, QuietPool DEF InPool
  <1>9. CASE CloseHandles
    <2>1. /\ pc'[Main] = "drained" => pc[Main] = "drained"
          /\ UNCHANGED <<poolQueue, held, pushed>>
      BY <1>9, MainAssumption DEF CloseHandles, CloseNotifier, Types, TypeThreads
    <2> QED BY <2>1, QuietPool DEF InPool
  <1>10. CASE PoppedAll
    <2>1. /\ pc'[Main] = "drained" => pc[Main] = "drained"
          /\ UNCHANGED <<poolQueue, held, pushed>>
      BY <1>10, MainAssumption DEF PoppedAll, Types, TypeThreads
    <2> QED BY <2>1, QuietPool DEF InPool
  <1>11. ASSUME NEW t \in Tasks, OnTimerExpired(t) PROVE DrainedQuiet'
    <2>1. /\ UNCHANGED <<held, pushed, pc, late>> /\ poolQueue' = Append(poolQueue, t)
          /\ t \in timers
      BY <1>11 DEF OnTimerExpired
    <2>2. Range(poolQueue') = Range(poolQueue) \cup {t} /\ t \in late
      BY <2>1, RangeOf DEF Types, TypePool, Delayed
    <2>3. \A x \in Tasks : InPool(x)' => InPool(x) \/ x \in late'
      BY <2>1, <2>2 DEF InPool
    <2> QED BY <2>1, <2>3, QuietPool
  <1>12. CASE SchedulerExits
    <2>1. /\ pc'[Main] = "drained" => pc[Main] = "drained"
          /\ UNCHANGED <<poolQueue, held, pushed>>
      BY <1>12, MainAssumption DEF SchedulerExits, Types, TypeThreads
    <2> QED BY <2>1, QuietPool DEF InPool
  <1>13. ASSUME NEW r \in Runtimes, LoopEvent(r) PROVE DrainedQuiet'
    <2>1. /\ PostFrom(r, FALSE) /\ UNCHANGED <<held, pushed>>
          /\ pc'[Main] = "drained" => pc[Main] = "drained"
          /\ pc[Main] = "drained" => r # Main
      BY <1>13, MainAssumption DEF LoopEvent, Types, TypeThreads
    <2>2. CASE NothingArrives
      BY <2>1, <2>2, QuietPool DEF NothingArrives, InPool
    <2>3. CASE \E t \in Tasks : Arrives(t, r)
      BY <2>1, <2>3, QuietArrival
    <2> QED BY <2>1, <2>2, <2>3, PostFromArrives
  <1>14. ASSUME NEW r \in Runtimes, RunForeground(r) PROVE DrainedQuiet'
    <2>1. /\ PostFrom(owner[Head(batch[r])], Head(batch[r]) \in late) /\ UNCHANGED <<held, pushed>>
          /\ pc'[Main] = "drained" => pc[Main] = "drained"
          /\ pc[Main] = "drained" => r # Main
      BY <1>14, MainAssumption DEF RunForeground, Types, TypeThreads
    <2>4. r # Main => owner[Head(batch[r])] = r
      BY <1>14, QueueOwner DEF RunForeground, OwnBatches
    <2>2. CASE NothingArrives
      BY <2>1, <2>2, QuietPool DEF NothingArrives, InPool
    <2>3. CASE \E t \in Tasks : Arrives(t, owner[Head(batch[r])])
      BY <2>1, <2>3, <2>4, QuietArrival
    <2> QED BY <2>1, <2>2, <2>3, PostFromArrives
  <1>15. ASSUME NEW r \in Runtimes, BatchDone(r) PROVE DrainedQuiet'
    <2>1. /\ pc'[Main] = "drained" => pc[Main] = "drained"
          /\ UNCHANGED <<poolQueue, held, pushed>>
      BY <1>15, MainAssumption DEF BatchDone, Types, TypeThreads
    <2> QED BY <2>1, QuietPool DEF InPool
  <1>16. ASSUME NEW r \in Runtimes, LoopReturns(r) PROVE DrainedQuiet'
    <2>1. /\ pc'[Main] = "drained" => pc[Main] = "drained"
          /\ UNCHANGED <<poolQueue, held, pushed>>
      BY <1>16, MainAssumption DEF LoopReturns, Types, TypeThreads
    <2> QED BY <2>1, QuietPool DEF InPool
  <1>17. ASSUME NEW r \in Runtimes, WaitDrain(r) PROVE DrainedQuiet'
    <2>1. /\ UNCHANGED <<poolQueue, held, pushed>>
          /\ \/ pc'[Main] = "drained" => pc[Main] = "drained"
             \/ pc[Main] = "drain" /\ outstanding <= 0
      BY <1>17, MainAssumption DEF WaitDrain, Types, TypeThreads
    <2>2. CASE pc'[Main] = "drained" => pc[Main] = "drained"
      BY <2>1, <2>2, QuietPool DEF InPool
    <2>3. CASE pc[Main] = "drain" /\ outstanding <= 0
      <3>1. poolQueue = <<>> /\ Busy = {}
        <4>1. outstanding = Len(poolQueue) + Cardinality(Busy)
          BY <2>3 DEF OutstandingExact
        <4>2. Len(poolQueue) \in Nat /\ poolQueue \in Seq(Tasks)
          BY DEF Types, TypePool
        <4>3. Len(poolQueue) = 0 /\ Cardinality(Busy) = 0
          <5>1. Cardinality(Busy) \in Nat
            BY BusyFinite
          <5> QED BY <2>3, <4>1, <4>2, <5>1
        <4> QED BY <4>2, <4>3, BusyFinite, FS_EmptySet
      <3>2. \A v \in Workers : held[v] = NoTask /\ pushed[v] = NoTask
        BY <3>1 DEF Busy, Types, TypePool
      <3>3. \A t \in Tasks : ~InPool(t)'
        BY <2>1, <3>1, <3>2, RangeOne, NoTaskAssumption DEF InPool
      <3> QED BY <3>3 DEF DrainedQuiet
    <2> QED BY <2>1, <2>2, <2>3
  <1>18. ASSUME NEW r \in Runtimes, DrainForeground(r) PROVE DrainedQuiet'
    <2>1. /\ pc'[Main] = "drained" => pc[Main] = "drained"
          /\ UNCHANGED <<poolQueue, held, pushed>>
      BY <1>18, MainAssumption DEF DrainForeground, TakeAll, AfterWork, Types, TypeThreads
    <2> QED BY <2>1, QuietPool DEF InPool
  <1>19. ASSUME NEW r \in Runtimes, PerformTasksCheckpoint(r)
        PROVE  DrainedQuiet'
    <2>1. /\ PostFrom(r, FALSE) /\ UNCHANGED <<held, pushed>>
          /\ pc'[Main] = "drained" => pc[Main] = "drained"
          /\ pc[Main] = "drained" => r # Main
      BY <1>19, MainAssumption DEF PerformTasksCheckpoint, Types, TypeThreads
    <2>2. CASE NothingArrives
      BY <2>1, <2>2, QuietPool DEF NothingArrives, InPool
    <2>3. CASE \E t \in Tasks : Arrives(t, r)
      BY <2>1, <2>3, QuietArrival
    <2> QED BY <2>1, <2>2, <2>3, PostFromArrives
  <1>20. ASSUME NEW r \in Runtimes, UnregisterIsolate(r) PROVE DrainedQuiet'
    <2>1. /\ pc'[Main] = "drained" => pc[Main] = "drained"
          /\ UNCHANGED <<poolQueue, held, pushed>>
      BY <1>20, MainAssumption DEF UnregisterIsolate, Types, TypeThreads
    <2> QED BY <2>1, QuietPool DEF InPool
  <1>21. ASSUME NEW r \in Runtimes, DisposeIsolate(r) PROVE DrainedQuiet'
    <2>1. /\ pc'[Main] = "drained" => pc[Main] = "drained"
          /\ UNCHANGED <<poolQueue, held, pushed>>
      BY <1>21, MainAssumption DEF DisposeIsolate, Types, TypeThreads
    <2> QED BY <2>1, QuietPool DEF InPool
  <1>22. ASSUME NEW i \in Runtimes, OnTaskNotified(i) PROVE DrainedQuiet'
    <2>1. /\ pc'[Main] = "drained" => pc[Main] = "drained"
          /\ UNCHANGED <<poolQueue, held, pushed>>
      BY <1>22, MainAssumption DEF OnTaskNotified, TakeAll, Types, TypeThreads
    <2> QED BY <2>1, QuietPool DEF InPool
  <1>23. CASE DisposeScheduler
    <2>1. /\ pc'[Main] = "drained" => pc[Main] = "drained"
          /\ UNCHANGED <<poolQueue, held, pushed>>
      BY <1>23, MainAssumption DEF DisposeScheduler, Types, TypeThreads
    <2> QED BY <2>1, QuietPool DEF InPool
  <1>24. CASE DisposePool
    <2>1. /\ pc'[Main] = "drained" => pc[Main] = "drained"
          /\ UNCHANGED <<poolQueue, held, pushed>>
      BY <1>24, MainAssumption DEF DisposePool, Types, TypeThreads
    <2> QED BY <2>1, QuietPool DEF InPool
  <1>25. CASE PoolDestroyed
    <2>1. /\ UNCHANGED <<held, pushed>> /\ poolQueue' = <<>> /\ pc'[Main] # "drained"
      BY <1>25, MainAssumption DEF PoolDestroyed, Types, TypeThreads
    <2> QED BY <2>1 DEF DrainedQuiet
  <1>26. CASE UNCHANGED vars
    <2>1. /\ pc'[Main] = "drained" => pc[Main] = "drained"
          /\ UNCHANGED <<poolQueue, held, pushed>>
      BY <1>26, MainAssumption DEF vars, Types, TypeThreads
    <2> QED BY <2>1, QuietPool DEF InPool
  <1> QED
    BY <1>1, <1>2, <1>3, <1>4, <1>5, <1>6, <1>7, <1>8, <1>9, <1>10, <1>11,
       <1>12, <1>13, <1>14, <1>15, <1>16, <1>17, <1>18, <1>19, <1>20, <1>21,
       <1>22, <1>23, <1>24, <1>25, <1>26
       DEF PlatformStep, WorkerStep, SchedulerStep, ThreadProgress, Shutdown

(* DrainTasks returns only when its last look at the foreground queue found  *)
(* it empty, just after WaitDrain.                                           *)
LEMMA CheckpointStep ==
    ASSUME Types, DrainedQuiet, pc[Main] # "checkpoint", pc'[Main] =
           "checkpoint", NEW x \in Tasks \ late, owner[x] = Main,
           [PlatformStep]_vars
    PROVE  ~Waiting(x)
  <1>1. ASSUME NEW w \in Workers, WaitPop(w) PROVE ~Waiting(x)
    BY <1>1, MainAssumption DEF WaitPop, Pop, Types, TypeThreads
  <1>2. ASSUME NEW w \in Workers, TaskPosts(w) PROVE ~Waiting(x)
    BY <1>2, MainAssumption DEF TaskPosts, Types, TypeThreads
  <1>3. ASSUME NEW w \in Workers, TaskPostsForeground(w) PROVE ~Waiting(x)
    BY <1>3, MainAssumption DEF TaskPostsForeground, Bear, Unborn, Types, TypeThreads
  <1>4. ASSUME NEW w \in Workers, TaskPushesForeground(w) PROVE ~Waiting(x)
    BY <1>4, MainAssumption DEF TaskPushesForeground, Types, TypeThreads
  <1>5. ASSUME NEW w \in Workers, NotifyOfCompletion(w) PROVE ~Waiting(x)
    BY <1>5, MainAssumption DEF NotifyOfCompletion, CountDown, Types, TypeThreads
  <1>6. ASSUME NEW w \in Workers, WorkerExits(w) PROVE ~Waiting(x)
    BY <1>6, MainAssumption DEF WorkerExits, Types, TypeThreads
  <1>7. CASE TaskNotified
    BY <1>7, MainAssumption DEF TaskNotified, Types, TypeThreads
  <1>8. CASE StartTimer
    BY <1>8, MainAssumption DEF StartTimer, Types, TypeThreads
  <1>9. CASE CloseHandles
    BY <1>9, MainAssumption DEF CloseHandles, CloseNotifier, Types, TypeThreads
  <1>10. CASE PoppedAll
    BY <1>10, MainAssumption DEF PoppedAll, Types, TypeThreads
  <1>11. ASSUME NEW t \in Tasks, OnTimerExpired(t) PROVE ~Waiting(x)
    BY <1>11, MainAssumption DEF OnTimerExpired, CountUp, ForgetTimer, Types, TypeThreads
  <1>12. CASE SchedulerExits
    BY <1>12, MainAssumption DEF SchedulerExits, Types, TypeThreads
  <1>13. ASSUME NEW r \in Runtimes, LoopEvent(r) PROVE ~Waiting(x)
    BY <1>13, MainAssumption DEF LoopEvent, Types, TypeThreads
  <1>14. ASSUME NEW r \in Runtimes, RunForeground(r) PROVE ~Waiting(x)
    BY <1>14, MainAssumption DEF RunForeground, Types, TypeThreads
  <1>15. ASSUME NEW r \in Runtimes, BatchDone(r) PROVE ~Waiting(x)
    BY <1>15, MainAssumption DEF BatchDone, Types, TypeThreads
  <1>16. ASSUME NEW r \in Runtimes, LoopReturns(r) PROVE ~Waiting(x)
    BY <1>16, MainAssumption DEF LoopReturns, Types, TypeThreads
  <1>17. ASSUME NEW r \in Runtimes, WaitDrain(r) PROVE ~Waiting(x)
    BY <1>17, MainAssumption DEF WaitDrain, Types, TypeThreads
  <1>18. ASSUME NEW r \in Runtimes, DrainForeground(r) PROVE ~Waiting(x)
    <2>1. CASE r = Main
      <3>1. pc[Main] = "drained" /\ fgQueue[Main] = <<>>
        BY <1>18, <2>1, MainAssumption DEF DrainForeground, Types, TypeThreads
      <3> QED BY <3>1, RangeOne DEF DrainedQuiet, InPool, Waiting
    <2>2. CASE r # Main
      BY <1>18, <2>2, MainAssumption DEF DrainForeground, Types, TypeThreads
    <2> QED BY <2>1, <2>2
  <1>19. ASSUME NEW r \in Runtimes, PerformTasksCheckpoint(r)
        PROVE  ~Waiting(x)
    BY <1>19, MainAssumption DEF PerformTasksCheckpoint, Types, TypeThreads
  <1>20. ASSUME NEW r \in Runtimes, UnregisterIsolate(r) PROVE ~Waiting(x)
    BY <1>20, MainAssumption DEF UnregisterIsolate, Types, TypeThreads
  <1>21. ASSUME NEW r \in Runtimes, DisposeIsolate(r) PROVE ~Waiting(x)
    BY <1>21, MainAssumption DEF DisposeIsolate, Types, TypeThreads
  <1>22. ASSUME NEW i \in Runtimes, OnTaskNotified(i) PROVE ~Waiting(x)
    BY <1>22, MainAssumption DEF OnTaskNotified, TakeAll, Types, TypeThreads
  <1>23. CASE DisposeScheduler
    BY <1>23, MainAssumption DEF DisposeScheduler, Types, TypeThreads
  <1>24. CASE DisposePool
    BY <1>24, MainAssumption DEF DisposePool, Types, TypeThreads
  <1>25. CASE PoolDestroyed
    BY <1>25, MainAssumption DEF PoolDestroyed, Types, TypeThreads
  <1>26. CASE UNCHANGED vars
    BY <1>26 DEF vars
  <1> QED
    BY <1>1, <1>2, <1>3, <1>4, <1>5, <1>6, <1>7, <1>8, <1>9, <1>10, <1>11,
       <1>12, <1>13, <1>14, <1>15, <1>16, <1>17, <1>18, <1>19, <1>20, <1>21,
       <1>22, <1>23, <1>24, <1>25, <1>26
       DEF PlatformStep, WorkerStep, SchedulerStep, ThreadProgress, Shutdown

(* The inductive invariant                                                   *)
OwnershipInv ==
    /\ IndInv /\ OwnedOnce /\ Born
    /\ OwnQueues /\ OwnBatches /\ OwnPushed /\ Delayed /\ DrainedQuiet

(* A task that is gone is nowhere a queue, a timer or a thread could find it. *)
LEMMA ReusedNowhere ==
    ASSUME Types, NEW t \in Reused, Reuse(t)
    PROVE  /\ \A r \in Runtimes : t \notin Range(fgQueue[r]) /\ t \notin Range(batch[r])
           /\ \A w \in Workers : t # held[w] /\ t # pushed[w]
           /\ t \notin timers /\ \A c \in Range(schedQueue) : c.task # t
  <1>1. t \in Tasks /\ t # NoTask /\ \A l \in Places : t \notin Inside(l)
    BY ReusedAssumption, NoTaskAssumption DEF Reuse
  <1>2. \A l \in Places : t \notin Range(Contents(l))
    BY <1>1 DEF Inside
  <1>3. \A r \in Runtimes : t \notin Range(fgQueue[r]) /\ t \notin Range(batch[r])
    BY <1>2, ArePlaces, ContentsOf
  <1>4. \A w \in Workers : t # held[w] /\ t # pushed[w]
    <2>1. \A w \in Workers : t \notin Range(<<held[w]>>) /\ t \notin Range(<<pushed[w]>>)
      BY <1>2, ArePlaces, ContentsOf
    <2> QED BY <2>1, RangeOne
  <1>5. t \notin timers
    <2>1. t \in timers => t \notin Range(<<t>>)
      BY <1>1, <1>2, ArePlaces, ContentsOf
    <2> QED BY <2>1, RangeOne
  <1>6. ASSUME NEW i \in DOMAIN schedQueue PROVE schedQueue[i].task # t
    <2>1. t \notin Range(TasksOf(schedQueue))
      BY <1>2, ArePlaces, ContentsOf
    <2>2. i \in DOMAIN TasksOf(schedQueue) /\ TasksOf(schedQueue)[i] = schedQueue[i].task
      BY DEF TasksOf
    <2> QED BY <2>1, <2>2, Zenon DEF Range
  <1> QED BY <1>3, <1>4, <1>5, <1>6 DEF Range

(* So a new task may have its identity.                                      *)
LEMMA ReuseOwnership ==
    ASSUME OwnershipInv, NEW t \in Reused, Reuse(t)
    PROVE  OwnershipInv'
  <1>1. /\ Types /\ IndInv /\ OwnedOnce /\ Born
        /\ OwnQueues /\ OwnBatches /\ OwnPushed /\ Delayed /\ DrainedQuiet
    BY Zenon DEF OwnershipInv, IndInv, TypeOK, Types
  <1>2. /\ UNCHANGED <<poolQueue, schedQueue, timers, held, pushed, fgQueue, batch, worker, pc>>
        /\ owner' = [owner EXCEPT ![t] = NoRuntime] /\ late' = late \ {t}
        /\ t \in Tasks /\ \A l \in Places : t \notin Inside(l)
    BY ReusedAssumption DEF Reuse
  <1>3. \A x \in Tasks : owner'[x] = IF x = t THEN NoRuntime ELSE owner[x]
    BY <1>1, <1>2 DEF Types, TypeBorn
  <1>4. \A l \in Places : Contents(l)' = Contents(l) /\ Inside(l)' = Inside(l)
    <2>1. KeptBut({})
      BY <1>2, Kept
    <2> QED BY <2>1 DEF KeptBut, Inside
  <1>5. OwnedOnce'
    BY <1>1, <1>4, Zenon DEF OwnedOnce
  <1>6. Born'
    <2>1. Unborn' \subseteq Unborn \cup {t}
      BY <1>3 DEF Unborn
    <2> QED BY <1>1, <1>2, <1>4, <2>1 DEF Born
  <1>7. OwnQueues' /\ OwnBatches'
    <2>1. \A r \in Runtimes : \A x \in Range(fgQueue[r]) : x \in Tasks /\ x # t
      BY <1>1, QueueOwner, ReusedNowhere
    <2>2. \A r \in Runtimes : \A x \in Range(batch[r]) : x \in Tasks /\ x # t
      BY <1>1, QueueOwner, ReusedNowhere
    <2>3. OwnQueues'
      BY <1>1, <1>2, <1>3, <2>1 DEF OwnQueues
    <2>4. OwnBatches'
      BY <1>1, <1>2, <1>3, <2>2 DEF OwnBatches
    <2> QED BY <2>3, <2>4
  <1>8. OwnPushed'
    <2>1. \A w \in Workers : worker[w] = "posting" =>
             held[w] \in Tasks /\ pushed[w] \in Tasks /\ held[w] # t /\ pushed[w] # t
      BY <1>1, ReusedNowhere DEF Types, TypePool
    <2> QED BY <1>1, <1>2, <1>3, <2>1 DEF OwnPushed
  <1>9. Delayed'
    BY <1>1, <1>2, ReusedNowhere DEF Delayed
  <1>10. DrainedQuiet'
    <2>1. \A x \in Tasks : InPool(x)' = InPool(x)
      BY <1>2 DEF InPool
    <2>2. ASSUME pc[Main] = "drained", NEW x \in Tasks, x \notin late \ {t}, owner'[x] = Main
          PROVE  ~InPool(x)
      <3>1. x # t
        BY <1>3, <2>2, MainAssumption
      <3> QED BY <1>1, <1>3, <2>2, <3>1 DEF DrainedQuiet
    <2> QED BY <1>2, <2>1, <2>2 DEF DrainedQuiet
  <1>11. IndInv'
    BY <1>1, ReuseStep
  <1> QED BY <1>5, <1>6, <1>7, <1>8, <1>9, <1>10, <1>11, Zenon DEF OwnershipInv

(* The initial state and every step satisfy OwnershipInv.                    *)
LEMMA OwnershipInductive == Spec => []OwnershipInv
  <1>1. Init => OwnershipInv
    <2> SUFFICES ASSUME Init, IndInv PROVE OwnershipInv
      BY InitialTypes
    <2>1. \A l \in Places : Contents(l) \in {<<>>, <<NoTask>>}
      <3>1. ASSUME NEW l \in Places PROVE Contents(l) \in {<<>>, <<NoTask>>}
        <4>1. /\ poolQueue = <<>> /\ schedQueue = <<>> /\ timers = {}
              /\ \A w \in Workers : held[w] = NoTask /\ pushed[w] = NoTask
              /\ \A r \in Runtimes : fgQueue[r] = <<>> /\ batch[r] = <<>>
          BY DEF Init
        <4>2. TasksOf(<<>>) = <<>>
          BY DEF TasksOf
        <4> QED BY <4>1, <4>2, PlaceKinds, ContentsOf
      <3> QED BY <3>1
    <2>2. \A l \in Places : Inside(l) = {} /\ Distinct(Contents(l))
      <3>1. Distinct(<<>>) /\ Distinct(<<NoTask>>)
        BY DEF Distinct
      <3> QED BY <2>1, <3>1, RangeOne DEF Inside
    <2>3. OwnedOnce /\ Born
      BY <2>2, Zenon DEF OwnedOnce, Distinct, Born
    <2>4. OwnQueues /\ OwnBatches /\ OwnPushed /\ Delayed /\ DrainedQuiet
      BY RangeOne, MainAssumption DEF Init, OwnQueues, OwnBatches, OwnPushed, Delayed, DrainedQuiet
    <2> QED BY <2>3, <2>4 DEF OwnershipInv
  <1>2. OwnershipInv /\ [Next]_vars => OwnershipInv'
    <2> SUFFICES ASSUME OwnershipInv, [PlatformStep]_vars PROVE OwnershipInv'
      BY ReuseOwnership, Zenon DEF Next
    <2>1. /\ Types /\ IndInv /\ OutstandingExact /\ OwnedOnce /\ Born
          /\ OwnQueues /\ OwnBatches /\ OwnPushed /\ Delayed /\ DrainedQuiet
      BY Zenon DEF OwnershipInv, IndInv, TypeOK, Types
    <2>2. IndInv' /\ OwnersKept
      <3>1. [Next]_vars
        BY Zenon DEF Next
      <3> QED BY <2>1, <3>1, InductiveStep, OwnersStep, Zenon
    <2>3. OwnedOnce' /\ Born'
      BY <2>1, <2>2, OwnedStep, Zenon
    <2>4. OwnQueues' /\ OwnBatches' /\ OwnPushed'
      BY <2>1, <2>2, OwnStep, Zenon
    <2>5. Delayed' /\ DrainedQuiet'
      BY <2>1, <2>2, DelayedStep, DrainedStep, Zenon
    <2> QED BY <2>2, <2>3, <2>4, <2>5, Zenon DEF OwnershipInv
  <1> QED BY <1>1, <1>2, PTL DEF Spec

(* A task is in at most one queue, timer, batch or worker's hands, so that it *)
(* is neither run nor deleted twice, whatever threads post and expire.       *)
THEOREM TaskOwnedOnce == Spec => []OwnedOnce
  BY OwnershipInductive, PTL DEF OwnershipInv

(* When DrainTasks returns on the main thread, no task of its isolate that   *)
(* does not stem from a delayed one is queued or running, although the       *)
(* threads of other isolates and the scheduler go on using the pool.         *)
THEOREM DrainIsComplete == Spec => DrainComplete
  <1>1. OwnershipInv /\ [Next]_vars =>
           [ pc[Main] # "checkpoint" /\ pc'[Main] = "checkpoint" =>
                \A t \in Tasks \ late : owner[t] = Main => ~Waiting(t) ]_vars
    <2> SUFFICES ASSUME OwnershipInv, [PlatformStep]_vars, pc[Main] # "checkpoint",
                        pc'[Main] = "checkpoint", NEW t \in Tasks \ late, owner[t] = Main
                 PROVE  ~Waiting(t)
      <3>1. ASSUME NEW t \in Reused, Reuse(t) PROVE UNCHANGED pc
        BY <3>1 DEF Reuse
      <3> QED BY <3>1, Zenon DEF Next
    <2>1. Types /\ DrainedQuiet
      BY Zenon DEF OwnershipInv, IndInv, TypeOK, Types
    <2> QED BY <2>1, CheckpointStep
  <1> QED BY <1>1, OwnershipInductive, PTL DEF Spec, DrainComplete

===============================================================================
