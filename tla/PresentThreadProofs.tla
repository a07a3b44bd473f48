------------------------- MODULE PresentThreadProofs -------------------------
(***************************************************************************)
(* TLAPS proofs of PresentThread's safety invariants for any sets of calls *)
(* and signals.                                                            *)
(***************************************************************************)
EXTENDS PresentThread, SequenceTheorems, TLAPS

(* Draining the queue into an empty batch leaves the whole unchanged. *)
LEMMA DrainQueue ==
    ASSUME NEW S, NEW h \in Seq(S), NEW q \in Seq(S)
    PROVE  h \o q \o <<>> = h \o <<>> \o q
  OBVIOUS

(* Handling the head of the batch leaves the whole unchanged. *)
LEMMA TakeFromBatch ==
    \A h, b, q \in Seq(Calls \cup {ExitMsg}) :
        b # <<>> => Append(h, Head(b)) \o Tail(b) \o q = h \o b \o q
  <1> SUFFICES ASSUME NEW h \in Seq(Calls \cup {ExitMsg}),
                      NEW b \in Seq(Calls \cup {ExitMsg}),
                      NEW q \in Seq(Calls \cup {ExitMsg}), b # <<>>
               PROVE  Append(h, Head(b)) \o Tail(b) \o q = h \o b \o q
    OBVIOUS
  <1>1. Append(h, Head(b)) \o Tail(b) = h \o b
    OBVIOUS
  <1> QED BY <1>1

(* The state before PresentThread::Start has the types of TypeOK. *)
LEMMA TypeInit == Init => TypeOK
  <1>1. Init => TypeControl
    BY DEF Init, TypeControl, HostStates, PresentPCs, MainPCs, Threads
  <1>2. Init => TypeFlags
    BY DEF Init, TypeFlags
  <1>3. Init => TypeQueues
    BY DEF Init, TypeQueues
  <1> QED BY <1>1, <1>2, <1>3 DEF TypeOK

(* Every step of either thread keeps the types, queue by queue. *)
LEMMA TypeStep == TypeOK /\ [Next]_vars => TypeOK'
  <1> SUFFICES ASSUME TypeControl, TypeFlags, TypeQueues, [Next]_vars
               PROVE  TypeControl' /\ TypeFlags' /\ TypeQueues'
    BY DEF TypeOK
  <1> USE DEF presentVars, presentQueueVars, mainQueueVars, hostVars
  <1>1. TypeControl'
    BY DEF TypeControl, HostStates, PresentPCs, MainPCs, Threads, vars, Next,
           Start, EnqueueRemoteCall, DisposeLock, DisposeEnqueueExit,
           DisposeReturn, PresentStep, PresentEnterLoop, PresentPoll,
           PresentExitLoop, PresentFinish, PresentWake, PresentDrain,
           PresentBeginCall, PresentReply, PresentHandleExit,
           PresentBatchDone, PresentEmit, PresentDisplayEvent, MainStep,
           MainWake, MainDrain, MainDispatch, MainDispatchDestroyed,
           MainBatchDone
  <1>2. TypeFlags'
    BY DEF TypeFlags, EnqueuePresent, EnqueueMain, vars, Next,
           Start, EnqueueRemoteCall, DisposeLock, DisposeEnqueueExit,
           DisposeReturn, PresentStep, PresentEnterLoop, PresentPoll,
           PresentExitLoop, PresentFinish, PresentWake, PresentDrain,
           PresentBeginCall, PresentReply, PresentHandleExit,
           PresentBatchDone, PresentEmit, PresentDisplayEvent, MainStep,
           MainWake, MainDrain, MainDispatch, MainDispatchDestroyed,
           MainBatchDone
  <1>3. TypeQueues'
    <2> USE DEF TypeQueues
    <2>1. CASE Start
      BY <2>1 DEF Start
    <2>2. ASSUME NEW c \in Calls, EnqueueRemoteCall(c) PROVE TypeQueues'
      <3>1. /\ Append(presentQueue, c) \in Seq(Calls \cup {ExitMsg})
            /\ Append(sent, c) \in Seq(Calls \cup {ExitMsg})
        OBVIOUS
      <3> QED BY <2>2, <3>1, Zenon DEF EnqueueRemoteCall, EnqueuePresent
    <2>3. CASE DisposeLock
      BY <2>3 DEF DisposeLock
    <2>4. CASE DisposeEnqueueExit
      <3>1. /\ Append(presentQueue, ExitMsg) \in Seq(Calls \cup {ExitMsg})
            /\ Append(sent, ExitMsg) \in Seq(Calls \cup {ExitMsg})
        OBVIOUS
      <3> QED BY <2>4, <3>1, Zenon DEF DisposeEnqueueExit, EnqueuePresent
    <2>5. CASE DisposeReturn
      BY <2>5 DEF DisposeReturn
    <2>6. CASE PresentEnterLoop
      BY <2>6 DEF PresentEnterLoop
    <2>7. CASE PresentPoll
      BY <2>7 DEF PresentPoll
    <2>8. CASE PresentFinish
      BY <2>8 DEF PresentFinish
    <2>9. CASE PresentWake
      BY <2>9 DEF PresentWake
    <2>10. CASE PresentDrain
      BY <2>10 DEF PresentDrain
    <2>11. CASE PresentBatchDone
      BY <2>11 DEF PresentBatchDone
    <2>12. CASE PresentDisplayEvent
      BY <2>12 DEF PresentDisplayEvent
    <2>13. CASE PresentExitLoop
      <3>1. /\ Append(mainQueue, ExitMsg) \in Seq(Messages)
            /\ Append(emitted, ExitMsg) \in Seq(Messages)
        BY DEF Messages
      <3> QED BY <2>13, <3>1, Zenon DEF PresentExitLoop, EnqueueMain
    <2>14. CASE PresentBeginCall
      BY <2>14 DEF PresentBeginCall
    <2>15. CASE PresentHandleExit
      BY <2>15 DEF PresentHandleExit
    <2>16. ASSUME NEW open \in BOOLEAN, PresentReply(open) PROVE TypeQueues'
      <3>1. /\ Append(mainQueue, current) \in Seq(Messages)
            /\ Append(emitted, current) \in Seq(Messages)
        BY <2>16 DEF PresentReply, TypeControl, Messages
      <3> QED BY <2>16, <3>1, Zenon DEF PresentReply, EnqueueMain
    <2>17. ASSUME NEW s \in Signals, PresentEmit(s) PROVE TypeQueues'
      <3>1. /\ Append(mainQueue, s) \in Seq(Messages)
            /\ Append(emitted, s) \in Seq(Messages)
        BY DEF Messages
      <3> QED BY <2>17, <3>1, Zenon DEF PresentEmit, EnqueueMain
    <2>18. CASE MainWake
      BY <2>18 DEF MainWake
    <2>19. CASE MainDrain
      BY <2>19 DEF MainDrain
    <2>20. CASE MainDispatchDestroyed
      BY <2>20 DEF MainDispatchDestroyed
    <2>21. CASE MainBatchDone
      BY <2>21 DEF MainBatchDone
    <2>22. CASE MainDispatch
      <3>1. Head(mainBatch) \in Messages /\ Tail(mainBatch) \in Seq(Messages)
        BY <2>22 DEF MainDispatch
      <3>2. settled' \in Seq(Calls \cup Signals)
        BY <2>22, <3>1 DEF MainDispatch, Messages
      <3> QED BY <2>22, <3>1, <3>2 DEF MainDispatch
    <2>23. CASE UNCHANGED vars
      BY <2>23 DEF vars
    <2> QED
      BY <2>1, <2>2, <2>3, <2>4, <2>5, <2>6, <2>7, <2>8, <2>9, <2>10, <2>11, <2>12,
         <2>13, <2>14, <2>15, <2>16, <2>17, <2>18, <2>19, <2>20, <2>21, <2>22, <2>23
         DEF Next, PresentStep, MainStep
  <1> QED BY <1>1, <1>2, <1>3

(* Type correctness of the two-thread protocol, for any calls and signals. *)
THEOREM TypeCorrect == Spec => []TypeOK
  BY TypeInit, TypeStep, PTL DEF Spec

------------------------------------------------------------------------------
(* Facts about where a message occurs.                                       *)

(* Enqueue adds its message to the ones in a queue or history, and no other. *)
LEMMA HasAppend ==
    ASSUME NEW S, NEW s \in Seq(S), NEW m \in S, NEW x
    PROVE  Has(Append(s, m), x) <=> Has(s, x) \/ m = x
  <1>1. ASSUME Has(Append(s, m), x) PROVE Has(s, x) \/ m = x
    BY <1>1 DEF Has
  <1>2. ASSUME Has(s, x) PROVE Has(Append(s, m), x)
    BY <1>2 DEF Has
  <1>3. ASSUME m = x PROVE Has(Append(s, m), x)
    <2>1. Len(s) + 1 \in DOMAIN Append(s, m) /\ Append(s, m)[Len(s) + 1] = m
      OBVIOUS
    <2> QED BY <1>3, <2>1 DEF Has
  <1> QED BY <1>1, <1>2, <1>3

(* The message the handler takes next is one that was sent. *)
LEMMA HeadOccurs ==
    ASSUME NEW S, NEW h \in Seq(S), NEW b \in Seq(S), NEW q \in Seq(S), b # <<>>
    PROVE  Has(h \o b \o q, Head(b))
  <1>1. /\ Len(h) + 1 \in DOMAIN (h \o b \o q)
        /\ (h \o b \o q)[Len(h) + 1] = Head(b)
    OBVIOUS
  <1> QED BY <1>1 DEF Has

(* When the last message was taken, nothing is left behind it. *)
LEMMA LastTaken ==
    ASSUME NEW S, NEW h \in Seq(S), NEW b \in Seq(S), NEW q \in Seq(S), NEW x,
           Has(h, x),
           \A i \in DOMAIN (h \o b \o q) : (h \o b \o q)[i] = x => i = Len(h \o b \o q)
    PROVE  b = <<>> /\ q = <<>>
  <1>1. PICK i \in DOMAIN h : h[i] = x
    BY DEF Has
  <1>2. i \in DOMAIN (h \o b \o q) /\ (h \o b \o q)[i] = x
    BY <1>1
  <1>3. i = Len(h) + Len(b) + Len(q) /\ i <= Len(h)
    BY <1>1, <1>2
  <1>4. Len(b) = 0 /\ Len(q) = 0
    BY <1>3
  <1> QED BY <1>4

------------------------------------------------------------------------------
(* One lemma per conjunct of the inductive invariant, one step per action.   *)

(* Only the dispatch loop of OnMessageComing holds drained messages. *)
LEMMA BatchStep ==
    ASSUME HostPhases, BatchOnlyInDispatch, [Next]_vars
    PROVE  BatchOnlyInDispatch'
  <1> USE DEF presentVars, presentQueueVars, mainQueueVars, hostVars
  <1> USE DEF BatchOnlyInDispatch
  <1>1. CASE Start
    BY <1>1 DEF Start, HostPhases
  <1>2. ASSUME NEW c \in Calls, EnqueueRemoteCall(c) PROVE BatchOnlyInDispatch'
    BY <1>2 DEF EnqueueRemoteCall
  <1>3. CASE DisposeLock
    BY <1>3 DEF DisposeLock
  <1>4. CASE DisposeEnqueueExit
    BY <1>4 DEF DisposeEnqueueExit
  <1>5. CASE DisposeReturn
    BY <1>5 DEF DisposeReturn
  <1>6. CASE PresentEnterLoop
    BY <1>6 DEF PresentEnterLoop
  <1>7. CASE PresentPoll
    BY <1>7 DEF PresentPoll
  <1>8. CASE PresentExitLoop
    BY <1>8 DEF PresentExitLoop
  <1>9. CASE PresentFinish
    BY <1>9 DEF PresentFinish
  <1>10. CASE PresentWake
    BY <1>10 DEF PresentWake
  <1>11. CASE PresentDrain
    BY <1>11 DEF PresentDrain
  <1>12. CASE PresentBeginCall
    BY <1>12, Zenon DEF PresentBeginCall
  <1>13. ASSUME NEW open \in BOOLEAN, PresentReply(open) PROVE BatchOnlyInDispatch'
    BY <1>13 DEF PresentReply
  <1>14. CASE PresentHandleExit
    BY <1>14, Zenon DEF PresentHandleExit
  <1>15. CASE PresentBatchDone
    BY <1>15 DEF PresentBatchDone
  <1>16. ASSUME NEW s \in Signals, PresentEmit(s) PROVE BatchOnlyInDispatch'
    BY <1>16 DEF PresentEmit
  <1>17. CASE PresentDisplayEvent
    BY <1>17 DEF PresentDisplayEvent
  <1>18. CASE MainWake
    BY <1>18 DEF MainWake
  <1>19. CASE MainDrain
    BY <1>19 DEF MainDrain
  <1>20. CASE MainDispatch
    BY <1>20 DEF MainDispatch
  <1>21. CASE MainDispatchDestroyed
    BY <1>21 DEF MainDispatchDestroyed
  <1>22. CASE MainBatchDone
    BY <1>22 DEF MainBatchDone
  <1>23. CASE UNCHANGED vars
    BY <1>23 DEF vars
  <1> QED
    BY <1>1, <1>2, <1>3, <1>4, <1>5, <1>6, <1>7, <1>8, <1>9,
       <1>10, <1>11, <1>12, <1>13, <1>14, <1>15, <1>16, <1>17,
       <1>18, <1>19, <1>20, <1>21, <1>22, <1>23 DEF Next, PresentStep, MainStep

(* No step of Enqueue, libuv's wake-up or the drain loses a notification. *)
LEMMA WakeupStep ==
    ASSUME HostPhases, NoLostWakeup, [Next]_vars
    PROVE  NoLostWakeup'
  <1> USE DEF presentVars, presentQueueVars, mainQueueVars, hostVars
  <1> USE DEF NoLostWakeup
  <1>1. CASE Start
    BY <1>1 DEF Start, HostPhases
  <1>2. ASSUME NEW c \in Calls, EnqueueRemoteCall(c) PROVE NoLostWakeup'
    BY <1>2 DEF EnqueueRemoteCall, EnqueuePresent
  <1>3. CASE DisposeLock
    BY <1>3 DEF DisposeLock
  <1>4. CASE DisposeEnqueueExit
    BY <1>4 DEF DisposeEnqueueExit, EnqueuePresent
  <1>5. CASE DisposeReturn
    BY <1>5 DEF DisposeReturn
  <1>6. CASE PresentEnterLoop
    BY <1>6 DEF PresentEnterLoop
  <1>7. CASE PresentPoll
    BY <1>7 DEF PresentPoll
  <1>8. CASE PresentExitLoop
    BY <1>8 DEF PresentExitLoop, EnqueueMain
  <1>9. CASE PresentFinish
    BY <1>9 DEF PresentFinish
  <1>10. CASE PresentWake
    BY <1>10 DEF PresentWake
  <1>11. CASE PresentDrain
    BY <1>11 DEF PresentDrain
  <1>12. CASE PresentBeginCall
    BY <1>12 DEF PresentBeginCall
  <1>13. ASSUME NEW open \in BOOLEAN, PresentReply(open) PROVE NoLostWakeup'
    BY <1>13 DEF PresentReply, EnqueueMain
  <1>14. CASE PresentHandleExit
    BY <1>14 DEF PresentHandleExit
  <1>15. CASE PresentBatchDone
    BY <1>15 DEF PresentBatchDone
  <1>16. ASSUME NEW s \in Signals, PresentEmit(s) PROVE NoLostWakeup'
    BY <1>16 DEF PresentEmit, EnqueueMain
  <1>17. CASE PresentDisplayEvent
    BY <1>17 DEF PresentDisplayEvent
  <1>18. CASE MainWake
    BY <1>18 DEF MainWake
  <1>19. CASE MainDrain
    BY <1>19 DEF MainDrain
  <1>20. CASE MainDispatch
    BY <1>20 DEF MainDispatch
  <1>21. CASE MainDispatchDestroyed
    BY <1>21 DEF MainDispatchDestroyed
  <1>22. CASE MainBatchDone
    BY <1>22 DEF MainBatchDone
  <1>23. CASE UNCHANGED vars
    BY <1>23 DEF vars
  <1> QED
    BY <1>1, <1>2, <1>3, <1>4, <1>5, <1>6, <1>7, <1>8, <1>9,
       <1>10, <1>11, <1>12, <1>13, <1>14, <1>15, <1>16, <1>17,
       <1>18, <1>19, <1>20, <1>21, <1>22, <1>23 DEF Next, PresentStep, MainStep

(* Moving a message from queue to batch to handler keeps Enqueue's order. *)
LEMMA FIFOStep ==
    ASSUME TypeQueues, BatchOnlyInDispatch, PresentFIFO, [Next]_vars
    PROVE  PresentFIFO'
  <1> USE DEF presentVars, presentQueueVars, mainQueueVars, hostVars
  <1> USE DEF PresentFIFO
  <1>1. CASE Start
    BY <1>1 DEF Start
  <1>2. ASSUME NEW c \in Calls, EnqueueRemoteCall(c) PROVE PresentFIFO'
    <2>1. handled \o presentBatch \o Append(presentQueue, c)
            = Append(handled \o presentBatch \o presentQueue, c)
      BY DEF TypeQueues
    <2> QED BY <1>2, <2>1, Zenon DEF EnqueueRemoteCall, EnqueuePresent
  <1>3. CASE DisposeLock
    BY <1>3 DEF DisposeLock
  <1>4. CASE DisposeEnqueueExit
    <2>1. handled \o presentBatch \o Append(presentQueue, ExitMsg)
            = Append(handled \o presentBatch \o presentQueue, ExitMsg)
      BY DEF TypeQueues
    <2> QED BY <1>4, <2>1, Zenon DEF DisposeEnqueueExit, EnqueuePresent
  <1>5. CASE DisposeReturn
    BY <1>5 DEF DisposeReturn
  <1>6. CASE PresentEnterLoop
    BY <1>6 DEF PresentEnterLoop
  <1>7. CASE PresentPoll
    BY <1>7 DEF PresentPoll
  <1>8. CASE PresentExitLoop
    BY <1>8 DEF PresentExitLoop
  <1>9. CASE PresentFinish
    BY <1>9 DEF PresentFinish
  <1>10. CASE PresentWake
    BY <1>10 DEF PresentWake
  <1>11. CASE PresentDrain
    <2>1. presentBatch = <<>>
      BY <1>11 DEF PresentDrain, BatchOnlyInDispatch
    <2>2. handled \o presentQueue \o <<>> = handled \o <<>> \o presentQueue
      BY DrainQueue DEF TypeQueues
    <2> QED BY <1>11, <2>1, <2>2, Zenon DEF PresentDrain
  <1>12. CASE PresentBeginCall
    <2>1. Append(handled, Head(presentBatch)) \o Tail(presentBatch) \o presentQueue
            = handled \o presentBatch \o presentQueue
      <3>1. presentBatch # <<>>
        BY <1>12 DEF PresentBeginCall
      <3>2. /\ handled \in Seq(Calls \cup {ExitMsg})
            /\ presentBatch \in Seq(Calls \cup {ExitMsg})
            /\ presentQueue \in Seq(Calls \cup {ExitMsg})
        BY DEF TypeQueues
      <3> QED BY <3>1, <3>2, TakeFromBatch
    <2> QED BY <1>12, <2>1, Zenon DEF PresentBeginCall
  <1>13. ASSUME NEW open \in BOOLEAN, PresentReply(open) PROVE PresentFIFO'
    BY <1>13 DEF PresentReply
  <1>14. CASE PresentHandleExit
    <2>1. Append(handled, Head(presentBatch)) \o Tail(presentBatch) \o presentQueue
            = handled \o presentBatch \o presentQueue
      <3>1. presentBatch # <<>>
        BY <1>14 DEF PresentHandleExit
      <3>2. /\ handled \in Seq(Calls \cup {ExitMsg})
            /\ presentBatch \in Seq(Calls \cup {ExitMsg})
            /\ presentQueue \in Seq(Calls \cup {ExitMsg})
        BY DEF TypeQueues
      <3> QED BY <3>1, <3>2, TakeFromBatch
    <2> QED BY <1>14, <2>1, Zenon DEF PresentHandleExit
  <1>15. CASE PresentBatchDone
    BY <1>15 DEF PresentBatchDone
  <1>16. ASSUME NEW s \in Signals, PresentEmit(s) PROVE PresentFIFO'
    BY <1>16 DEF PresentEmit
  <1>17. CASE PresentDisplayEvent
    BY <1>17 DEF PresentDisplayEvent
  <1>18. CASE MainWake
    BY <1>18 DEF MainWake
  <1>19. CASE MainDrain
    BY <1>19 DEF MainDrain
  <1>20. CASE MainDispatch
    BY <1>20 DEF MainDispatch
  <1>21. CASE MainDispatchDestroyed
    BY <1>21 DEF MainDispatchDestroyed
  <1>22. CASE MainBatchDone
    BY <1>22 DEF MainBatchDone
  <1>23. CASE UNCHANGED vars
    BY <1>23 DEF vars
  <1> QED
    BY <1>1, <1>2, <1>3, <1>4, <1>5, <1>6, <1>7, <1>8, <1>9,
       <1>10, <1>11, <1>12, <1>13, <1>14, <1>15, <1>16, <1>17,
       <1>18, <1>19, <1>20, <1>21, <1>22, <1>23 DEF Next, PresentStep, MainStep

(* Start, Dispose and the handler of the null message keep the host's phases. *)
LEMMA PhasesStep ==
    ASSUME TypeQueues, PresentFIFO, HostPhases, [Next]_vars
    PROVE  HostPhases'
  <1> USE DEF presentVars, presentQueueVars, mainQueueVars, hostVars
  <1> USE DEF HostPhases
  <1>1. CASE Start
    BY <1>1 DEF Start, Has
  <1>2. ASSUME NEW c \in Calls, EnqueueRemoteCall(c) PROVE HostPhases'
    <2>1. ASSUME ~Has(sent, ExitMsg) PROVE ~Has(Append(sent, c), ExitMsg)
      <3>1. c \in Calls \cup {ExitMsg} /\ c # ExitMsg
        BY MessagesDistinct
      <3> QED BY <2>1, <3>1 DEF TypeQueues, Has
    <2> QED BY <1>2, <2>1, Zenon DEF EnqueueRemoteCall, EnqueuePresent
  <1>3. CASE DisposeLock
    BY <1>3 DEF DisposeLock
  <1>4. CASE DisposeEnqueueExit
    BY <1>4 DEF DisposeEnqueueExit, EnqueuePresent
  <1>5. CASE DisposeReturn
    BY <1>5 DEF DisposeReturn
  <1>6. CASE PresentEnterLoop
    BY <1>6 DEF PresentEnterLoop
  <1>7. CASE PresentPoll
    BY <1>7 DEF PresentPoll
  <1>8. CASE PresentExitLoop
    BY <1>8 DEF PresentExitLoop
  <1>9. CASE PresentFinish
    BY <1>9 DEF PresentFinish
  <1>10. CASE PresentWake
    BY <1>10 DEF PresentWake
  <1>11. CASE PresentDrain
    BY <1>11 DEF PresentDrain
  <1>12. CASE PresentBeginCall
    <2>1. Has(handled, ExitMsg) => Has(handled', ExitMsg)
      <3>1. handled' = Append(handled, Head(presentBatch))
        BY <1>12 DEF PresentBeginCall
      <3>2. Head(presentBatch) \in Calls \cup {ExitMsg}
        BY <1>12 DEF PresentBeginCall
      <3> QED BY <3>1, <3>2, HasAppend DEF TypeQueues
    <2> QED BY <1>12, <2>1 DEF PresentBeginCall
  <1>13. ASSUME NEW open \in BOOLEAN, PresentReply(open) PROVE HostPhases'
    BY <1>13 DEF PresentReply
  <1>14. CASE PresentHandleExit
    <2>1. Has(sent, ExitMsg)
      BY <1>14, HeadOccurs DEF PresentHandleExit, TypeQueues, PresentFIFO
    <2>2. host \notin {"running", "locked"}
      BY <2>1
    <2>3. host # "none"
      BY <2>1 DEF Has
    <2>4. Has(handled', ExitMsg)
      <3>1. handled' = Append(handled, ExitMsg)
        BY <1>14 DEF PresentHandleExit
      <3> QED BY <3>1, ExitMsg \in Calls \cup {ExitMsg}, HasAppend, Zenon DEF TypeQueues
    <2> QED BY <1>14, <2>2, <2>3, <2>4 DEF PresentHandleExit
  <1>15. CASE PresentBatchDone
    BY <1>15 DEF PresentBatchDone
  <1>16. ASSUME NEW s \in Signals, PresentEmit(s) PROVE HostPhases'
    BY <1>16 DEF PresentEmit
  <1>17. CASE PresentDisplayEvent
    BY <1>17 DEF PresentDisplayEvent
  <1>18. CASE MainWake
    BY <1>18 DEF MainWake
  <1>19. CASE MainDrain
    BY <1>19 DEF MainDrain
  <1>20. CASE MainDispatch
    BY <1>20 DEF MainDispatch
  <1>21. CASE MainDispatchDestroyed
    BY <1>21 DEF MainDispatchDestroyed
  <1>22. CASE MainBatchDone
    BY <1>22 DEF MainBatchDone
  <1>23. CASE UNCHANGED vars
    BY <1>23 DEF vars
  <1> QED
    BY <1>1, <1>2, <1>3, <1>4, <1>5, <1>6, <1>7, <1>8, <1>9,
       <1>10, <1>11, <1>12, <1>13, <1>14, <1>15, <1>16, <1>17,
       <1>18, <1>19, <1>20, <1>21, <1>22, <1>23 DEF Next, PresentStep, MainStep

(* Nothing is enqueued behind the null message of Dispose. *)
LEMMA ExitStep ==
    ASSUME TypeQueues, HostPhases, ExitAtEnd, [Next]_vars
    PROVE  ExitAtEnd'
  <1> USE DEF presentVars, presentQueueVars, mainQueueVars, hostVars
  <1> USE DEF ExitAtEnd
  <1>1. CASE Start
    BY <1>1 DEF Start
  <1>2. ASSUME NEW c \in Calls, EnqueueRemoteCall(c) PROVE ExitAtEnd'
    <2>1. CASE QueueAlive
      <3>1. sent' = Append(sent, c)
        BY <1>2, <2>1 DEF EnqueueRemoteCall, EnqueuePresent
      <3>2. ~Has(sent, ExitMsg) /\ c # ExitMsg
        BY <1>2, MessagesDistinct DEF EnqueueRemoteCall, HostPhases
      <3>3. ~Has(Append(sent, c), ExitMsg)
        BY <3>2, c \in Calls \cup {ExitMsg}, HasAppend, Zenon DEF TypeQueues
      <3> QED BY <3>1, <3>3 DEF Has
    <2>2. CASE ~QueueAlive
      BY <1>2, <2>2 DEF EnqueueRemoteCall
    <2> QED BY <2>1, <2>2
  <1>3. CASE DisposeLock
    BY <1>3 DEF DisposeLock
  <1>4. CASE DisposeEnqueueExit
    <2>1. sent' = Append(sent, ExitMsg)
      BY <1>4 DEF DisposeEnqueueExit, EnqueuePresent
    <2>2. ~Has(sent, ExitMsg)
      BY <1>4 DEF DisposeEnqueueExit, HostPhases
    <2> QED BY <2>1, <2>2 DEF Has, TypeQueues
  <1>5. CASE DisposeReturn
    BY <1>5 DEF DisposeReturn
  <1>6. CASE PresentEnterLoop
    BY <1>6 DEF PresentEnterLoop
  <1>7. CASE PresentPoll
    BY <1>7 DEF PresentPoll
  <1>8. CASE PresentExitLoop
    BY <1>8 DEF PresentExitLoop
  <1>9. CASE PresentFinish
    BY <1>9 DEF PresentFinish
  <1>10. CASE PresentWake
    BY <1>10 DEF PresentWake
  <1>11. CASE PresentDrain
    BY <1>11 DEF PresentDrain
  <1>12. CASE PresentBeginCall
    BY <1>12 DEF PresentBeginCall
  <1>13. ASSUME NEW open \in BOOLEAN, PresentReply(open) PROVE ExitAtEnd'
    BY <1>13 DEF PresentReply
  <1>14. CASE PresentHandleExit
    BY <1>14 DEF PresentHandleExit
  <1>15. CASE PresentBatchDone
    BY <1>15 DEF PresentBatchDone
  <1>16. ASSUME NEW s \in Signals, PresentEmit(s) PROVE ExitAtEnd'
    BY <1>16 DEF PresentEmit
  <1>17. CASE PresentDisplayEvent
    BY <1>17 DEF PresentDisplayEvent
  <1>18. CASE MainWake
    BY <1>18 DEF MainWake
  <1>19. CASE MainDrain
    BY <1>19 DEF MainDrain
  <1>20. CASE MainDispatch
    BY <1>20 DEF MainDispatch
  <1>21. CASE MainDispatchDestroyed
    BY <1>21 DEF MainDispatchDestroyed
  <1>22. CASE MainBatchDone
    BY <1>22 DEF MainBatchDone
  <1>23. CASE UNCHANGED vars
    BY <1>23 DEF vars
  <1> QED
    BY <1>1, <1>2, <1>3, <1>4, <1>5, <1>6, <1>7, <1>8, <1>9,
       <1>10, <1>11, <1>12, <1>13, <1>14, <1>15, <1>16, <1>17,
       <1>18, <1>19, <1>20, <1>21, <1>22, <1>23 DEF Next, PresentStep, MainStep

(* The present queue loses, repeats and reorders nothing, no notification is *)
(* lost, the null message is its last message and is behind no drained one,  *)
(* and a reachable PresentThread always has a queue to enqueue into.         *)
LEMMA ProtocolSafe ==
    Spec => [](PresentFIFO /\ NoLostWakeup /\ ExitIsLast /\ QueueAvailable)
  <1>1. Init => IndInv
    BY TypeInit DEF Init, IndInv, HostPhases, BatchOnlyInDispatch, PresentFIFO,
                    ExitAtEnd, NoLostWakeup
  <1>2. IndInv /\ [Next]_vars => IndInv'
    BY TypeStep, PhasesStep, BatchStep, FIFOStep, ExitStep, WakeupStep
       DEF IndInv, TypeOK
  <1>3. IndInv => PresentFIFO /\ NoLostWakeup /\ ExitIsLast /\ QueueAvailable
    <2> SUFFICES ASSUME IndInv
                 PROVE  ExitIsLast /\ QueueAvailable
      BY DEF IndInv
    <2>1. ASSUME host # "none", "present" \notin presentOwners
          PROVE  presentBatch = <<>> /\ presentQueue = <<>>
      <3>1. Has(handled, ExitMsg)
        BY <2>1 DEF IndInv, HostPhases
      <3>2. \A i \in DOMAIN (handled \o presentBatch \o presentQueue) :
                (handled \o presentBatch \o presentQueue)[i] = ExitMsg
                    => i = Len(handled \o presentBatch \o presentQueue)
        BY DEF IndInv, PresentFIFO, ExitAtEnd
      <3> QED BY <3>1, <3>2, LastTaken DEF IndInv, TypeOK, TypeQueues
    <2> QED BY <2>1 DEF IndInv, ExitIsLast, QueueAvailable, HostPhases
  <1> QED BY <1>1, <1>2, <1>3, PTL DEF Spec

(* The present thread takes every message it is sent, once and in order.     *)
THEOREM QueueIsFIFO == Spec => []PresentFIFO
  BY ProtocolSafe, PTL

(* Coalesced notifications never leave a message in a queue unannounced.     *)
THEOREM NoWakeupLost == Spec => []NoLostWakeup
  BY ProtocolSafe, PTL

(* The queue the null message destroys has nothing left to dispatch.         *)
THEOREM NullMessageIsLast == Spec => []ExitIsLast
  BY ProtocolSafe, PTL

-------------------------------------------------------------------------------
(* The order of host callbacks.                                            *)

(* A longer sequence keeps what was in it, and its order.                    *)
LEMMA Grows ==
    ASSUME NEW S, NEW s \in Seq(S), NEW m \in S, NEW x, NEW y
    PROVE  /\ Has(s, x) => Has(Append(s, m), x)
           /\ Before(s, x, y) => Before(Append(s, m), x, y)
           /\ Has(s, x) => Before(Append(s, m), x, m)
  <1>1. \A i \in DOMAIN s : i \in DOMAIN Append(s, m) /\ Append(s, m)[i] = s[i]
    OBVIOUS
  <1>2. /\ Len(s) + 1 \in DOMAIN Append(s, m) /\ Append(s, m)[Len(s) + 1] = m
        /\ \A i \in DOMAIN s : i < Len(s) + 1
    OBVIOUS
  <1> QED BY <1>1, <1>2, Zenon DEF Has, Before

(* An appended message comes after the others, and only it is new.           *)
LEMMA BeforeAppend ==
    ASSUME NEW S, NEW s \in Seq(S), NEW m \in S, NEW x, NEW y,
           Before(Append(s, m), x, y)
    PROVE  Before(s, x, y) \/ (Has(s, x) /\ y = m)
  <1>2. PICK i, j \in DOMAIN Append(s, m) :
            i < j /\ Append(s, m)[i] = x /\ Append(s, m)[j] = y
    BY DEF Before
  <1>1. i \in 1 .. (Len(s) + 1) /\ j \in 1 .. (Len(s) + 1) /\ Len(s) \in Nat
    BY <1>2
  <1>3. i \in DOMAIN s /\ s[i] = x
    <2>1. i \in 1 .. Len(s)
      BY <1>1, <1>2
    <2>2. i \in DOMAIN s /\ Append(s, m)[i] = s[i]
      BY <2>1
    <2> QED BY <1>2, <2>2
  <1>4. CASE j = Len(s) + 1
    <2>1. y = m
      BY <1>2, <1>4
    <2> QED BY <1>3, <2>1 DEF Has
  <1>5. CASE j # Len(s) + 1
    <2>1. j \in 1 .. Len(s)
      BY <1>1, <1>5
    <2>2. j \in DOMAIN s /\ Append(s, m)[j] = s[j]
      BY <2>1
    <2> QED BY <1>2, <1>3, <2>2 DEF Before
  <1> QED BY <1>4, <1>5

(* What holds of a prefix holds of the whole.                                *)
LEMMA PrefixOrder ==
    ASSUME NEW S, NEW s \in Seq(S), NEW t \in Seq(S), NEW x, NEW y
    PROVE  /\ Has(s, x) => Has(s \o t, x)
           /\ Before(s, x, y) => Before(s \o t, x, y)
  <1>1. \A i \in DOMAIN s : i \in DOMAIN (s \o t) /\ (s \o t)[i] = s[i]
    OBVIOUS
  <1> QED BY <1>1, Zenon DEF Has, Before

(* Dropping the head of the batch leaves the order of the others.            *)
LEMMA DropOrder ==
    ASSUME NEW S, NEW s \in Seq(S), NEW h \in S, NEW t \in Seq(S), NEW x, NEW y
    PROVE  /\ Has(s \o t, x) => Has(Append(s, h) \o t, x)
           /\ Before(s \o t, x, y) => Before(Append(s, h) \o t, x, y)
  <1> DEFINE l == s \o t
             r == Append(s, h) \o t
             f(i) == IF i <= Len(s) THEN i ELSE i + 1
  <1>1. /\ DOMAIN l = 1 .. (Len(s) + Len(t)) /\ DOMAIN r = 1 .. (Len(s) + 1 + Len(t))
        /\ Len(s) \in Nat /\ Len(t) \in Nat
    OBVIOUS
  <1>2. ASSUME NEW i \in DOMAIN l PROVE f(i) \in DOMAIN r /\ r[f(i)] = l[i]
    <2>1. CASE i <= Len(s)
      BY <1>1, <2>1
    <2>2. CASE i > Len(s)
      <3>1. i + 1 \in DOMAIN r /\ r[i + 1] = t[i - Len(s)] /\ l[i] = t[i - Len(s)]
        BY <1>1, <2>2
      <3> QED BY <2>2, <3>1, <1>1
    <2> QED BY <2>1, <2>2, <1>1
  <1>3. \A i, j \in DOMAIN l : i < j => f(i) < f(j)
    BY <1>1
  <1> HIDE DEF l, r, f
  <1>4. /\ Has(l, x) => Has(r, x)
        /\ Before(l, x, y) => Before(r, x, y)
    BY <1>2, <1>3, Zenon DEF Has, Before
  <1> QED BY <1>4 DEF l, r

(* Replies and signals on their way to JavaScript, oldest first              *)
Pending == settled \o mainBatch \o mainQueue

(* No message is sent twice.                                                 *)
SentOnce == \A i, j \in DOMAIN sent : sent[i] = sent[j] => i = j

(* The call being executed is the last that was handled.                     *)
CurrentIsLast ==
    current # NoCall => handled # <<>> /\ handled[Len(handled)] = current

(* What was replied to was handled before.                                   *)
RepliedIsDone ==
    \A c \in Calls : Has(emitted, c) => Has(handled, c) /\ current # c

(* What is settled, in the main batch and in the main queue is what was      *)
(* emitted, in this order.                                                   *)
PendingInOrder ==
    /\ \A x \in Messages : Has(Pending, x) => Has(emitted, x)
    /\ \A x, y \in Messages : Before(Pending, x, y) => Before(emitted, x, y)

(* Replies are emitted in the order of the handled calls.                    *)
RepliesInOrder ==
    \A x, y \in Calls : Before(emitted, x, y) => Before(handled, x, y)

(* The strengthening that makes HostOrder and SettledWasHandled inductive    *)
OrderInv ==
    SentOnce /\ CurrentIsLast /\ RepliedIsDone /\ PendingInOrder /\ RepliesInOrder

(* No message is sent twice.                                                 *)
LEMMA SentOnceStep ==
    ASSUME TypeQueues, HostPhases, SentOnce, [Next]_vars
    PROVE  SentOnce'
  <1> USE DEF presentVars, presentQueueVars, mainQueueVars, hostVars, SentOnce
  <1>1. CASE Start
    BY <1>1 DEF Start
  <1>2. ASSUME NEW c \in Calls, EnqueueRemoteCall(c) PROVE SentOnce'
    <2>1. CASE QueueAlive
      <3>1. sent' = Append(sent, c) /\ ~Has(sent, c)
        BY <1>2, <2>1 DEF EnqueueRemoteCall, EnqueuePresent
      <3> QED BY <3>1 DEF Has, TypeQueues
    <2>2. CASE ~QueueAlive
      BY <1>2, <2>2 DEF EnqueueRemoteCall
    <2> QED BY <2>1, <2>2
  <1>3. CASE DisposeLock
    BY <1>3 DEF DisposeLock
  <1>4. CASE DisposeEnqueueExit
    <2>1. sent' = Append(sent, ExitMsg) /\ ~Has(sent, ExitMsg)
      BY <1>4 DEF DisposeEnqueueExit, EnqueuePresent, HostPhases
    <2> QED BY <2>1 DEF Has, TypeQueues
  <1>5. CASE DisposeReturn
    BY <1>5 DEF DisposeReturn
  <1>6. CASE PresentEnterLoop
    BY <1>6 DEF PresentEnterLoop
  <1>7. CASE PresentPoll
    BY <1>7 DEF PresentPoll
  <1>8. CASE PresentExitLoop
    BY <1>8 DEF PresentExitLoop, EnqueueMain
  <1>9. CASE PresentFinish
    BY <1>9 DEF PresentFinish
  <1>10. CASE PresentWake
    BY <1>10 DEF PresentWake
  <1>11. CASE PresentDrain
    BY <1>11 DEF PresentDrain
  <1>12. CASE PresentBeginCall
    BY <1>12 DEF PresentBeginCall
  <1>13. ASSUME NEW open \in BOOLEAN, PresentReply(open) PROVE SentOnce'
    BY <1>13 DEF PresentReply, EnqueueMain
  <1>14. CASE PresentHandleExit
    BY <1>14 DEF PresentHandleExit
  <1>15. CASE PresentBatchDone
    BY <1>15 DEF PresentBatchDone
  <1>16. ASSUME NEW s \in Signals, PresentEmit(s) PROVE SentOnce'
    BY <1>16 DEF PresentEmit, EnqueueMain
  <1>17. CASE PresentDisplayEvent
    BY <1>17 DEF PresentDisplayEvent
  <1>18. CASE MainWake
    BY <1>18 DEF MainWake
  <1>19. CASE MainDrain
    BY <1>19 DEF MainDrain
  <1>20. CASE MainDispatch
    BY <1>20 DEF MainDispatch
  <1>21. CASE MainDispatchDestroyed
    BY <1>21 DEF MainDispatchDestroyed
  <1>22. CASE MainBatchDone
    BY <1>22 DEF MainBatchDone
  <1>23. CASE UNCHANGED vars
    BY <1>23 DEF vars
  <1> QED
    BY <1>1, <1>2, <1>3, <1>4, <1>5, <1>6, <1>7, <1>8, <1>9, <1>10, <1>11,
       <1>12, <1>13, <1>14, <1>15, <1>16, <1>17, <1>18, <1>19, <1>20, <1>21,
       <1>22, <1>23
       DEF Next, PresentStep, MainStep

(* The call being executed is the last one the handler took.                 *)
LEMMA CurrentStep ==
    ASSUME TypeControl, TypeQueues, CurrentIsLast, [Next]_vars
    PROVE  CurrentIsLast'
  <1> USE DEF presentVars, presentQueueVars, mainQueueVars, hostVars, CurrentIsLast
  <1>1. CASE Start
    BY <1>1 DEF Start
  <1>2. ASSUME NEW c \in Calls, EnqueueRemoteCall(c) PROVE CurrentIsLast'
    BY <1>2 DEF EnqueueRemoteCall, EnqueuePresent
  <1>3. CASE DisposeLock
    BY <1>3 DEF DisposeLock
  <1>4. CASE DisposeEnqueueExit
    BY <1>4 DEF DisposeEnqueueExit, EnqueuePresent
  <1>5. CASE DisposeReturn
    BY <1>5 DEF DisposeReturn
  <1>6. CASE PresentEnterLoop
    BY <1>6 DEF PresentEnterLoop
  <1>7. CASE PresentPoll
    BY <1>7 DEF PresentPoll
  <1>8. CASE PresentExitLoop
    BY <1>8 DEF PresentExitLoop, EnqueueMain
  <1>9. CASE PresentFinish
    BY <1>9 DEF PresentFinish
  <1>10. CASE PresentWake
    BY <1>10 DEF PresentWake
  <1>11. CASE PresentDrain
    BY <1>11 DEF PresentDrain
  <1>12. CASE PresentBeginCall
    <2>1. /\ handled' = Append(handled, Head(presentBatch))
          /\ current' = Head(presentBatch) /\ Head(presentBatch) \in Calls
      BY <1>12 DEF PresentBeginCall
    <2>2. handled \in Seq(Calls \cup {ExitMsg})
      BY DEF TypeQueues
    <2>3. /\ Append(handled, Head(presentBatch)) # <<>>
          /\ Append(handled, Head(presentBatch))[Len(Append(handled, Head(presentBatch)))]
                = Head(presentBatch)
      BY <2>1, <2>2
    <2> QED BY <2>1, <2>3
  <1>13. ASSUME NEW open \in BOOLEAN, PresentReply(open) PROVE CurrentIsLast'
    BY <1>13 DEF PresentReply, EnqueueMain
  <1>14. CASE PresentHandleExit
    BY <1>14 DEF PresentHandleExit
  <1>15. CASE PresentBatchDone
    BY <1>15 DEF PresentBatchDone
  <1>16. ASSUME NEW s \in Signals, PresentEmit(s) PROVE CurrentIsLast'
    BY <1>16 DEF PresentEmit, EnqueueMain
  <1>17. CASE PresentDisplayEvent
    BY <1>17 DEF PresentDisplayEvent
  <1>18. CASE MainWake
    BY <1>18 DEF MainWake
  <1>19. CASE MainDrain
    BY <1>19 DEF MainDrain
  <1>20. CASE MainDispatch
    BY <1>20 DEF MainDispatch
  <1>21. CASE MainDispatchDestroyed
    BY <1>21 DEF MainDispatchDestroyed
  <1>22. CASE MainBatchDone
    BY <1>22 DEF MainBatchDone
  <1>23. CASE UNCHANGED vars
    BY <1>23 DEF vars
  <1> QED
    BY <1>1, <1>2, <1>3, <1>4, <1>5, <1>6, <1>7, <1>8, <1>9, <1>10, <1>11,
       <1>12, <1>13, <1>14, <1>15, <1>16, <1>17, <1>18, <1>19, <1>20, <1>21,
       <1>22, <1>23
       DEF Next, PresentStep, MainStep

(* The handler takes nothing twice: the head of the batch is new to it.      *)
LEMMA HeadIsNew ==
    ASSUME TypeQueues, PresentFIFO, SentOnce, presentBatch # <<>>
    PROVE  ~Has(handled, Head(presentBatch))
  <1>1. ASSUME NEW i \in DOMAIN handled, handled[i] = Head(presentBatch) PROVE FALSE
    <2>1. /\ Len(handled) + 1 \in DOMAIN (handled \o presentBatch \o presentQueue)
          /\ (handled \o presentBatch \o presentQueue)[Len(handled) + 1]
                = Head(presentBatch)
          /\ i \in DOMAIN (handled \o presentBatch \o presentQueue)
          /\ (handled \o presentBatch \o presentQueue)[i] = handled[i]
          /\ i # Len(handled) + 1
      BY DEF TypeQueues
    <2> QED BY <1>1, <2>1, Zenon DEF SentOnce, PresentFIFO
  <1> QED BY <1>1 DEF Has

(* A reply is of a call that was executed to its end.                        *)
LEMMA RepliedStep ==
    ASSUME TypeControl, TypeQueues, PresentFIFO, SentOnce, CurrentIsLast,
           RepliedIsDone, [Next]_vars
    PROVE  RepliedIsDone'
  <1> USE DEF presentVars, presentQueueVars, mainQueueVars, hostVars, RepliedIsDone
  <1>1. CASE Start
    BY <1>1 DEF Start
  <1>2. ASSUME NEW c \in Calls, EnqueueRemoteCall(c) PROVE RepliedIsDone'
    BY <1>2 DEF EnqueueRemoteCall, EnqueuePresent
  <1>3. CASE DisposeLock
    BY <1>3 DEF DisposeLock
  <1>4. CASE DisposeEnqueueExit
    BY <1>4 DEF DisposeEnqueueExit, EnqueuePresent
  <1>5. CASE DisposeReturn
    BY <1>5 DEF DisposeReturn
  <1>6. CASE PresentEnterLoop
    BY <1>6 DEF PresentEnterLoop
  <1>7. CASE PresentPoll
    BY <1>7 DEF PresentPoll
  <1>8. CASE PresentExitLoop
    <2>1. emitted' = Append(emitted, ExitMsg) /\ UNCHANGED <<handled, current>>
      BY <1>8 DEF PresentExitLoop, EnqueueMain
    <2>2. /\ emitted \in Seq(Messages) /\ ExitMsg \in Messages
          /\ \A c \in Calls : c # ExitMsg
      BY <1>8, MessagesDistinct DEF TypeQueues, Messages
    <2>3. ASSUME NEW c \in Calls PROVE Has(emitted', c) <=> Has(emitted, c)
      BY <2>1, <2>2, HasAppend, Zenon
    <2> QED BY <2>1, <2>3
  <1>9. CASE PresentFinish
    BY <1>9 DEF PresentFinish
  <1>10. CASE PresentWake
    BY <1>10 DEF PresentWake
  <1>11. CASE PresentDrain
    BY <1>11 DEF PresentDrain
  <1>12. CASE PresentBeginCall
    <2>1. /\ handled' = Append(handled, Head(presentBatch))
          /\ current' = Head(presentBatch) /\ Head(presentBatch) \in Calls
          /\ presentBatch # <<>> /\ UNCHANGED emitted
      BY <1>12 DEF PresentBeginCall
    <2>2. ASSUME NEW c \in Calls, Has(handled, c) PROVE Has(handled', c)
      <3>1. /\ handled \in Seq(Calls \cup {ExitMsg})
            /\ Head(presentBatch) \in Calls \cup {ExitMsg}
        BY <2>1 DEF TypeQueues
      <3> QED BY <2>1, <2>2, <3>1, Grows, Zenon
    <2>3. ~Has(handled, Head(presentBatch))
      BY <2>1, HeadIsNew
    <2> QED BY <2>1, <2>2, <2>3
  <1>13. ASSUME NEW open \in BOOLEAN, PresentReply(open) PROVE RepliedIsDone'
    <2>1. /\ emitted' = Append(emitted, current) /\ UNCHANGED handled
          /\ current \in Calls /\ current' = NoCall
      BY <1>13 DEF PresentReply, EnqueueMain, TypeControl
    <2>2. Has(handled, current)
      <3>1. Len(handled) \in DOMAIN handled
        BY <2>1, MessagesDistinct DEF CurrentIsLast, TypeQueues
      <3> QED BY <3>1, <2>1, MessagesDistinct DEF Has, CurrentIsLast
    <2>3. emitted \in Seq(Messages) /\ current \in Messages
      BY <2>1 DEF TypeQueues, Messages
    <2>4. ASSUME NEW c \in Calls, Has(emitted', c)
          PROVE  Has(emitted, c) \/ current = c
      BY <2>1, <2>3, <2>4, HasAppend, Zenon
    <2> QED BY <2>1, <2>2, <2>4, MessagesDistinct
  <1>14. CASE PresentHandleExit
    <2>1. handled' = Append(handled, ExitMsg) /\ UNCHANGED <<emitted, current>>
      BY <1>14 DEF PresentHandleExit, presentVars
    <2>2. ASSUME NEW c \in Calls, Has(handled, c) PROVE Has(handled', c)
      <3>1. /\ handled \in Seq(Calls \cup {ExitMsg})
            /\ ExitMsg \in Calls \cup {ExitMsg}
        BY DEF TypeQueues
      <3> QED BY <2>1, <2>2, <3>1, Grows, Zenon
    <2> QED BY <2>1, <2>2
  <1>15. CASE PresentBatchDone
    BY <1>15 DEF PresentBatchDone
  <1>16. ASSUME NEW s \in Signals, PresentEmit(s) PROVE RepliedIsDone'
    <2>1. emitted' = Append(emitted, s) /\ UNCHANGED <<handled, current>>
      BY <1>16 DEF PresentEmit, EnqueueMain
    <2>2. /\ emitted \in Seq(Messages) /\ s \in Messages
          /\ \A c \in Calls : c # s
      BY <1>16, MessagesDistinct DEF TypeQueues, Messages
    <2>3. ASSUME NEW c \in Calls PROVE Has(emitted', c) <=> Has(emitted, c)
      BY <2>1, <2>2, HasAppend, Zenon
    <2> QED BY <2>1, <2>3
  <1>17. CASE PresentDisplayEvent
    BY <1>17 DEF PresentDisplayEvent
  <1>18. CASE MainWake
    BY <1>18 DEF MainWake
  <1>19. CASE MainDrain
    BY <1>19 DEF MainDrain
  <1>20. CASE MainDispatch
    BY <1>20 DEF MainDispatch
  <1>21. CASE MainDispatchDestroyed
    BY <1>21 DEF MainDispatchDestroyed
  <1>22. CASE MainBatchDone
    BY <1>22 DEF MainBatchDone
  <1>23. CASE UNCHANGED vars
    BY <1>23 DEF vars
  <1> QED
    BY <1>1, <1>2, <1>3, <1>4, <1>5, <1>6, <1>7, <1>8, <1>9, <1>10, <1>11,
       <1>12, <1>13, <1>14, <1>15, <1>16, <1>17, <1>18, <1>19, <1>20, <1>21,
       <1>22, <1>23
       DEF Next, PresentStep, MainStep

(* Replies are produced in the order the calls are executed.                 *)
LEMMA RepliesStep ==
    ASSUME TypeControl, TypeQueues, CurrentIsLast, RepliedIsDone,
           RepliesInOrder, [Next]_vars
    PROVE  RepliesInOrder'
  <1> USE DEF presentVars, presentQueueVars, mainQueueVars, hostVars, RepliesInOrder
  <1>1. CASE Start
    BY <1>1 DEF Start
  <1>2. ASSUME NEW c \in Calls, EnqueueRemoteCall(c) PROVE RepliesInOrder'
    BY <1>2 DEF EnqueueRemoteCall, EnqueuePresent
  <1>3. CASE DisposeLock
    BY <1>3 DEF DisposeLock
  <1>4. CASE DisposeEnqueueExit
    BY <1>4 DEF DisposeEnqueueExit, EnqueuePresent
  <1>5. CASE DisposeReturn
    BY <1>5 DEF DisposeReturn
  <1>6. CASE PresentEnterLoop
    BY <1>6 DEF PresentEnterLoop
  <1>7. CASE PresentPoll
    BY <1>7 DEF PresentPoll
  <1>8. CASE PresentExitLoop
    <2>1. emitted' = Append(emitted, ExitMsg) /\ UNCHANGED handled
      BY <1>8 DEF PresentExitLoop, EnqueueMain
    <2>2. /\ emitted \in Seq(Messages) /\ ExitMsg \in Messages
          /\ \A c \in Calls : c # ExitMsg
      BY <1>8, MessagesDistinct DEF TypeQueues, Messages
    <2>3. ASSUME NEW x \in Calls, NEW y \in Calls, Before(emitted', x, y)
          PROVE  Before(emitted, x, y)
      BY <2>1, <2>2, <2>3, BeforeAppend, Zenon
    <2> QED BY <2>1, <2>3
  <1>9. CASE PresentFinish
    BY <1>9 DEF PresentFinish
  <1>10. CASE PresentWake
    BY <1>10 DEF PresentWake
  <1>11. CASE PresentDrain
    BY <1>11 DEF PresentDrain
  <1>12. CASE PresentBeginCall
    <2>1. handled' = Append(handled, Head(presentBatch)) /\ UNCHANGED emitted
          /\ Head(presentBatch) \in Calls
      BY <1>12 DEF PresentBeginCall
    <2>2. \A x, y \in Calls : Before(handled, x, y) => Before(handled', x, y)
      BY <2>1, Grows DEF TypeQueues
    <2> QED BY <2>1, <2>2
  <1>13. ASSUME NEW open \in BOOLEAN, PresentReply(open) PROVE RepliesInOrder'
    <2>1. /\ emitted' = Append(emitted, current) /\ UNCHANGED handled
          /\ current \in Calls /\ current # NoCall
      BY <1>13, MessagesDistinct DEF PresentReply, EnqueueMain, TypeControl
    <2>2. handled # <<>> /\ handled[Len(handled)] = current
      BY <2>1 DEF CurrentIsLast
    <2>3. ASSUME NEW x \in Calls, Has(handled, x), x # current
          PROVE  Before(handled, x, current)
      <3>1. PICK i \in DOMAIN handled : handled[i] = x
        BY <2>3 DEF Has
      <3>2. i < Len(handled) /\ Len(handled) \in DOMAIN handled
        BY <2>2, <2>3, <3>1 DEF TypeQueues
      <3> QED BY <2>2, <3>1, <3>2 DEF Before
    <2>4. emitted \in Seq(Messages) /\ current \in Messages
      BY <2>1 DEF TypeQueues, Messages
    <2>5. ASSUME NEW x \in Calls, NEW y \in Calls, Before(emitted', x, y)
          PROVE  Before(emitted, x, y) \/ (Has(emitted, x) /\ y = current)
      BY <2>1, <2>4, <2>5, BeforeAppend, Zenon
    <2> QED BY <2>1, <2>3, <2>5 DEF RepliedIsDone
  <1>14. CASE PresentHandleExit
    <2>1. handled' = Append(handled, ExitMsg) /\ UNCHANGED emitted
      BY <1>14 DEF PresentHandleExit
    <2>2. \A x, y \in Calls : Before(handled, x, y) => Before(handled', x, y)
      BY <2>1, Grows DEF TypeQueues
    <2> QED BY <2>1, <2>2
  <1>15. CASE PresentBatchDone
    BY <1>15 DEF PresentBatchDone
  <1>16. ASSUME NEW s \in Signals, PresentEmit(s) PROVE RepliesInOrder'
    <2>1. emitted' = Append(emitted, s) /\ UNCHANGED handled
      BY <1>16 DEF PresentEmit, EnqueueMain
    <2>2. /\ emitted \in Seq(Messages) /\ s \in Messages
          /\ \A c \in Calls : c # s
      BY <1>16, MessagesDistinct DEF TypeQueues, Messages
    <2>3. ASSUME NEW x \in Calls, NEW y \in Calls, Before(emitted', x, y)
          PROVE  Before(emitted, x, y)
      BY <2>1, <2>2, <2>3, BeforeAppend, Zenon
    <2> QED BY <2>1, <2>3
  <1>17. CASE PresentDisplayEvent
    BY <1>17 DEF PresentDisplayEvent
  <1>18. CASE MainWake
    BY <1>18 DEF MainWake
  <1>19. CASE MainDrain
    BY <1>19 DEF MainDrain
  <1>20. CASE MainDispatch
    BY <1>20 DEF MainDispatch
  <1>21. CASE MainDispatchDestroyed
    BY <1>21 DEF MainDispatchDestroyed
  <1>22. CASE MainBatchDone
    BY <1>22 DEF MainBatchDone
  <1>23. CASE UNCHANGED vars
    BY <1>23 DEF vars
  <1> QED
    BY <1>1, <1>2, <1>3, <1>4, <1>5, <1>6, <1>7, <1>8, <1>9, <1>10, <1>11,
       <1>12, <1>13, <1>14, <1>15, <1>16, <1>17, <1>18, <1>19, <1>20, <1>21,
       <1>22, <1>23
       DEF Next, PresentStep, MainStep

(* Pending is a sequence of messages.                                        *)
LEMMA PendingType ==
    ASSUME TypeQueues
    PROVE  /\ settled \in Seq(Messages) /\ settled \o mainBatch \in Seq(Messages)
           /\ mainBatch \in Seq(Messages) /\ mainQueue \in Seq(Messages)
           /\ Pending \in Seq(Messages) /\ emitted \in Seq(Messages)
  <1>1. settled \in Seq(Messages)
    BY DEF TypeQueues, Messages
  <1> QED BY <1>1 DEF TypeQueues, Pending

(* What the present thread emits becomes the newest pending message.         *)
LEMMA PendingEmit ==
    ASSUME TypeQueues, PendingInOrder, NEW m \in Messages, EnqueueMain(m),
           UNCHANGED <<settled, mainBatch>>
    PROVE  PendingInOrder'
  <1>1. /\ mainQueue' = Append(mainQueue, m) /\ emitted' = Append(emitted, m)
    BY DEF EnqueueMain
  <1>2. Pending' = Append(Pending, m)
    <2>1. \A p, q \in Seq(Messages) : p \o Append(q, m) = Append(p \o q, m)
      OBVIOUS
    <2> QED BY <1>1, <2>1, PendingType, Zenon DEF Pending
  <1>3. \A x \in Messages : Has(Pending', x) => Has(emitted', x)
    <2>1. ASSUME NEW x \in Messages, Has(Pending', x) PROVE Has(emitted', x)
      <3>1. Has(Pending, x) \/ m = x
        BY <1>2, <2>1, HasAppend, PendingType
      <3>2. Has(emitted, x) \/ m = x
        BY <3>1 DEF PendingInOrder
      <3> QED BY <1>1, <3>2, HasAppend, PendingType
    <2> QED BY <2>1
  <1>4. \A x, y \in Messages : Before(Pending', x, y) => Before(emitted', x, y)
    <2>1. ASSUME NEW x \in Messages, NEW y \in Messages, Before(Pending', x, y)
          PROVE  Before(emitted', x, y)
      <3>1. Before(Pending, x, y) \/ (Has(Pending, x) /\ y = m)
        BY <1>2, <2>1, BeforeAppend, PendingType
      <3>2. Before(emitted, x, y) \/ (Has(emitted, x) /\ y = m)
        BY <3>1 DEF PendingInOrder
      <3> QED BY <1>1, <3>2, Grows, PendingType
    <2> QED BY <2>1
  <1> QED BY <1>3, <1>4 DEF PendingInOrder

(* The main thread drops a message, or the whole queue is destroyed.         *)
LEMMA PendingDrop ==
    ASSUME TypeQueues, PendingInOrder, UNCHANGED <<settled, emitted>>,
           \/ mainBatch # <<>> /\ mainBatch' = Tail(mainBatch) /\ UNCHANGED mainQueue
           \/ mainQueue' = <<>> /\ UNCHANGED mainBatch
    PROVE  PendingInOrder'
  <1>1. \A x, y \in Messages :
           /\ Has(Pending', x) => Has(Pending, x)
           /\ Before(Pending', x, y) => Before(Pending, x, y)
    <2>1. CASE mainBatch # <<>> /\ mainBatch' = Tail(mainBatch) /\ UNCHANGED mainQueue
      <3> DEFINE t == Tail(mainBatch) \o mainQueue
      <3>1. /\ settled \in Seq(Messages) /\ Head(mainBatch) \in Messages
            /\ t \in Seq(Messages) /\ Pending' = settled \o t
        BY <2>1, PendingType DEF Pending
      <3>2. Pending = Append(settled, Head(mainBatch)) \o t
        <4>1. \A h, b \in Seq(Messages) : b # <<>> =>
                 Append(h, Head(b)) \o Tail(b) = h \o b
          OBVIOUS
        <4>2. \A a, b, c \in Seq(Messages) : a \o (b \o c) = a \o b \o c
          OBVIOUS
        <4>3. Append(settled, Head(mainBatch)) \in Seq(Messages)
          BY <3>1
        <4>4. Tail(mainBatch) \in Seq(Messages)
          BY <2>1, PendingType
        <4>5. Append(settled, Head(mainBatch)) \o t
                = Append(settled, Head(mainBatch)) \o Tail(mainBatch) \o mainQueue
          BY <4>2, <4>3, <4>4, PendingType, Zenon
        <4>6. Append(settled, Head(mainBatch)) \o Tail(mainBatch) = settled \o mainBatch
          BY <2>1, <4>1, PendingType, Zenon
        <4> QED BY <4>5, <4>6, Zenon DEF Pending
      <3> HIDE DEF t
      <3> QED BY <3>1, <3>2, DropOrder
    <2>2. CASE mainQueue' = <<>> /\ UNCHANGED mainBatch
      <3>1. Pending' = settled \o mainBatch
        BY <2>2, PendingType DEF Pending
      <3> QED BY <3>1, PrefixOrder, PendingType, Zenon DEF Pending
    <2> QED BY <2>1, <2>2
  <1> QED BY <1>1 DEF PendingInOrder

(* Pending messages stay in the order of their emission.                     *)
LEMMA PendingStep ==
    ASSUME TypeControl, TypeQueues, BatchOnlyInDispatch, PendingInOrder,
           [Next]_vars
    PROVE  PendingInOrder'
  <1> USE DEF presentVars, presentQueueVars, mainQueueVars, hostVars
  <1>1. CASE Start
    BY <1>1 DEF Start, PendingInOrder, Pending
  <1>2. ASSUME NEW c \in Calls, EnqueueRemoteCall(c) PROVE PendingInOrder'
    BY <1>2 DEF EnqueueRemoteCall, EnqueuePresent, PendingInOrder, Pending
  <1>3. CASE DisposeLock
    BY <1>3 DEF DisposeLock, PendingInOrder, Pending
  <1>4. CASE DisposeEnqueueExit
    BY <1>4 DEF DisposeEnqueueExit, EnqueuePresent, PendingInOrder, Pending
  <1>5. CASE DisposeReturn
    <2>1. /\ UNCHANGED <<settled, emitted, mainBatch>>
          /\ mainQueue' = <<>> \/ UNCHANGED mainQueue
      BY <1>5 DEF DisposeReturn
    <2>2. CASE mainQueue' = <<>>
      BY <2>1, <2>2, PendingDrop
    <2>3. CASE UNCHANGED mainQueue
      BY <2>1, <2>3 DEF PendingInOrder, Pending
    <2> QED BY <2>1, <2>2, <2>3
  <1>6. CASE PresentEnterLoop
    BY <1>6 DEF PresentEnterLoop, PendingInOrder, Pending
  <1>7. CASE PresentPoll
    BY <1>7 DEF PresentPoll, PendingInOrder, Pending
  <1>8. CASE PresentExitLoop
    <2>1. EnqueueMain(ExitMsg) /\ UNCHANGED <<settled, mainBatch>>
      BY <1>8 DEF PresentExitLoop
    <2>2. ExitMsg \in Messages
      BY <1>8, MessagesDistinct DEF Messages, PresentExitLoop, TypeControl
    <2> QED BY <2>1, <2>2, PendingEmit
  <1>9. CASE PresentFinish
    <2>1. /\ UNCHANGED <<settled, emitted, mainBatch>>
          /\ mainQueue' = <<>> \/ UNCHANGED mainQueue
      BY <1>9 DEF PresentFinish
    <2>2. CASE mainQueue' = <<>>
      BY <2>1, <2>2, PendingDrop
    <2>3. CASE UNCHANGED mainQueue
      BY <2>1, <2>3 DEF PendingInOrder, Pending
    <2> QED BY <2>1, <2>2, <2>3
  <1>10. CASE PresentWake
    BY <1>10 DEF PresentWake, PendingInOrder, Pending
  <1>11. CASE PresentDrain
    BY <1>11 DEF PresentDrain, PendingInOrder, Pending
  <1>12. CASE PresentBeginCall
    BY <1>12 DEF PresentBeginCall, PendingInOrder, Pending
  <1>13. ASSUME NEW open \in BOOLEAN, PresentReply(open) PROVE PendingInOrder'
    <2>1. EnqueueMain(current) /\ UNCHANGED <<settled, mainBatch>>
      BY <1>13 DEF PresentReply
    <2>2. current \in Messages
      BY <1>13, MessagesDistinct DEF Messages, PresentReply, TypeControl
    <2> QED BY <2>1, <2>2, PendingEmit
  <1>14. CASE PresentHandleExit
    BY <1>14 DEF PresentHandleExit, PendingInOrder, Pending
  <1>15. CASE PresentBatchDone
    BY <1>15 DEF PresentBatchDone, PendingInOrder, Pending
  <1>16. ASSUME NEW s \in Signals, PresentEmit(s) PROVE PendingInOrder'
    <2>1. EnqueueMain(s) /\ UNCHANGED <<settled, mainBatch>>
      BY <1>16 DEF PresentEmit
    <2>2. s \in Messages
      BY <1>16, MessagesDistinct DEF Messages, PresentEmit, TypeControl
    <2> QED BY <2>1, <2>2, PendingEmit
  <1>17. CASE PresentDisplayEvent
    BY <1>17 DEF PresentDisplayEvent, PendingInOrder, Pending
  <1>18. CASE MainWake
    BY <1>18 DEF MainWake, PendingInOrder, Pending
  <1>19. CASE MainDrain
    <2>1. /\ mainBatch = <<>> /\ mainBatch' = mainQueue /\ mainQueue' = <<>>
          /\ UNCHANGED <<settled, emitted>>
      BY <1>19 DEF MainDrain, BatchOnlyInDispatch
    <2>2. settled \o <<>> \o mainQueue = settled \o mainQueue \o <<>>
      BY PendingType
    <2>3. Pending' = Pending
      BY <2>1, <2>2, Zenon DEF Pending
    <2> QED BY <2>1, <2>3 DEF PendingInOrder
  <1>20. CASE MainDispatch
    <2>1. /\ mainBatch # <<>> /\ mainBatch' = Tail(mainBatch)
          /\ UNCHANGED <<emitted, mainQueue>>
          /\ settled' = settled \/ settled' = Append(settled, Head(mainBatch))
      BY <1>20 DEF MainDispatch
    <2>2. CASE settled' = settled
      BY <2>1, <2>2, PendingDrop
    <2>3. CASE settled' = Append(settled, Head(mainBatch))
      <3>1. \A h, b, q \in Seq(Messages) :
               b # <<>> => Append(h, Head(b)) \o Tail(b) \o q = h \o b \o q
        <4> SUFFICES ASSUME NEW h \in Seq(Messages), NEW b \in Seq(Messages),
                            NEW q \in Seq(Messages), b # <<>>
                     PROVE  Append(h, Head(b)) \o Tail(b) \o q = h \o b \o q
          OBVIOUS
        <4>1. Append(h, Head(b)) \o Tail(b) = h \o b
          OBVIOUS
        <4> QED BY <4>1
      <3>2. Pending' = Pending
        BY <2>1, <2>3, <3>1, PendingType, Zenon DEF Pending
      <3> QED BY <2>1, <3>2 DEF PendingInOrder
    <2> QED BY <2>1, <2>2, <2>3
  <1>21. CASE MainDispatchDestroyed
    <2>1. /\ UNCHANGED <<settled, emitted, mainQueue>>
          /\ mainBatch # <<>> /\ mainBatch' = Tail(mainBatch)
      BY <1>21 DEF MainDispatchDestroyed
    <2> QED BY <2>1, PendingDrop
  <1>22. CASE MainBatchDone
    BY <1>22 DEF MainBatchDone, PendingInOrder, Pending
  <1>23. CASE UNCHANGED vars
    BY <1>23 DEF vars, PendingInOrder, Pending
  <1> QED
    BY <1>1, <1>2, <1>3, <1>4, <1>5, <1>6, <1>7, <1>8, <1>9, <1>10, <1>11,
       <1>12, <1>13, <1>14, <1>15, <1>16, <1>17, <1>18, <1>19, <1>20, <1>21,
       <1>22, <1>23
       DEF Next, PresentStep, MainStep

(* The state before PresentThread::Start satisfies both invariants.          *)
LEMMA OrderInit == Init => IndInv /\ OrderInv
  <1> SUFFICES ASSUME Init PROVE IndInv /\ OrderInv
    OBVIOUS
  <1>1. IndInv
    BY TypeInit DEF Init, IndInv, HostPhases, BatchOnlyInDispatch, PresentFIFO,
                    ExitAtEnd, NoLostWakeup
  <1>2. SentOnce /\ CurrentIsLast /\ RepliedIsDone /\ RepliesInOrder
    BY DEF Init, SentOnce, CurrentIsLast, RepliedIsDone, RepliesInOrder, Has, Before
  <1>3. Pending = <<>>
    <2>1. settled = <<>> /\ mainBatch = <<>> /\ mainQueue = <<>>
      BY DEF Init
    <2>2. <<>> \o <<>> \o <<>> = <<>>
      OBVIOUS
    <2> QED BY <2>1, <2>2, Zenon DEF Pending
  <1>4. PendingInOrder
    BY <1>3 DEF PendingInOrder, Has, Before
  <1> QED BY <1>1, <1>2, <1>4 DEF OrderInv

(* The order of messages and replies is an invariant with IndInv.            *)
LEMMA OrderInductive == Spec => [](IndInv /\ OrderInv)
  <1>1. IndInv /\ OrderInv /\ [Next]_vars => IndInv' /\ OrderInv'
    <2> SUFFICES ASSUME IndInv, OrderInv, [Next]_vars PROVE IndInv' /\ OrderInv'
      OBVIOUS
    <2>1. IndInv'
      BY TypeStep, PhasesStep, BatchStep, FIFOStep, ExitStep, WakeupStep
         DEF IndInv, TypeOK
    <2>2. /\ TypeControl /\ TypeQueues /\ HostPhases /\ BatchOnlyInDispatch
          /\ PresentFIFO
      BY Zenon DEF IndInv, TypeOK
    <2>3. /\ SentOnce /\ CurrentIsLast /\ RepliedIsDone /\ PendingInOrder
          /\ RepliesInOrder
      BY Zenon DEF OrderInv
    <2>4. SentOnce' /\ CurrentIsLast' /\ RepliedIsDone'
      BY <2>2, <2>3, SentOnceStep, CurrentStep, RepliedStep, Zenon
    <2>5. PendingInOrder' /\ RepliesInOrder'
      BY <2>2, <2>3, PendingStep, RepliesStep, Zenon
    <2> QED BY <2>1, <2>4, <2>5, Zenon DEF OrderInv
  <1> QED BY <1>1, OrderInit, PTL DEF Spec

(* Settled messages are among the pending ones, in their order.              *)
LEMMA SettledIsPending ==
    ASSUME TypeQueues, NEW x, NEW y
    PROVE  /\ Has(settled, x) => Has(Pending, x)
           /\ Before(settled, x, y) => Before(Pending, x, y)
  <1>1. Pending = settled \o (mainBatch \o mainQueue)
    BY PendingType DEF Pending
  <1>2. mainBatch \o mainQueue \in Seq(Messages)
    BY PendingType
  <1> QED BY <1>1, <1>2, PendingType, PrefixOrder

(* No host callback runs for a call the present thread has not executed to   *)
(* its end, whatever the main thread discards while it disposes.             *)
THEOREM SettledWasHandledHolds == Spec => []SettledWasHandled
  <1>1. IndInv /\ OrderInv => SettledWasHandled
    <2> SUFFICES ASSUME IndInv, OrderInv, NEW c \in Calls, Has(settled, c)
                 PROVE  Has(handled, c) /\ current # c
      BY DEF SettledWasHandled
    <2>1. Has(Pending, c)
      BY SettledIsPending DEF IndInv, TypeOK
    <2>2. Has(emitted, c)
      BY <2>1 DEF OrderInv, PendingInOrder, Messages
    <2> QED BY <2>2 DEF OrderInv, RepliedIsDone
  <1> QED BY <1>1, OrderInductive, PTL

(* Host callbacks of calls run in the order the program issued the calls,    *)
(* and with the signals in the order the present thread produced them.       *)
THEOREM HostOrderHolds == Spec => []HostOrder
  <1>1. IndInv /\ OrderInv => HostOrder
    <2> SUFFICES ASSUME IndInv, OrderInv PROVE HostOrder
      OBVIOUS
    <2>1. ASSUME NEW x \in Messages, NEW y \in Messages, Before(settled, x, y)
          PROVE  Before(emitted, x, y)
      <3>1. Before(Pending, x, y)
        BY <2>1, SettledIsPending DEF IndInv, TypeOK
      <3> QED BY <3>1 DEF OrderInv, PendingInOrder
    <2>2. ASSUME NEW x \in Calls, NEW y \in Calls, Before(settled, x, y)
          PROVE  Before(sent, x, y)
      <3>1. Before(handled, x, y)
        BY <2>1, <2>2 DEF OrderInv, RepliesInOrder, Messages
      <3>2. /\ handled \in Seq(Calls \cup {ExitMsg})
            /\ presentBatch \in Seq(Calls \cup {ExitMsg})
            /\ presentQueue \in Seq(Calls \cup {ExitMsg})
        BY DEF IndInv, TypeOK, TypeQueues
      <3>3. \A a, b, d \in Seq(Calls \cup {ExitMsg}) :
               b \o d \in Seq(Calls \cup {ExitMsg}) /\ a \o b \o d = a \o (b \o d)
        OBVIOUS
      <3>4. /\ presentBatch \o presentQueue \in Seq(Calls \cup {ExitMsg})
            /\ sent = handled \o (presentBatch \o presentQueue)
        BY <3>2, <3>3, Zenon DEF IndInv, PresentFIFO
      <3> QED BY <3>1, <3>2, <3>4, PrefixOrder
    <2> QED BY <2>1, <2>2 DEF HostOrder, Messages
  <1> QED BY <1>1, OrderInductive, PTL

==============================================================================
