----------------------- MODULE RemoteCallContractProofs -----------------------
(***************************************************************************)
(* TLAPS proof that the two threads, their queues and notifications        *)
(* implement RemoteCallContract, for any sets of calls and signals.  The   *)
(* histories sent, handled and settled are the contract's variables, so    *)
(* the refinement needs no witness: each step of the protocol issues,      *)
(* executes, completes or notifies, or leaves the three as they are.       *)
(***************************************************************************)
EXTENDS PresentThreadProofs

(* What the handler took was replied to, or is being executed. *)
AllReplied ==
    \A c \in Calls : Has(handled, c) => Has(emitted, c) \/ current = c

(* A signal is emitted once. *)
SignalsOnce == \A s \in Signals : ~Before(emitted, s, s)

(* Until Dispose sends the null message the main thread drops nothing. *)
Undropped ==
    \/ Has(sent, ExitMsg)
    \/ /\ emitted = Pending
       /\ ~Has(emitted, ExitMsg)
       /\ ~threadHasExited
       /\ presentPC \notin {"leaving", "finished"}
       /\ host \notin {"notified", "destroyed"}

(* With IndInv and OrderInv, what the simulation of the contract rests on. *)
ReplyInv == AllReplied /\ SignalsOnce /\ Undropped

(* A call the handler took leaves the present thread only with its reply.    *)
LEMMA AllRepliedStep ==
    ASSUME TypeControl, TypeQueues, AllReplied, [Next]_vars
    PROVE  AllReplied'
  <1> USE DEF presentVars, presentQueueVars, mainQueueVars, hostVars, AllReplied
  <1>1. CASE Start
    BY <1>1 DEF Start
  <1>2. ASSUME NEW c \in Calls, EnqueueRemoteCall(c) PROVE AllReplied'
    BY <1>2 DEF EnqueueRemoteCall, EnqueuePresent
  <1>3. CASE DisposeLock
    BY <1>3 DEF DisposeLock
  <1>4. CASE DisposeEnqueueExit
    BY <1>4 DEF DisposeEnqueueExit, EnqueuePresent
  <1>5. CASE DisposeReturn
    BY <1>5 DEF DisposeReturn
  <1>6. CASE PresentEnterLoop
    BY <1>6 DEF PresentEnterLoop
  <1>7. CASE PresentPoll
    BY <1>7 DEF PresentPoll
  <1>8. CASE PresentExitLoop
    <2>1. emitted' = Append(emitted, ExitMsg) /\ UNCHANGED <<handled, current>>
      BY <1>8 DEF PresentExitLoop, EnqueueMain
    <2>2. ASSUME NEW x \in Calls, Has(emitted, x) PROVE Has(emitted', x)
      <3>1. emitted \in Seq(Messages) /\ ExitMsg \in Messages
        BY DEF TypeQueues, Messages
      <3> QED BY <2>1, <2>2, <3>1, HasAppend
    <2> QED BY <2>1, <2>2
  <1>9. CASE PresentFinish
    BY <1>9 DEF PresentFinish
  <1>10. CASE PresentWake
    BY <1>10 DEF PresentWake
  <1>11. CASE PresentDrain
    BY <1>11 DEF PresentDrain
  <1>12. CASE PresentBeginCall
    <2>1. /\ handled' = Append(handled, Head(presentBatch))
          /\ current' = Head(presentBatch) /\ Head(presentBatch) \in Calls
          /\ current = NoCall /\ UNCHANGED emitted
      BY <1>12 DEF PresentBeginCall
    <2>2. ASSUME NEW x \in Calls, Has(handled', x)
          PROVE  Has(emitted', x) \/ current' = x
      <3>1. Has(handled, x) \/ x = Head(presentBatch)
        BY <2>1, <2>2, HasAppend DEF TypeQueues
      <3>2. Has(handled, x) => Has(emitted, x)
        BY <2>1, MessagesDistinct
      <3> QED BY <2>1, <3>1, <3>2
    <2> QED BY <2>2
  <1>13. ASSUME NEW open \in BOOLEAN, PresentReply(open) PROVE AllReplied'
    <2>1. /\ emitted' = Append(emitted, current) /\ current' = NoCall
          /\ UNCHANGED handled /\ current \in Calls
      BY <1>13 DEF PresentReply, EnqueueMain, TypeControl
    <2>2. ASSUME NEW x \in Calls, Has(handled, x) PROVE Has(emitted', x)
      <3>1. Has(emitted, x) \/ current = x
        BY <2>2
      <3> QED BY <2>1, <3>1, HasAppend DEF TypeQueues, Messages
    <2> QED BY <2>1, <2>2
  <1>14. CASE PresentHandleExit
    <2>1. /\ handled' = Append(handled, ExitMsg) /\ UNCHANGED <<emitted, current>>
      BY <1>14 DEF PresentHandleExit
    <2>2. ASSUME NEW x \in Calls, Has(handled', x) PROVE Has(handled, x)
      <3>1. handled \in Seq(Calls \cup {ExitMsg}) /\ ExitMsg \in Calls \cup {ExitMsg}
        BY DEF TypeQueues
      <3>2. Has(handled, x) \/ ExitMsg = x
        BY <2>1, <2>2, <3>1, HasAppend
      <3> QED BY <3>2, MessagesDistinct
    <2> QED BY <2>1, <2>2
  <1>15. CASE PresentBatchDone
    BY <1>15 DEF PresentBatchDone
  <1>16. ASSUME NEW s \in Signals, PresentEmit(s) PROVE AllReplied'
    <2>1. emitted' = Append(emitted, s) /\ UNCHANGED <<handled, current>>
      BY <1>16 DEF PresentEmit, EnqueueMain
    <2>2. ASSUME NEW x \in Calls, Has(emitted, x) PROVE Has(emitted', x)
      <3>1. emitted \in Seq(Messages) /\ s \in Messages
        BY DEF TypeQueues, Messages
      <3> QED BY <2>1, <2>2, <3>1, HasAppend
    <2> QED BY <2>1, <2>2
  <1>17. CASE PresentDisplayEvent
    BY <1>17 DEF PresentDisplayEvent
  <1>18. CASE MainWake
    BY <1>18 DEF MainWake
  <1>19. CASE MainDrain
    BY <1>19 DEF MainDrain
  <1>20. CASE MainDispatch
    BY <1>20 DEF MainDispatch
  <1>21. CASE MainDispatchDestroyed
    BY <1>21 DEF MainDispatchDestroyed
  <1>22. CASE MainBatchDone
    BY <1>22 DEF MainBatchDone
  <1>23. CASE UNCHANGED vars
    BY <1>23 DEF vars
  <1> QED
    BY <1>1, <1>2, <1>3, <1>4, <1>5, <1>6, <1>7, <1>8, <1>9, <1>10, <1>11,
       <1>12, <1>13, <1>14, <1>15, <1>16, <1>17, <1>18, <1>19, <1>20, <1>21,
       <1>22, <1>23
       DEF Next, PresentStep, MainStep

(* PresentRemoteHandle::Emit is the only source of signals.                  *)
LEMMA SignalsOnceStep ==
    ASSUME TypeControl, TypeQueues, SignalsOnce, [Next]_vars
    PROVE  SignalsOnce'
  <1> USE DEF presentVars, presentQueueVars, mainQueueVars, hostVars, SignalsOnce
  <1>1. CASE Start
    BY <1>1 DEF Start
  <1>2. ASSUME NEW c \in Calls, EnqueueRemoteCall(c) PROVE SignalsOnce'
    BY <1>2 DEF EnqueueRemoteCall, EnqueuePresent
  <1>3. CASE DisposeLock
    BY <1>3 DEF DisposeLock
  <1>4. CASE DisposeEnqueueExit
    BY <1>4 DEF DisposeEnqueueExit, EnqueuePresent
  <1>5. CASE DisposeReturn
    BY <1>5 DEF DisposeReturn
  <1>6. CASE PresentEnterLoop
    BY <1>6 DEF PresentEnterLoop
  <1>7. CASE PresentPoll
    BY <1>7 DEF PresentPoll
  <1>8. CASE PresentExitLoop
    <2>1. emitted' = Append(emitted, ExitMsg) /\ ExitMsg \notin Signals
      BY <1>8, MessagesDistinct DEF PresentExitLoop, EnqueueMain, TypeControl
    <2>2. ASSUME NEW z \in Signals, Before(emitted', z, z) PROVE FALSE
      <3>1. emitted \in Seq(Messages) /\ ExitMsg \in Messages
        BY <1>8 DEF TypeQueues, TypeControl, Messages, PresentExitLoop
      <3>2. Before(emitted, z, z) \/ (Has(emitted, z) /\ z = ExitMsg)
        BY <2>1, <2>2, <3>1, BeforeAppend
      <3> QED BY <2>1, <3>2
    <2> QED BY <2>2
  <1>9. CASE PresentFinish
    BY <1>9 DEF PresentFinish
  <1>10. CASE PresentWake
    BY <1>10 DEF PresentWake
  <1>11. CASE PresentDrain
    BY <1>11 DEF PresentDrain
  <1>12. CASE PresentBeginCall
    BY <1>12 DEF PresentBeginCall
  <1>13. ASSUME NEW open \in BOOLEAN, PresentReply(open) PROVE SignalsOnce'
    <2>1. emitted' = Append(emitted, current) /\ current \notin Signals
      BY <1>13, MessagesDistinct DEF PresentReply, EnqueueMain, TypeControl
    <2>2. ASSUME NEW z \in Signals, Before(emitted', z, z) PROVE FALSE
      <3>1. emitted \in Seq(Messages) /\ current \in Messages
        BY <1>13 DEF TypeQueues, TypeControl, Messages, PresentReply
      <3>2. Before(emitted, z, z) \/ (Has(emitted, z) /\ z = current)
        BY <2>1, <2>2, <3>1, BeforeAppend
      <3> QED BY <2>1, <3>2
    <2> QED BY <2>2
  <1>14. CASE PresentHandleExit
    BY <1>14 DEF PresentHandleExit
  <1>15. CASE PresentBatchDone
    BY <1>15 DEF PresentBatchDone
  <1>16. ASSUME NEW s \in Signals, PresentEmit(s) PROVE SignalsOnce'
    <2>1. emitted' = Append(emitted, s) /\ ~Has(emitted, s)
      BY <1>16 DEF PresentEmit, EnqueueMain
    <2>2. ASSUME NEW z \in Signals, Before(emitted', z, z) PROVE FALSE
      <3>1. emitted \in Seq(Messages) /\ s \in Messages
        BY DEF TypeQueues, Messages
      <3>2. Before(emitted, z, z) \/ (Has(emitted, z) /\ z = s)
        BY <2>1, <2>2, <3>1, BeforeAppend
      <3> QED BY <2>1, <3>2
    <2> QED BY <2>2
  <1>17. CASE PresentDisplayEvent
    BY <1>17 DEF PresentDisplayEvent
  <1>18. CASE MainWake
    BY <1>18 DEF MainWake
  <1>19. CASE MainDrain
    BY <1>19 DEF MainDrain
  <1>20. CASE MainDispatch
    BY <1>20 DEF MainDispatch
  <1>21. CASE MainDispatchDestroyed
    BY <1>21 DEF MainDispatchDestroyed
  <1>22. CASE MainBatchDone
    BY <1>22 DEF MainBatchDone
  <1>23. CASE UNCHANGED vars
    BY <1>23 DEF vars
  <1> QED
    BY <1>1, <1>2, <1>3, <1>4, <1>5, <1>6, <1>7, <1>8, <1>9, <1>10, <1>11,
       <1>12, <1>13, <1>14, <1>15, <1>16, <1>17, <1>18, <1>19, <1>20, <1>21,
       <1>22, <1>23
       DEF Next, PresentStep, MainStep

(* A message emitted while nothing is dropped is pending too. *)
LEMMA EmitUndropped ==
    ASSUME TypeQueues, NEW m \in Messages, m # ExitMsg, EnqueueMain(m),
           UNCHANGED <<settled, mainBatch, sent, threadHasExited, presentPC, host>>,
           Undropped
    PROVE  Undropped'
  <1>1. mainQueue' = Append(mainQueue, m) /\ emitted' = Append(emitted, m)
    BY DEF EnqueueMain
  <1>2. Pending' = Append(Pending, m)
    <2>1. \A p, q \in Seq(Messages) : p \o Append(q, m) = Append(p \o q, m)
      OBVIOUS
    <2> QED BY <1>1, <2>1, PendingType, Zenon DEF Pending
  <1>3. Has(emitted', ExitMsg) => Has(emitted, ExitMsg)
    BY <1>1, HasAppend, PendingType
  <1>4. CASE Has(sent, ExitMsg)
    BY <1>4 DEF Undropped
  <1>5. CASE ~Has(sent, ExitMsg)
    <2>1. /\ emitted = Pending /\ ~Has(emitted, ExitMsg) /\ ~threadHasExited
          /\ presentPC \notin {"leaving", "finished"}
          /\ host \notin {"notified", "destroyed"}
      BY <1>5 DEF Undropped
    <2>2. emitted' = Pending'
      BY <1>1, <1>2, <2>1
    <2> QED BY <1>3, <2>1, <2>2 DEF Undropped
  <1> QED BY <1>4, <1>5

(* Running a host callback moves a message from the batch to the settled. *)
LEMMA SettleKeepsPending ==
    ASSUME TypeQueues, mainBatch # <<>>, mainBatch' = Tail(mainBatch),
           settled' = Append(settled, Head(mainBatch)), UNCHANGED mainQueue
    PROVE  Pending' = Pending
  <1>1. Append(settled, Head(mainBatch)) \o Tail(mainBatch) = settled \o mainBatch
    BY PendingType
  <1> QED BY <1>1, Zenon DEF Pending

(* Once sent, the null message stays in the history. *)
LEMMA ExitStaysSent ==
    ASSUME TypeQueues, Has(sent, ExitMsg), NEW m \in Calls \cup {ExitMsg},
           EnqueuePresent(m)
    PROVE  Has(sent', ExitMsg)
  <1>1. sent' = Append(sent, m) /\ sent \in Seq(Calls \cup {ExitMsg})
    BY DEF EnqueuePresent, TypeQueues
  <1> QED BY <1>1, HasAppend

(* The handler takes what was sent. *)
LEMMA HandledWasSent ==
    ASSUME TypeQueues, PresentFIFO, NEW x, Has(handled, x)
    PROVE  Has(sent, x)
  <1>1. \A a, b, d \in Seq(Calls \cup {ExitMsg}) :
           b \o d \in Seq(Calls \cup {ExitMsg}) /\ a \o b \o d = a \o (b \o d)
    OBVIOUS
  <1>2. /\ presentBatch \o presentQueue \in Seq(Calls \cup {ExitMsg})
        /\ sent = handled \o (presentBatch \o presentQueue)
    BY <1>1, Zenon DEF TypeQueues, PresentFIFO
  <1> QED BY <1>2, PrefixOrder DEF TypeQueues

(* While the null message is not sent, every emitted message is settled or   *)
(* on its way.                                                               *)
LEMMA UndroppedStep ==
    ASSUME TypeControl, TypeQueues, HostPhases, BatchOnlyInDispatch,
           PresentFIFO, Undropped, [Next]_vars
    PROVE  Undropped'
  <1> USE DEF presentVars, presentQueueVars, mainQueueVars, hostVars, Undropped
  <1>1. CASE Start
    BY <1>1 DEF Start, Pending
  <1>2. ASSUME NEW c \in Calls, EnqueueRemoteCall(c) PROVE Undropped'
    <2>1. UNCHANGED <<emitted, Pending, threadHasExited, presentPC, host>>
      BY <1>2 DEF EnqueueRemoteCall, Pending
    <2>2. CASE Has(sent, ExitMsg)
      <3>1. EnqueuePresent(c) \/ UNCHANGED sent
        BY <1>2 DEF EnqueueRemoteCall
      <3>2. Has(sent', ExitMsg)
        BY <2>2, <3>1, ExitStaysSent
      <3> QED BY <3>2
    <2>3. CASE ~Has(sent, ExitMsg)
      BY <2>1, <2>3
    <2> QED BY <2>2, <2>3
  <1>3. CASE DisposeLock
    BY <1>3 DEF DisposeLock, Pending
  <1>4. CASE DisposeEnqueueExit
    <2>1. sent' = Append(sent, ExitMsg)
      BY <1>4 DEF DisposeEnqueueExit, EnqueuePresent
    <2>2. sent \in Seq(Calls \cup {ExitMsg}) /\ ExitMsg \in Calls \cup {ExitMsg}
      BY DEF TypeQueues
    <2>3. Has(sent', ExitMsg)
      BY <2>1, <2>2, HasAppend
    <2> QED BY <2>3
  <1>5. CASE DisposeReturn
    <2>1. UNCHANGED sent /\ host = "notified"
      BY <1>5 DEF DisposeReturn
    <2> QED BY <2>1
  <1>6. CASE PresentEnterLoop
    BY <1>6 DEF PresentEnterLoop, Pending
  <1>7. CASE PresentPoll
    BY <1>7 DEF PresentPoll, Pending
  <1>8. CASE PresentExitLoop
    <2>1. presentPC = "check" /\ presentOwners = {} /\ UNCHANGED sent
      BY <1>8 DEF PresentExitLoop
    <2>2. Has(handled, ExitMsg)
      BY <2>1 DEF HostPhases
    <2>3. Has(sent, ExitMsg)
      BY <2>2, HandledWasSent
    <2> QED BY <2>1, <2>3
  <1>9. CASE PresentFinish
    <2>1. presentPC = "leaving" /\ UNCHANGED sent
      BY <1>9 DEF PresentFinish
    <2> QED BY <2>1
  <1>10. CASE PresentWake
    BY <1>10 DEF PresentWake, Pending
  <1>11. CASE PresentDrain
    BY <1>11 DEF PresentDrain, Pending
  <1>12. CASE PresentBeginCall
    BY <1>12 DEF PresentBeginCall, Pending
  <1>13. ASSUME NEW open \in BOOLEAN, PresentReply(open) PROVE Undropped'
    <2>1. /\ EnqueueMain(current) /\ current \in Calls
          /\ UNCHANGED <<settled, mainBatch, sent, threadHasExited, presentPC, host>>
      BY <1>13 DEF PresentReply, TypeControl
    <2>2. current \in Messages /\ current # ExitMsg
      BY <2>1, MessagesDistinct DEF Messages
    <2> QED BY <2>1, <2>2, EmitUndropped
  <1>14. CASE PresentHandleExit
    BY <1>14 DEF PresentHandleExit, Pending
  <1>15. CASE PresentBatchDone
    BY <1>15 DEF PresentBatchDone, Pending
  <1>16. ASSUME NEW s \in Signals, PresentEmit(s) PROVE Undropped'
    <2>1. /\ EnqueueMain(s)
          /\ UNCHANGED <<settled, mainBatch, sent, threadHasExited, presentPC, host>>
      BY <1>16 DEF PresentEmit
    <2>2. s \in Messages /\ s # ExitMsg
      BY MessagesDistinct DEF Messages
    <2> QED BY <2>1, <2>2, EmitUndropped
  <1>17. CASE PresentDisplayEvent
    BY <1>17 DEF PresentDisplayEvent, Pending
  <1>18. CASE MainWake
    BY <1>18 DEF MainWake, Pending
  <1>19. CASE MainDrain
    <2>1. /\ mainBatch = <<>> /\ mainBatch' = mainQueue /\ mainQueue' = <<>>
          /\ UNCHANGED <<settled, emitted, sent, threadHasExited, presentPC, host>>
      BY <1>19 DEF MainDrain, BatchOnlyInDispatch
    <2>2. settled \o <<>> \o mainQueue = settled \o mainQueue \o <<>>
      BY PendingType
    <2>3. Pending' = Pending
      BY <2>1, <2>2, Zenon DEF Pending
    <2> QED BY <2>1, <2>3
  <1>20. CASE MainDispatch
    <2>1. /\ mainBatch # <<>> /\ mainBatch' = Tail(mainBatch)
          /\ UNCHANGED <<emitted, mainQueue, sent, presentPC, host>>
          /\ threadHasExited' = (threadHasExited \/ Head(mainBatch) = ExitMsg)
          /\ settled' = IF threadHasExited \/ Head(mainBatch) = ExitMsg
                        THEN settled ELSE Append(settled, Head(mainBatch))
      BY <1>20 DEF MainDispatch
    <2>2. CASE Has(sent, ExitMsg)
      BY <2>1, <2>2
    <2>3. CASE ~Has(sent, ExitMsg)
      <3>1. ~Has(Pending, ExitMsg) /\ ~threadHasExited
        BY <2>3
      <3>2. Has(Pending, Head(mainBatch))
        BY <2>1, HeadOccurs, PendingType DEF Pending
      <3>3. /\ ~threadHasExited' /\ settled' = Append(settled, Head(mainBatch))
        BY <2>1, <3>1, <3>2
      <3>4. Pending' = Pending
        BY <2>1, <3>3, SettleKeepsPending
      <3> QED BY <2>1, <2>3, <3>3, <3>4
    <2> QED BY <2>2, <2>3
  <1>21. CASE MainDispatchDestroyed
    <2>1. host = "destroyed" /\ UNCHANGED sent
      BY <1>21 DEF MainDispatchDestroyed
    <2> QED BY <2>1
  <1>22. CASE MainBatchDone
    BY <1>22 DEF MainBatchDone, Pending
  <1>23. CASE UNCHANGED vars
    BY <1>23 DEF vars, Pending
  <1> QED
    BY <1>1, <1>2, <1>3, <1>4, <1>5, <1>6, <1>7, <1>8, <1>9, <1>10, <1>11,
       <1>12, <1>13, <1>14, <1>15, <1>16, <1>17, <1>18, <1>19, <1>20, <1>21,
       <1>22, <1>23
       DEF Next, PresentStep, MainStep

(* The inductive invariant of the refinement. *)
LEMMA ReplyInductive == Spec => [](IndInv /\ OrderInv /\ ReplyInv)
  <1>1. Init => ReplyInv
    <2> SUFFICES ASSUME Init PROVE ReplyInv
      OBVIOUS
    <2>1. AllReplied /\ SignalsOnce
      BY DEF Init, AllReplied, SignalsOnce, Has, Before
    <2>2. /\ settled = <<>> /\ mainBatch = <<>> /\ mainQueue = <<>> /\ emitted = <<>>
          /\ ~threadHasExited /\ presentPC = "none" /\ host = "none"
      BY DEF Init
    <2>3. <<>> \o <<>> \o <<>> = <<>>
      OBVIOUS
    <2>4. Pending = <<>>
      BY <2>2, <2>3, Zenon DEF Pending
    <2>5. ~Has(emitted, ExitMsg)
      BY <2>2 DEF Has
    <2>6. Undropped
      BY <2>2, <2>4, <2>5 DEF Undropped
    <2> QED BY <2>1, <2>6 DEF ReplyInv
  <1>2. IndInv /\ OrderInv /\ ReplyInv /\ [Next]_vars => ReplyInv'
    <2> SUFFICES ASSUME IndInv, OrderInv, ReplyInv, [Next]_vars PROVE ReplyInv'
      OBVIOUS
    <2>1. /\ TypeControl /\ TypeQueues /\ HostPhases /\ BatchOnlyInDispatch
          /\ PresentFIFO
      BY Zenon DEF IndInv, TypeOK
    <2> QED BY <2>1, AllRepliedStep, SignalsOnceStep, UndroppedStep, Zenon DEF ReplyInv
  <1> QED BY <1>1, <1>2, OrderInductive, PTL DEF Spec

-------------------------------------------------------------------------------
(* The simulation, one lemma per step of the contract.                       *)

(* Where a call is in the handler's history: at one place only. *)
LEMMA HandledOnce ==
    ASSUME TypeQueues, PresentFIFO, SentOnce,
           NEW i \in DOMAIN handled, NEW j \in DOMAIN handled, handled[i] = handled[j]
    PROVE  i = j
  <1> DEFINE all == handled \o presentBatch \o presentQueue
  <1>1. /\ i \in DOMAIN all /\ all[i] = handled[i]
        /\ j \in DOMAIN all /\ all[j] = handled[j]
    BY DEF TypeQueues
  <1>2. /\ i \in DOMAIN sent /\ sent[i] = handled[i]
        /\ j \in DOMAIN sent /\ sent[j] = handled[j]
    BY <1>1, Zenon DEF PresentFIFO
  <1> QED BY <1>2, Zenon DEF SentOnce

(* Replies are pending in the order their calls were executed in. *)
LEMMA PendingIsExecuted ==
    ASSUME IndInv, OrderInv, NEW i \in DOMAIN handled, NEW j \in DOMAIN handled,
           handled[i] \in Calls, handled[j] \in Calls,
           Before(Pending, handled[i], handled[j])
    PROVE  i < j
  <1>1. Before(handled, handled[i], handled[j])
    BY DEF OrderInv, PendingInOrder, RepliesInOrder, Messages
  <1>2. PICK k, l \in DOMAIN handled :
            k < l /\ handled[k] = handled[i] /\ handled[l] = handled[j]
    BY <1>1 DEF Before
  <1>3. TypeQueues /\ PresentFIFO /\ SentOnce
    BY DEF IndInv, TypeOK, OrderInv
  <1>4. k = i /\ l = j
    BY <1>2, <1>3, HandledOnce
  <1> QED BY <1>2, <1>4

(* The head of the batch comes after everything settled ... *)
LEMMA SettledBeforeHead ==
    ASSUME TypeQueues, mainBatch # <<>>, NEW x, Has(settled, x)
    PROVE  Before(Pending, x, Head(mainBatch))
  <1>1. PICK i \in DOMAIN settled : settled[i] = x
    BY DEF Has
  <1> DEFINE all == settled \o mainBatch \o mainQueue
  <1>2. /\ Len(settled) + 1 \in DOMAIN all
        /\ all[Len(settled) + 1] = Head(mainBatch)
        /\ i \in DOMAIN all /\ all[i] = settled[i] /\ i < Len(settled) + 1
    BY PendingType
  <1>3. /\ Len(settled) + 1 \in DOMAIN Pending
        /\ Pending[Len(settled) + 1] = Head(mainBatch)
        /\ i \in DOMAIN Pending /\ Pending[i] = x /\ i < Len(settled) + 1
    BY <1>1, <1>2, Zenon DEF Pending
  <1> QED BY <1>3, Zenon DEF Before

(* ... and before everything else that is pending. *)
LEMMA HeadBeforeRest ==
    ASSUME TypeQueues, mainBatch # <<>>, NEW x, Has(Pending, x), ~Has(settled, x),
           x # Head(mainBatch)
    PROVE  Before(Pending, Head(mainBatch), x)
  <1>1. PICK i \in DOMAIN Pending : Pending[i] = x
    BY DEF Has
  <1> DEFINE all == settled \o mainBatch \o mainQueue
  <1>2. /\ Len(settled) + 1 \in DOMAIN all
        /\ all[Len(settled) + 1] = Head(mainBatch)
        /\ i \in DOMAIN all =>
              \/ i \in DOMAIN settled /\ all[i] = settled[i]
              \/ i = Len(settled) + 1
              \/ Len(settled) + 1 < i
    BY PendingType
  <1>3. /\ Len(settled) + 1 \in DOMAIN Pending
        /\ Pending[Len(settled) + 1] = Head(mainBatch)
        /\ \/ i \in DOMAIN settled /\ Pending[i] = settled[i]
           \/ i = Len(settled) + 1
           \/ Len(settled) + 1 < i
    BY <1>1, <1>2, Zenon DEF Pending
  <1>4. Len(settled) + 1 < i
    BY <1>1, <1>3 DEF Has
  <1> QED BY <1>1, <1>3, <1>4, Zenon DEF Before

(* Contract!Complete: the host callback of the call at the head of the batch *)
(* runs, after those of the calls executed before it.                        *)
LEMMA DispatchCompletes ==
    ASSUME IndInv, OrderInv, ReplyInv, mainBatch # <<>>, Head(mainBatch) \in Calls,
           settled' = Append(settled, Head(mainBatch)), UNCHANGED <<sent, handled>>
    PROVE  \E i \in DOMAIN handled : Contract!Complete(i)
  <1> DEFINE x == Head(mainBatch)
  <1>1. TypeQueues /\ PresentFIFO /\ SentOnce /\ CurrentIsLast
    BY DEF IndInv, TypeOK, OrderInv
  <1>2. Has(Pending, x)
    BY <1>1, HeadOccurs, PendingType DEF Pending
  <1>3. Has(handled, x)
    BY <1>2 DEF OrderInv, PendingInOrder, RepliedIsDone, Messages
  <1>4. PICK i \in DOMAIN handled : handled[i] = x
    BY <1>3 DEF Has
  <1>5. \A j \in DOMAIN handled : handled[j] \in Calls \cup {ExitMsg}
    BY <1>1 DEF TypeQueues
  <1>6. ASSUME NEW j \in i .. Len(handled), Has(settled, handled[j]) PROVE FALSE
    <2>1. j \in DOMAIN handled /\ ~(j < i)
      BY <1>1, <1>4 DEF TypeQueues
    <2>2. handled[j] \in Calls
      <3>1. handled[j] \in Calls \cup Signals
        BY <1>1, <1>6 DEF Has, TypeQueues
      <3> QED BY <1>5, <2>1, <3>1, MessagesDistinct
    <2>3. Before(Pending, handled[j], handled[i])
      BY <1>1, <1>4, <1>6, SettledBeforeHead
    <2> QED BY <1>4, <2>1, <2>2, <2>3, PendingIsExecuted
  <1>7. ASSUME ~Has(sent, ExitMsg), NEW j \in 1 .. i - 1
        PROVE  Has(settled, handled[j])
    <2>1. j \in DOMAIN handled /\ j < i /\ i <= Len(handled) /\ j # i
      BY <1>1, <1>4 DEF TypeQueues
    <2>2. handled[j] \in Calls
      <3>1. Has(sent, handled[j])
        <4>1. Has(handled, handled[j])
          BY <2>1 DEF Has
        <4> QED BY <1>1, <4>1, HandledWasSent
      <3> QED BY <1>5, <1>7, <2>1, <3>1
    <2>3. handled[j] # x
      BY <1>1, <1>4, <2>1, HandledOnce
    <2>4. current # handled[j]
      <3>1. ASSUME current = handled[j] PROVE FALSE
        <4>1. /\ Len(handled) \in DOMAIN handled
              /\ handled[Len(handled)] = handled[j]
          BY <1>1, <2>1, <2>2, <3>1, MessagesDistinct DEF CurrentIsLast, TypeQueues
        <4>2. j = Len(handled)
          BY <1>1, <2>1, <4>1, HandledOnce
        <4>3. j \in Nat /\ i \in Nat /\ Len(handled) \in Nat
          BY <1>1, <1>4, <2>1 DEF TypeQueues
        <4> QED BY <2>1, <4>2, <4>3
      <3> QED BY <3>1
    <2>5. Has(Pending, handled[j])
      <3>1. Has(handled, handled[j])
        BY <2>1 DEF Has
      <3>2. Has(emitted, handled[j])
        BY <2>2, <2>4, <3>1 DEF ReplyInv, AllReplied
      <3>3. emitted = Pending
        BY <1>7 DEF ReplyInv, Undropped
      <3> QED BY <3>2, <3>3
    <2>6. ASSUME ~Has(settled, handled[j]) PROVE FALSE
      <3>1. Before(Pending, handled[i], handled[j])
        BY <1>1, <1>4, <2>3, <2>5, <2>6, HeadBeforeRest
      <3>2. i < j
        BY <1>4, <2>1, <2>2, <3>1, PendingIsExecuted
      <3>3. i \in Nat /\ j \in Nat
        BY <1>1, <1>4, <2>1 DEF TypeQueues
      <3> QED BY <2>1, <3>2, <3>3
    <2> QED BY <2>6
  <1>8. Contract!Complete(i)
    <2>1. \A j \in i .. Len(handled) : ~Contract!Occurs(settled, handled[j])
      BY <1>6 DEF Contract!Occurs, Has
    <2>2. \/ Contract!Occurs(sent, ExitMsg)
          \/ \A j \in 1 .. i - 1 : Contract!Occurs(settled, handled[j])
      BY <1>7 DEF Contract!Occurs, Has
    <2> QED BY <1>4, <2>1, <2>2 DEF Contract!Complete
  <1> QED BY <1>8

(* Contract!Notify: the slots of the signal at the head of the batch run. *)
LEMMA DispatchNotifies ==
    ASSUME IndInv, OrderInv, ReplyInv, mainBatch # <<>>, Head(mainBatch) \in Signals,
           settled' = Append(settled, Head(mainBatch)), UNCHANGED <<sent, handled>>
    PROVE  Contract!Notify(Head(mainBatch))
  <1>1. ASSUME Has(settled, Head(mainBatch)) PROVE FALSE
    <2>1. Before(Pending, Head(mainBatch), Head(mainBatch))
      BY <1>1, SettledBeforeHead DEF IndInv, TypeOK
    <2> QED BY <2>1 DEF OrderInv, PendingInOrder, ReplyInv, SignalsOnce, Messages
  <1> QED BY <1>1 DEF Contract!Notify, Contract!Occurs, Has

(* Contract!Execute: the handler takes the oldest message it has not taken. *)
LEMMA HandlerExecutes ==
    ASSUME TypeQueues, PresentFIFO, presentBatch # <<>>,
           handled' = Append(handled, Head(presentBatch)),
           UNCHANGED <<sent, settled>>
    PROVE  Contract!Execute
  <1>1. \A h, b, q \in Seq(Calls \cup {ExitMsg}) : b # <<>> =>
           /\ Len(h) < Len(h \o b \o q)
           /\ (h \o b \o q)[Len(h) + 1] = Head(b)
    OBVIOUS
  <1>2. Len(handled) < Len(sent) /\ sent[Len(handled) + 1] = Head(presentBatch)
    BY <1>1, Zenon DEF TypeQueues, PresentFIFO
  <1> QED BY <1>2 DEF Contract!Execute

(* Contract!Issue: Enqueue appends a message that was not sent before. *)
LEMMA EnqueueIssues ==
    ASSUME NEW m \in Calls \cup {ExitMsg}, ~Has(sent, m), ~Has(sent, ExitMsg),
           EnqueuePresent(m), UNCHANGED <<handled, settled>>
    PROVE  Contract!Issue(m)
  BY DEF Contract!Issue, Contract!Occurs, Has, EnqueuePresent

(* Every step of the two threads is a step of the contract, or none.         *)
LEMMA ContractStep ==
    ASSUME IndInv, OrderInv, ReplyInv, [Next]_vars
    PROVE  [Contract!Next]_(Contract!contractVars)
  <1> USE DEF presentVars, presentQueueVars, mainQueueVars, hostVars
  <1>0. TypeQueues /\ HostPhases /\ PresentFIFO
    BY DEF IndInv, TypeOK
  <1> USE <1>0
  <1>1. CASE Start
    BY <1>1 DEF Start, Contract!contractVars
  <1>2. ASSUME NEW c \in Calls, EnqueueRemoteCall(c)
        PROVE  [Contract!Next]_(Contract!contractVars)
    <2>1. /\ host = "running" /\ ~Has(sent, c) /\ UNCHANGED <<handled, settled>>
          /\ EnqueuePresent(c) \/ UNCHANGED sent
      BY <1>2 DEF EnqueueRemoteCall
    <2>2. ~Has(sent, ExitMsg)
      BY <2>1 DEF HostPhases
    <2>3. CASE EnqueuePresent(c)
      <3>1. Contract!Issue(c)
        BY <2>1, <2>2, <2>3, EnqueueIssues
      <3> QED BY <3>1 DEF Contract!Next
    <2>4. CASE UNCHANGED sent
      BY <2>1, <2>4 DEF Contract!contractVars
    <2> QED BY <2>1, <2>3, <2>4
  <1>3. CASE DisposeLock
    BY <1>3 DEF DisposeLock, Contract!contractVars
  <1>4. CASE DisposeEnqueueExit
    <2>1. /\ host = "locked" /\ EnqueuePresent(ExitMsg) /\ UNCHANGED <<handled, settled>>
      BY <1>4 DEF DisposeEnqueueExit
    <2>2. ~Has(sent, ExitMsg)
      BY <2>1 DEF HostPhases
    <2>3. Contract!Issue(ExitMsg)
      BY <2>1, <2>2, EnqueueIssues
    <2> QED BY <2>3 DEF Contract!Next
  <1>5. CASE DisposeReturn
    BY <1>5 DEF DisposeReturn, Contract!contractVars
  <1>6. CASE PresentEnterLoop
    BY <1>6 DEF PresentEnterLoop, Contract!contractVars
  <1>7. CASE PresentPoll
    BY <1>7 DEF PresentPoll, Contract!contractVars
  <1>8. CASE PresentExitLoop
    BY <1>8 DEF PresentExitLoop, EnqueueMain, Contract!contractVars
  <1>9. CASE PresentFinish
    BY <1>9 DEF PresentFinish, Contract!contractVars
  <1>10. CASE PresentWake
    BY <1>10 DEF PresentWake, Contract!contractVars
  <1>11. CASE PresentDrain
    BY <1>11 DEF PresentDrain, Contract!contractVars
  <1>12. CASE PresentBeginCall
    <2>1. /\ presentBatch # <<>> /\ handled' = Append(handled, Head(presentBatch))
          /\ UNCHANGED <<sent, settled>>
      BY <1>12 DEF PresentBeginCall
    <2>2. Contract!Execute
      BY <2>1, HandlerExecutes
    <2> QED BY <2>2 DEF Contract!Next
  <1>13. ASSUME NEW open \in BOOLEAN, PresentReply(open)
        PROVE  [Contract!Next]_(Contract!contractVars)
    BY <1>13 DEF PresentReply, EnqueueMain, Contract!contractVars
  <1>14. CASE PresentHandleExit
    <2>1. /\ presentBatch # <<>> /\ handled' = Append(handled, Head(presentBatch))
          /\ UNCHANGED <<sent, settled>>
      BY <1>14 DEF PresentHandleExit
    <2>2. Contract!Execute
      BY <2>1, HandlerExecutes
    <2> QED BY <2>2 DEF Contract!Next
  <1>15. CASE PresentBatchDone
    BY <1>15 DEF PresentBatchDone, Contract!contractVars
  <1>16. ASSUME NEW s \in Signals, PresentEmit(s)
        PROVE  [Contract!Next]_(Contract!contractVars)
    BY <1>16 DEF PresentEmit, EnqueueMain, Contract!contractVars
  <1>17. CASE PresentDisplayEvent
    BY <1>17 DEF PresentDisplayEvent, Contract!contractVars
  <1>18. CASE MainWake
    BY <1>18 DEF MainWake, Contract!contractVars
  <1>19. CASE MainDrain
    BY <1>19 DEF MainDrain, Contract!contractVars
  <1>20. CASE MainDispatch
    <2>1. /\ mainBatch # <<>> /\ UNCHANGED <<sent, handled>>
          /\ settled' = IF threadHasExited \/ Head(mainBatch) = ExitMsg
                        THEN settled ELSE Append(settled, Head(mainBatch))
      BY <1>20 DEF MainDispatch
    <2>2. CASE threadHasExited \/ Head(mainBatch) = ExitMsg
      BY <2>1, <2>2 DEF Contract!contractVars
    <2>3. CASE ~(threadHasExited \/ Head(mainBatch) = ExitMsg)
      <3>1. settled' = Append(settled, Head(mainBatch))
        BY <2>1, <2>3
      <3>2. Head(mainBatch) \in Calls \cup Signals
        BY <2>1, <2>3 DEF TypeQueues, Messages
      <3>3. CASE Head(mainBatch) \in Calls
        BY <2>1, <3>1, <3>3, DispatchCompletes DEF Contract!Next
      <3>4. CASE Head(mainBatch) \in Signals
        BY <2>1, <3>1, <3>4, DispatchNotifies DEF Contract!Next
      <3> QED BY <3>2, <3>3, <3>4
    <2> QED BY <2>2, <2>3
  <1>21. CASE MainDispatchDestroyed
    BY <1>21 DEF MainDispatchDestroyed, Contract!contractVars
  <1>22. CASE MainBatchDone
    BY <1>22 DEF MainBatchDone, Contract!contractVars
  <1>23. CASE UNCHANGED vars
    BY <1>23 DEF vars, Contract!contractVars
  <1> QED
    BY <1>1, <1>2, <1>3, <1>4, <1>5, <1>6, <1>7, <1>8, <1>9, <1>10, <1>11,
       <1>12, <1>13, <1>14, <1>15, <1>16, <1>17, <1>18, <1>19, <1>20, <1>21,
       <1>22, <1>23
       DEF Next, PresentStep, MainStep

(* The asynchronous call protocol implements the in-order call contract: for *)
(* any calls and signals, requests execute in the order of issue, each host  *)
(* callback runs once and after those of the calls executed before it unless *)
(* the program disposed, and no signal is delivered twice.                   *)
THEOREM ContractRefined == Spec => RefinesContract
  <1>1. Init => Contract!Init
    BY DEF Init, Contract!Init
  <1>2. IndInv /\ OrderInv /\ ReplyInv /\ [Next]_vars
           => [Contract!Next]_(Contract!contractVars)
    BY ContractStep
  <1> QED BY <1>1, <1>2, ReplyInductive, PTL DEF Spec, RefinesContract, Contract!Spec

===============================================================================
