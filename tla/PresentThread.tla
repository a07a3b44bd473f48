---------------------------- MODULE PresentThread ----------------------------
(***************************************************************************)
(* The asynchronous call protocol between the JavaScript (main) thread and *)
(* Glamor's present thread: src/src/Glamor/PresentThread.cc over two       *)
(* AsyncMessageQueue instances, each bound to a libuv loop.                *)
(*                                                                         *)
(* A queue is the deque guarded by queue_lock_, the uv_async notification  *)
(* flag (coalescing: many Sends, one callback) and the vector OnMessageComing *)
(* drained and is still dispatching.  A call is one PresentRemoteCallMessage *)
(* and is sent at most once; signals are PresentSignalMessage objects; the *)
(* null message is ExitMsg in both directions.                             *)
(*                                                                         *)
(* The shared_ptr owners of a queue are modelled because the thread that   *)
(* drops the last one closes the uv handle of the other thread's loop.     *)
(***************************************************************************)
EXTENDS Naturals, Sequences

CONSTANTS Calls,    \* remote calls the program may issue
          Signals,  \* signals the present thread may emit
          ExitMsg,  \* the null message
          NoCall    \* no remote call is being executed

ASSUME MessagesDistinct ==
    /\ Calls \cap Signals = {}
    /\ ExitMsg \notin Calls \cup Signals
    /\ NoCall \notin Calls

VARIABLES
    host,             \* PresentThread object as GlobalScope::present_thread_ sees it
    presentPC,        \* where the present thread is in its loop
    current,          \* remote call whose trampoline is running
    displayOpen,      \* a Display keeps its poll handle in the present loop
    presentQueue, presentBatch, presentNotified, presentOwners,
    mainPC,           \* where the main thread's OnMessageComing is
    mainQueue, mainBatch, mainNotified, mainOwners,
    threadHasExited,  \* PresentThread::thread_has_exited_
    sent,             \* history: messages put into presentQueue
    handled,          \* history: messages the present thread's handler took
    emitted,          \* history: messages put into mainQueue
    settled           \* history: calls and signals whose host callback ran

presentVars == <<presentPC, current, displayOpen>>
presentQueueVars == <<presentQueue, presentBatch, presentNotified, presentOwners>>
mainQueueVars == <<mainQueue, mainBatch, mainNotified, mainOwners>>
hostVars == <<host, mainPC, threadHasExited>>
vars == <<presentVars, presentQueueVars, mainQueueVars, hostVars,
          sent, handled, emitted, settled>>

HostStates == {"none", "running", "locked", "notified", "destroyed"}
PresentPCs == {"none", "init", "check", "poll", "woken", "dispatch", "leaving", "finished"}
MainPCs == {"poll", "woken", "dispatch"}
Threads == {"host", "present"}
Messages == Calls \cup Signals \cup {ExitMsg}

Has(s, m) == \E i \in DOMAIN s : s[i] = m

Init ==
    /\ host = "none"
    /\ presentPC = "none"
    /\ current = NoCall
    /\ displayOpen = FALSE
    /\ presentQueue = <<>> /\ presentBatch = <<>>
    /\ presentNotified = FALSE /\ presentOwners = {}
    /\ mainPC = "poll"
    /\ mainQueue = <<>> /\ mainBatch = <<>>
    /\ mainNotified = FALSE /\ mainOwners = {}
    /\ threadHasExited = FALSE
    /\ sent = <<>> /\ handled = <<>> /\ emitted = <<>> /\ settled = <<>>

------------------------------------------------------------------------------
(* AsyncMessageQueue::Enqueue: push and uv_async_send under queue_lock_.     *)

(* Mutant: the newest message is served first. *)
EnqueuePresentFront(m) ==
    /\ presentQueue' = <<m>> \o presentQueue
    /\ presentNotified' = TRUE
    /\ sent' = Append(sent, m)

(* Mutant: Send is skipped when the queue already holds a message or the     *)
(* present thread is not in its poll.                                        *)
EnqueuePresentIdleOnly(m) ==
    /\ presentQueue' = Append(presentQueue, m)
    /\ presentNotified' = (presentNotified \/ presentPC = "poll")
    /\ sent' = Append(sent, m)

EnqueuePresent(m) ==
    /\ presentQueue' = Append(presentQueue, m)
    /\ presentNotified' = TRUE
    /\ sent' = Append(sent, m)

(* Mutant: Send is skipped while the main thread is dispatching a batch. *)
EnqueueMainIdleOnly(m) ==
    /\ mainQueue' = Append(mainQueue, m)
    /\ mainNotified' = (mainNotified \/ mainPC # "dispatch")
    /\ emitted' = Append(emitted, m)

EnqueueMain(m) ==
    /\ mainQueue' = Append(mainQueue, m)
    /\ mainNotified' = TRUE
    /\ emitted' = Append(emitted, m)

------------------------------------------------------------------------------
(* Main thread: operations JavaScript calls.                                 *)

(* PresentThread::Start waits on the semaphore until the new thread has made *)
(* its loop and queue; the main queue is shared by both threads.             *)
Start ==
    /\ host = "none"
    /\ host' = "running"
    /\ presentPC' = "init"
    /\ presentOwners' = {"present"}
    /\ mainOwners' = {"host", "present"}
    /\ UNCHANGED <<current, displayOpen, presentQueue, presentBatch,
                   presentNotified, mainPC, mainQueue, mainBatch, mainNotified,
                   threadHasExited, sent, handled, emitted, settled>>

(* The weak_ptr to the present queue can still be locked. *)
QueueAlive == presentOwners # {}

(* PresentThread::EnqueueRemoteCall.  When the lock fails the call is only   *)
(* logged; Invoke CHECKs that a PresentThread exists at all.                 *)
EnqueueRemoteCall(c) ==
    /\ host = "running"
    /\ mainPC # "woken"
    /\ ~Has(sent, c)
    /\ IF QueueAlive THEN EnqueuePresent(c)
       ELSE UNCHANGED <<presentQueue, presentNotified, sent>>
    /\ UNCHANGED <<presentVars, presentBatch, presentOwners, mainQueueVars,
                   hostVars, handled, emitted, settled>>

(* PresentThread::Dispose, first half: the local shared_ptr is an owner.  *)
DisposeLock ==
    /\ host = "running"
    /\ mainPC # "woken"
    /\ QueueAlive
    /\ host' = "locked"
    /\ presentOwners' = presentOwners \cup {"host"}
    /\ UNCHANGED <<presentVars, presentQueue, presentBatch, presentNotified,
                   mainQueueVars, mainPC, threadHasExited,
                   sent, handled, emitted, settled>>

(* PresentThread::Dispose enqueues the null message.  Collect, called before  *)
(* it, submits nothing: it returns when no retained object is alive, and     *)
(* otherwise InternalReset's CHECK of the null thread aborts the process.    *)
DisposeEnqueueExit ==
    /\ host = "locked"
    /\ host' = "notified"
    /\ EnqueuePresent(ExitMsg)
    /\ UNCHANGED <<presentVars, presentBatch, presentOwners, mainQueueVars,
                   mainPC, threadHasExited, handled, emitted, settled>>

(* Dispose returns and GlobalScope::DisposePresentThread resets the          *)
(* unique_ptr: the host gives up both queues.                                *)
DisposeReturn ==
    /\ host = "notified"
    /\ host' = "destroyed"
    /\ presentOwners' = presentOwners \ {"host"}
    /\ mainOwners' = mainOwners \ {"host"}
    /\ mainQueue' = IF mainOwners = {"host"} THEN <<>> ELSE mainQueue
    /\ UNCHANGED <<presentVars, presentQueue, presentBatch, presentNotified,
                   mainPC, mainBatch, mainNotified, threadHasExited,
                   sent, handled, emitted, settled>>

------------------------------------------------------------------------------
(* Present thread: libuv loop, OnMessageComing and the message handler.      *)

PresentEnterLoop ==
    /\ presentPC = "init"
    /\ presentPC' = "check"
    /\ UNCHANGED <<current, displayOpen, presentQueueVars, mainQueueVars,
                   hostVars, sent, handled, emitted, settled>>

(* uv_run's alive test: the loop goes to poll while it has a handle... *)
PresentPoll ==
    /\ presentPC = "check"
    /\ presentOwners # {} \/ displayOpen
    /\ presentPC' = "poll"
    /\ UNCHANGED <<current, displayOpen, presentQueueVars, mainQueueVars,
                   hostVars, sent, handled, emitted, settled>>

(* ... and otherwise returns; the thread posts the null message. *)
PresentExitLoop ==
    /\ presentPC = "check"
    /\ presentOwners = {} /\ ~displayOpen
    /\ presentPC' = "leaving"
    /\ EnqueueMain(ExitMsg)
    /\ UNCHANGED <<current, displayOpen, presentQueueVars, mainBatch, mainOwners,
                   hostVars, sent, handled, settled>>

(* LocalContext::Delete, EventLoop::Delete and return: the thread's owners   *)
(* of the main queue go; the last one destroys it with its contents.         *)
PresentFinish ==
    /\ presentPC = "leaving"
    /\ presentPC' = "finished"
    /\ mainOwners' = mainOwners \ {"present"}
    /\ mainQueue' = IF mainOwners = {"present"} THEN <<>> ELSE mainQueue
    /\ UNCHANGED <<current, displayOpen, presentQueueVars, mainBatch,
                   mainNotified, hostVars, sent, handled, emitted, settled>>

(* libuv clears the pending flag, then calls OnMessageComing. *)
PresentWake ==
    /\ presentPC = "poll"
    /\ presentNotified /\ presentOwners # {}
    /\ presentPC' = "woken"
    /\ presentNotified' = FALSE
    /\ UNCHANGED <<current, displayOpen, presentQueue, presentBatch,
                   presentOwners, mainQueueVars, hostVars,
                   sent, handled, emitted, settled>>

(* Mutant: OnMessageComing takes one message for each notification. *)
PresentDrainOne ==
    /\ presentPC = "woken"
    /\ presentPC' = "dispatch"
    /\ presentBatch' = SubSeq(presentQueue, 1, 1)
    /\ presentQueue' = SubSeq(presentQueue, 2, Len(presentQueue))
    /\ UNCHANGED <<current, displayOpen, presentNotified, presentOwners,
                   mainQueueVars, hostVars, sent, handled, emitted, settled>>

PresentDrain ==
    /\ presentPC = "woken"
    /\ presentPC' = "dispatch"
    /\ presentBatch' = presentQueue
    /\ presentQueue' = <<>>
    /\ UNCHANGED <<current, displayOpen, presentNotified, presentOwners,
                   mainQueueVars, hostVars, sent, handled, emitted, settled>>

(* Mutant: the reply is posted before DoRemoteCall instead of after it. *)
PresentBeginCallRepliesFirst ==
    /\ presentPC = "dispatch"
    /\ current = NoCall
    /\ presentBatch # <<>> /\ Head(presentBatch) \in Calls
    /\ current' = Head(presentBatch)
    /\ presentBatch' = Tail(presentBatch)
    /\ handled' = Append(handled, Head(presentBatch))
    /\ EnqueueMain(Head(presentBatch))
    /\ UNCHANGED <<presentPC, displayOpen, presentQueue, presentNotified,
                   presentOwners, mainBatch, mainOwners, hostVars, sent, settled>>

(* The handler takes a remote call and enters DoRemoteCall. *)
PresentBeginCall ==
    /\ presentPC = "dispatch"
    /\ current = NoCall
    /\ presentBatch # <<>> /\ Head(presentBatch) \in Calls
    /\ current' = Head(presentBatch)
    /\ presentBatch' = Tail(presentBatch)
    /\ handled' = Append(handled, Head(presentBatch))
    /\ UNCHANGED <<presentPC, displayOpen, presentQueue, presentNotified,
                   presentOwners, mainQueueVars, hostVars, sent, emitted, settled>>

(* PresentRemoteHandle::Emit from a trampoline or a Wayland callback. *)
PresentEmit(s) ==
    /\ \/ current # NoCall
       \/ presentPC = "poll" /\ displayOpen
    /\ ~Has(emitted, s)
    /\ EnqueueMain(s)
    /\ UNCHANGED <<presentVars, presentQueueVars, mainBatch, mainOwners,
                   hostVars, sent, handled, settled>>

(* DoRemoteCall returned, whatever its status: the message goes back to the  *)
(* main thread.  The call may have opened or closed a display.               *)
PresentReply(open) ==
    /\ presentPC = "dispatch"
    /\ current # NoCall
    /\ EnqueueMain(current)
    /\ current' = NoCall
    /\ displayOpen' = open
    /\ UNCHANGED <<presentPC, presentQueueVars, mainBatch, mainOwners,
                   hostVars, sent, handled, settled>>

(* The handler takes the null message and resets its shared_ptr. *)
PresentHandleExit ==
    /\ presentPC = "dispatch"
    /\ current = NoCall
    /\ presentBatch # <<>> /\ Head(presentBatch) = ExitMsg
    /\ presentOwners' = presentOwners \ {"present"}
    /\ presentBatch' = Tail(presentBatch)
    /\ handled' = Append(handled, ExitMsg)
    /\ UNCHANGED <<presentVars, presentQueue, presentNotified, mainQueueVars,
                   hostVars, sent, emitted, settled>>

(* Mutant: the loop polls again without the test for active handles. *)
PresentBatchDoneNoTest ==
    /\ presentPC = "dispatch"
    /\ current = NoCall
    /\ presentBatch = <<>>
    /\ presentPC' = "poll"
    /\ UNCHANGED <<current, displayOpen, presentQueueVars, mainQueueVars,
                   hostVars, sent, handled, emitted, settled>>

(* OnMessageComing returns to the loop. *)
PresentBatchDone ==
    /\ presentPC = "dispatch"
    /\ current = NoCall
    /\ presentBatch = <<>>
    /\ presentPC' = "check"
    /\ UNCHANGED <<current, displayOpen, presentQueueVars, mainQueueVars,
                   hostVars, sent, handled, emitted, settled>>

(* A display event ends the poll without a queue notification. *)
PresentDisplayEvent ==
    /\ presentPC = "poll"
    /\ displayOpen
    /\ presentPC' = "check"
    /\ UNCHANGED <<current, displayOpen, presentQueueVars, mainQueueVars,
                   hostVars, sent, handled, emitted, settled>>

------------------------------------------------------------------------------
(* Main thread: its loop, OnMessageComing and OnMainThreadMessage.  The loop *)
(* does not run while the thread is inside Dispose.                          *)

MainLoopRuns == host \notin {"locked", "notified"}

MainWake ==
    /\ MainLoopRuns
    /\ mainPC = "poll"
    /\ mainNotified /\ mainOwners # {}
    /\ mainPC' = "woken"
    /\ mainNotified' = FALSE
    /\ UNCHANGED <<presentVars, presentQueueVars, mainQueue, mainBatch, mainOwners,
                   host, threadHasExited, sent, handled, emitted, settled>>

(* Mutant: the messages are popped from the wrong end. *)
MainDrainReversed ==
    /\ mainPC = "woken"
    /\ mainPC' = "dispatch"
    /\ mainBatch' = [i \in DOMAIN mainQueue |-> mainQueue[Len(mainQueue) + 1 - i]]
    /\ mainQueue' = <<>>
    /\ UNCHANGED <<presentVars, presentQueueVars, mainNotified, mainOwners,
                   host, threadHasExited, sent, handled, emitted, settled>>

(* Mutant: one message of the queue is kept, the others are dropped. *)
MainDrainLatest ==
    /\ mainPC = "woken"
    /\ mainPC' = "dispatch"
    /\ mainBatch' = SubSeq(mainQueue, Len(mainQueue), Len(mainQueue))
    /\ mainQueue' = <<>>
    /\ UNCHANGED <<presentVars, presentQueueVars, mainNotified, mainOwners,
                   host, threadHasExited, sent, handled, emitted, settled>>

MainDrain ==
    /\ mainPC = "woken"
    /\ mainPC' = "dispatch"
    /\ mainBatch' = mainQueue
    /\ mainQueue' = <<>>
    /\ UNCHANGED <<presentVars, presentQueueVars, mainNotified, mainOwners,
                   host, threadHasExited, sent, handled, emitted, settled>>

(* Mutant: the null message's branch does not return. *)
MainDispatchFallsThrough ==
    /\ MainLoopRuns
    /\ mainPC = "dispatch"
    /\ mainBatch # <<>>
    /\ Head(mainBatch) = ExitMsg => presentPC = "finished"
    /\ mainBatch' = Tail(mainBatch)
    /\ threadHasExited' = (threadHasExited \/ Head(mainBatch) = ExitMsg)
    /\ settled' = IF threadHasExited THEN settled ELSE Append(settled, Head(mainBatch))
    /\ UNCHANGED <<presentVars, presentQueueVars, mainQueue, mainNotified,
                   mainOwners, host, mainPC, sent, handled, emitted>>

(* OnMainThreadMessage.  The null message joins the present thread.  After   *)
(* DisposePresentThread the handler still holds the destroyed object's       *)
(* address; the step is then its behaviour on the object's old contents.     *)
MainDispatch ==
    /\ MainLoopRuns
    /\ mainPC = "dispatch"
    /\ mainBatch # <<>>
    /\ Head(mainBatch) = ExitMsg => presentPC = "finished"
    /\ mainBatch' = Tail(mainBatch)
    /\ threadHasExited' = (threadHasExited \/ Head(mainBatch) = ExitMsg)
    /\ settled' = IF threadHasExited \/ Head(mainBatch) = ExitMsg
                  THEN settled
                  ELSE Append(settled, Head(mainBatch))
    /\ UNCHANGED <<presentVars, presentQueueVars, mainQueue, mainNotified,
                   mainOwners, host, mainPC, sent, handled, emitted>>

(* The other outcome of the use after destruction: thread_has_exited_ reads  *)
(* as true and the message is discarded.                                     *)
MainDispatchDestroyed ==
    /\ host = "destroyed"
    /\ mainPC = "dispatch"
    /\ mainBatch # <<>>
    /\ mainBatch' = Tail(mainBatch)
    /\ UNCHANGED <<presentVars, presentQueueVars, mainQueue, mainNotified,
                   mainOwners, hostVars, sent, handled, emitted, settled>>

MainBatchDone ==
    /\ mainPC = "dispatch"
    /\ mainBatch = <<>>
    /\ mainPC' = "poll"
    /\ UNCHANGED <<presentVars, presentQueueVars, mainQueueVars, host,
                   threadHasExited, sent, handled, emitted, settled>>

------------------------------------------------------------------------------
PresentStep ==
    \/ PresentEnterLoop \/ PresentPoll \/ PresentExitLoop \/ PresentFinish
    \/ PresentWake \/ PresentDrain \/ PresentBeginCall
    \/ \E open \in BOOLEAN : PresentReply(open)
    \/ PresentHandleExit \/ PresentBatchDone

MainStep ==
    \/ MainWake \/ MainDrain \/ MainDispatch \/ MainDispatchDestroyed \/ MainBatchDone

Next ==
    \/ Start
    \/ \E c \in Calls : EnqueueRemoteCall(c)
    \/ DisposeLock \/ DisposeEnqueueExit \/ DisposeReturn
    \/ PresentStep
    \/ \E s \in Signals : PresentEmit(s)
    \/ PresentDisplayEvent
    \/ MainStep

(* Both loops keep running and trampolines return.  Every poll reports all   *)
(* ready handles, so display events cannot starve the queue's notification.  *)
(* Nothing obliges the program to issue calls or to dispose, nor the         *)
(* compositor to send events.                                                *)
Fairness ==
    /\ WF_vars(PresentStep)
    /\ SF_vars(PresentWake)
    /\ WF_vars(MainStep)
    /\ WF_vars(DisposeEnqueueExit)
    /\ WF_vars(DisposeReturn)

Spec == Init /\ [][Next]_vars /\ Fairness

------------------------------------------------------------------------------
(* Properties.                                                               *)

TypeControl ==
    /\ host \in HostStates
    /\ presentPC \in PresentPCs
    /\ mainPC \in MainPCs
    /\ current \in Calls \cup {NoCall}
    /\ presentOwners \in SUBSET Threads
    /\ mainOwners \in SUBSET Threads

TypeFlags ==
    /\ displayOpen \in BOOLEAN
    /\ presentNotified \in BOOLEAN
    /\ mainNotified \in BOOLEAN
    /\ threadHasExited \in BOOLEAN

TypeQueues ==
    /\ presentQueue \in Seq(Calls \cup {ExitMsg})
    /\ presentBatch \in Seq(Calls \cup {ExitMsg})
    /\ sent \in Seq(Calls \cup {ExitMsg})
    /\ handled \in Seq(Calls \cup {ExitMsg})
    /\ mainQueue \in Seq(Messages)
    /\ mainBatch \in Seq(Messages)
    /\ emitted \in Seq(Messages)
    /\ settled \in Seq(Calls \cup Signals)

(* The type invariant: program counters and owners, flags, queues. *)
TypeOK == TypeControl /\ TypeFlags /\ TypeQueues

(* No lost wakeup: a message waiting in a live queue has a uv_async          *)
(* notification pending, or OnMessageComing is already on its way to drain   *)
(* it, although notifications coalesce and the flag is cleared before the    *)
(* lock is taken.                                                            *)
NoLostWakeup ==
    /\ presentQueue # <<>> => presentNotified \/ presentPC = "woken"
    /\ mainQueue # <<>> => mainNotified \/ mainPC = "woken"

(* The present thread takes every message it was sent, once, in the order    *)
(* Enqueue was called, whatever batches OnMessageComing forms.               *)
PresentFIFO == sent = handled \o presentBatch \o presentQueue

ExitAtEnd == \A i \in DOMAIN sent : sent[i] = ExitMsg => i = Len(sent)

(* The null message Dispose enqueues is the last one of the present queue,   *)
(* so OnMessageComing never dispatches to a handler whose queue the null     *)
(* message has destroyed.                                                    *)
ExitIsLast ==
    /\ ExitAtEnd
    /\ host # "none" /\ "present" \notin presentOwners => presentBatch = <<>> /\ presentQueue = <<>>

(* Where the shared_ptr owners and the null message are, by the host's phase; *)
(* the strengthening that makes the properties above and below inductive.    *)
HostPhases ==
    /\ host = "none" => presentPC = "none" /\ presentOwners = {} /\ sent = <<>>
    /\ host \in {"running", "locked"} =>
           "present" \in presentOwners /\ ~Has(sent, ExitMsg)
    /\ host # "none" /\ "present" \notin presentOwners => Has(handled, ExitMsg)

(* Outside OnMessageComing's dispatch loop there is no drained message. *)
BatchOnlyInDispatch ==
    /\ presentPC # "dispatch" => presentBatch = <<>>
    /\ mainPC # "dispatch" => mainBatch = <<>>

(* While a PresentThread object is reachable for Invoke, the present queue   *)
(* exists: EnqueueRemoteCall never takes its "queue is not available" exit,  *)
(* which would leave a JavaScript promise pending for ever.                  *)
QueueAvailable == host = "running" => "present" \in presentOwners

(* The inductive invariant of the proofs. *)
IndInv ==
    /\ TypeOK
    /\ HostPhases
    /\ BatchOnlyInDispatch
    /\ PresentFIFO
    /\ ExitAtEnd
    /\ NoLostWakeup

Before(s, x, y) ==
    \E i, j \in DOMAIN s : i < j /\ s[i] = x /\ s[j] = y

(* Host callbacks of remote calls run in the order the calls were issued,    *)
(* and signals and replies reach JavaScript in the order the present thread  *)
(* produced them.                                                            *)
HostOrder ==
    /\ \A x, y \in Calls : Before(settled, x, y) => Before(sent, x, y)
    /\ \A x, y \in Calls \cup Signals : Before(settled, x, y) => Before(emitted, x, y)

(* No host callback runs for a call the present thread has not executed.     *)
SettledWasHandled ==
    \A c \in Calls : Has(settled, c) => Has(handled, c) /\ current # c

(* Liveness: each call that was enqueued is executed by the present thread,  *)
(* even when Dispose follows it.                                             *)
EveryCallExecuted == \A c \in Calls : Has(sent, c) ~> Has(handled, c) /\ current # c

(* Liveness: and its host callback runs, unless the program disposes.        *)
EveryCallSettled == \A c \in Calls : Has(sent, c) ~> Has(settled, c) \/ host = "destroyed"

(* Liveness: once the present thread itself has destroyed its queue, the     *)
(* loop ends and the thread finishes, unless a display holds the loop.       *)
ExitAfterOwnReset ==
    presentPC = "dispatch" /\ presentOwners = {}
        ~> presentPC = "finished" \/ displayOpen

(* PresentThread.cc:174: the null message makes the event loop exit "if      *)
(* there are no any other pending handles".                                  *)
NullMessageEndsLoop ==
    Has(handled, ExitMsg) ~> presentPC = "finished" \/ displayOpen

(* PresentRemoteCall.h:115: arguments are "destructed in the host thread     *)
(* after host callback is called": a reply leaves the main queue only when   *)
(* the main thread drains it.                                                *)
RepliesLeaveByDrain ==
    [][MainDrain \/ \A c \in Calls : Has(mainQueue, c) => Has(mainQueue', c)]_vars

------------------------------------------------------------------------------
(* The asynchronous in-order call contract the protocol implements.          *)
Contract == INSTANCE RemoteCallContract
                WITH Requests <- Calls, Notices <- Signals, Close <- ExitMsg,
                     issued <- sent, executed <- handled, completed <- settled

(* Every behaviour of the two threads and their queues is one of the         *)
(* contract: requests execute in issue order, complete once and in that      *)
(* order, and no signal is delivered twice.                                  *)
RefinesContract == Contract!Spec

==============================================================================
