# Verification of Cocoa

Cocoa is a JavaScript engine for 2D graphics: a V8 runtime (`src/src/Gallium`)
whose bindings drive a rendering library (`src/src/Glamor`) that runs on a thread
of its own. These modules model the parts whose correctness depends on the order
in which threads, callbacks and the Wayland compositor act. Paths below are
relative to `src/src/` unless they start with `typescript/`.

## 1. Inventory

| Component | State it keeps | Operations | Talks to |
|---|---|---|---|
| Message queues (`Core/AsyncMessageQueue.h`, `Core/EventLoop.h`) | deque under `queue_lock_`, uv_async notification, drained batch | `Enqueue`, `OnMessageComing`, `WaitOnce`, destruction | two libuv loops |
| Present thread (`Glamor/PresentThread.cc`, `PresentRemoteHandle.cc`, `Glamor.cc`) | the `PresentThread` object, two queues and their `shared_ptr` owners, `thread_has_exited_` | `Start`, `Invoke`, `Emit`, `Dispose`, the two message handlers, the join | JavaScript on the main thread, every Glamor object on the present thread |
| Local signals (`PresentThread.cc`, `PresentRemoteHandle.cc`) | `signal_slots_map_`, `local_signal_queue_`, one idle handle | `Connect`, `Disconnect`, `Emit`, delivery in the next iteration | `ContentAggregator` |
| Frame scheduling (`Glamor/ContentAggregator.cc`, `RenderTarget.cc`, `Surface.cc`) | `frame_schedule_state_`, current frame, submitted damage | `Update`, frame slot, resize slot, `Dispose`, `Close`, `RequestNextFrame` | render target, compositor |
| Raster render target (`Glamor/Wayland/WaylandSHMRenderTarget.cc`) | `buffers_` and their states, drawing and committed index, deferred buffers | present, resize, clear, `FrameDoneCallback`, `BufferReleaseCallback` | compositor |
| Display connection (`Glamor/Wayland/WaylandDisplay.cc`) | libwayland queues, prepare/poll/check handles, surfaces, monitors | read and dispatch, roundtrip, `Close` | compositor, present loop |
| GPU objects (`Glamor/MaybeGpuObject.cc`) | retained and released objects per thread | collect, reset, force collect | present thread |
| Hardware composition (`Glamor/HWCompose*.cc`) | swapchain buffers, semaphores, current index | `NextFrame`, `SubmitFrame`, `PresentFrame`, `Resize` | Vulkan |
| Layers and caches (`Glamor/Layers/`) | generation cache, raster cache | preroll, record, purge | aggregator |
| Media dispatcher (`Gallium/bindings/utau/MediaFramePresentDispatcher.cc`) | frame queues, present request queue, clocks, command slot | decode, present, play, pause, seek, EOF, dispose | decoder, three threads |
| Platform (`Gallium/Platform.cc`, `Core/ConcurrentTaskQueue.h`) | pending and delayed tasks, outstanding count, per-isolate queues | post, delayed post, drain, dispose | V8, worker threads |
| Runtime (`Gallium/RuntimeBase.cc`, `Runtime.cc`, `Main.cc`) | module cache, loop, platform | evaluate, `SpinRun`, dispose | everything |
| Workers, ports (`Gallium/bindings/workers/`) | port pair, attached loop, running flag | post, transfer, attach, detach, join | two runtimes |
| Inspector (`Gallium/Inspector*.cc`) | two queues, session, pause state | connect, message, pause, dispose | WebSocket thread, V8 |
| Event emitter (`Gallium/bindings/EventEmitter.cc`) | listener lists, iterating flag | on, once, off, emit | JavaScript |
| Packages (`CRPKG/`), core helpers (`Core/`), shader compiler (`Reactor/`), media library (`Utau/`), input (`Glamor/Wayland/WaylandSeat*.cc`), other bindings, TypeScript library | sequential data | | |

`PROJECT.json` lists each of them with the reason when it is not modelled, and,
under `hazards`, every place where this code is hard to test, with the property
that would notice it going wrong.

What makes the modelled components correct:

* *Queues and present thread*: no message or wake-up is lost although
  notifications coalesce; order is kept; a promise settles after its call and in
  order; the shutdown message is the last; every call settles; the thread ends.
* *Frames and buffers*: each begun frame is submitted and presented once; the
  client never draws into a buffer the compositor may read; a commit always has
  its frame callback ahead; presented frames are shown; of the buffers of earlier
  sizes the window keeps those the compositor may read, and no other.
* *Media*: the queues keep their limits; a seek leaves nothing decoded before it;
  the audio sink gets every audio frame in order; commands are answered; the
  threads do not sleep for nothing; playback reaches its end.
* *Platform*: the count a drain sleeps on is exact; a task has one owner, so it is
  neither run nor deleted twice; a drain leaves nothing of its isolate behind;
  drains end unless tasks are posted for ever; the destruction of the platform ends.
* *Ports*: a thread gets a port's messages in order and at most once, wherever the
  port travels; a port on its way is in one message and nowhere else; a worker is
  joined exactly once; a listened port's messages arrive.
* *Inspector*: no message of either direction is lost, repeated or overtaken,
  through pauses and sessions; no wake-up is lost.

## 2. Plan

| # | Module | Models | Abstract specification, proofs | State |
|---|---|---|---|---|
| 1 | `PresentThread` | call protocol, queue ownership, shutdown | refines `RemoteCallContract`; `PresentThreadProofs`, `RemoteCallContractProofs` | done |
| 2 | `FrameSchedule` | aggregator, render target, compositor | `FrameScheduleProofs` | done |
| 3 | `MediaDispatcher` | decoding and presentation thread, host, commands | `MediaDispatcherProofs` | done |
| 4 | `PlatformTasks` | worker pool, delayed and foreground tasks, `SpinRun`, shutdown | `PlatformTasksProofs`, `TaskOwnershipProofs` | done |
| 5 | `MessagePorts` | ports, transfer, listeners, worker join | `MessagePortsProofs` | done |
| 6 | `InspectorSession` | WebSocket thread against the paused main thread | `InspectorSessionProofs` | done |
| 7 | `PresentSignals` | slots, local queue, idle handle | composes with 1 and 2 | open |
| 8 | `WaylandDisplay` | prepare/read/dispatch | composes with 1 | open |
| 9 | `RemoteDestroyables`, layer caches, swapchain | | | open |

Every safety invariant and every action property of the passing runs, and the
refinement of `RemoteCallContract`, is proved; the open modules are what is left.

## 3. Modules

### PresentThread

The main thread is the JavaScript thread; the present thread is created by
`PresentThread::Start`. Each has a queue bound to its loop:

| Model | Code |
|---|---|
| `presentQueue`, `presentBatch`, `presentNotified` | deque, local vector of `OnMessageComing`, pending flag of `uv_async_t` |
| `presentOwners`, `mainOwners` | which threads hold a `shared_ptr` of the queue |
| `presentPC` | the loop: alive test, poll, callback entered, dispatching, left |
| `mainPC` | the same of the main loop, which also runs JavaScript |
| `host` | the object in `GlobalScope::present_thread_`; `"locked"` and `"notified"` are points inside `Dispose` |
| `current` | the call whose trampoline `DoRemoteCall` is running |
| `displayOpen` | a display's poll handle keeps the present loop alive |
| `sent`, `handled`, `emitted`, `settled` | histories for the properties |

`EnqueueRemoteCall`, `DisposeLock`, `DisposeEnqueueExit`, `DisposeReturn` are the
program's operations. `Dispose` is split where another thread can act: after it
has locked the weak pointer, after it has enqueued, when it returns. It returns
without waiting for the thread, although `glamor.d.ts:146` says that it blocks.
`PresentBeginCall`/`PresentReply` bracket `DoRemoteCall`, so signals can be
emitted from inside it. `MainDispatch` is `OnMainThreadMessage`, including the
join on the null message; after `Dispose` has destroyed the object the handler
still uses its address, and `MainDispatch` and `MainDispatchDestroyed` are the
two outcomes of reading `thread_has_exited_` there.

`RemoteCallContract` is what a caller may rely on, without queues or threads:
requests execute in issue order and complete in that order, with notices of
signals between the completions; only closing lets a completion be skipped.
`RefinesContract` maps its three histories to `sent`, `handled` and `settled`.

### FrameSchedule

One raster window, all on the present thread. Its interleaving is that of remote
calls, compositor events and the idle handle which runs local slots.

| Model | Code |
|---|---|
| `schedule` | `ContentAggregator::frame_schedule_state_` |
| `currentFrame`, `submitInfo` | `RenderTarget::current_frame_`, `last_submit_info_` |
| `buffers`, `drawingIdx`, `committedIdx`, `deferred` | `WaylandSHMRenderTarget` |
| `held`, `heldOld`, `onScreen`, `callbacks` | the compositor (external): what it may read of `buffers_`, how many buffers of earlier sizes, what it shows, what it has to fire |
| `frameSignal` | a frame signal waiting in `local_signal_queue_` |
| `crashed` | the null dereferences, and the write to a freed buffer, that the code can reach and that may end the process |

The compositor may release a held buffer at any time, also before the frame
callback; frame callbacks fire in commit order. `Close` frees the buffers whose
destruction a resize deferred, but not their `wl_buffer`s and listeners:
`FreedRelease` is the release of such a one, which finds its buffer freed, where
`BufferReleaseCallback` CHECKs (126) that it is still in the list.

### MediaDispatcher

Three threads: the decoding thread, the presentation thread (a libuv loop of its
own, iterated with `UV_RUN_NOWAIT`), and the host, whose loop delivers requests
to JavaScript. A frame is its position in the file `Media` and the number of
seeks handled when it was decoded (`epoch`, a history that the code does not
keep). Time stamps are non-negative.

| Model | Code |
|---|---|
| `decoderPC`, `decoded`, `position` | `DecodingThreadRoutine`; the frame between `DecodeNextFrame` and the push; the read position of the decoder |
| `stopFlag`, `audioQueue`, `videoQueue` | `decode_stop_flag` and the queues under `queue_lock` |
| `presenterPC` | the loop; sending; asleep in the checkpoint; taking the next frame; joining the decoder; left |
| `lastFrame`, `lastPts`, `compensate` | the frame to send at the next expiry; whether its interval was shortened by the sink's delay |
| `timerArmed`, `handlesClosed` | the timer, `loop_handles_closed` |
| `presentQueue`, `presentFull` | `present_queue_`, `present_queue_full_` |
| `cmd`, `answered`, `cmdNotified`, `hostWait`, `disposing` | `SendAndWaitForPresentThreadCmd`, and where the host waits |
| `hostNotified`, `hostBatch` | `host_notifier_` and `reqs` of `PresentRequestHandler` |

`TimerCallback` is cut where another thread can act: it expires, sends (and may
sleep), takes. `kSeekTo` is cut at the join of the decoding thread. The host's
drain of the queue is one step, since it holds the lock throughout; each
delivery is one, since JavaScript runs in it and may call the dispatcher.

The model reaches these states of the code, which no document rules out; the
properties name them as exceptions, and fail without the exception:

* the host sends a command while the presentation thread sleeps in its
  checkpoint: both wait for ever (`CommandAnswered`);
* the end of the file closes the loop handles before the host hears of it: a
  pause, a seek or the pause inside `dispose()` waits for ever
  (`CommandAnswered`);
* failed seeks put an error request and more than `PresentMax` others behind it,
  a seek succeeds, and the presentation thread falls asleep before its next
  frame; the host drops the others without the checkpoint, and the thread sleeps
  over an empty queue (`BlockedWhileFull`, `PlaysToEnd`).

It also shows that frames still queued when the decoder reaches the end are not
presented (`TakeEnd` precedes the taking), that frames sent before a seek are
delivered after `seekTo` returned, and that the rest of a batch is delivered
after a `dispose()` called inside it.
### PlatformTasks

A JavaScript thread owns one isolate and both go by one name (`Runtimes`). What V8
posts is free: a task is born by its isolate's code or by a running task. `Tasks`
are identities: one in `Reused` may become that of a new task when the old one is
in no place any more (`Reuse`), so that posting has no end.

| Model | Code |
|---|---|
| `poolQueue`, `outstanding`, `poolDisposed` | `ConcurrentTaskQueue`: queue, `outstanding_tasks_`, `disposed_` |
| `worker`, `held`, `pushed` | a thread in `WorkerEntrypoint`; the task it runs; the foreground task it posts after reading `disposed_` without the lock |
| `schedQueue`, `schedSignal`, `schedPc`, `notifyOpen`, `timers` | `DelayedTaskScheduler` and its loop |
| `fgQueue`, `fgSignal`, `disposed` | `PerIsolateData` |
| `pc`, `resume`, `batch`, `alive` | a thread between `SpinRun`, `DrainTasks`, the checkpoint and its end; the foreground tasks it took |
| `owner`, `late` | history: the isolate of a task, and what stems from delayed tasks |

Every isolate's notifier is a handle of the main thread's loop, so `OnTaskNotified`
takes a batch of any isolate on `Main`. `TaskPostsForeground` and
`TaskPushesForeground` are the two halves of `PostTask`, between which the
isolate may be disposed. `PostDelayedTask` of an isolate wraps its task and queues
it nowhere, although `Platform.h:107-111` describes a delayed queue; V8 permits an
embedder to drop such tasks.

### MessagePorts

A runtime, one worker it started, the pair of ports `MakeFromURL` connects them
with, and a second pair. A message is its number in the receiver's order and the
port it carries.

| Model | Code |
|---|---|
| `loop`, `callback`, `queue`, `signal` | `MessagePort`: the attached loop, the thread whose wrapper installed `receive_callback_`, `recv_queue_`, its notifier |
| `wrapper`, `hears` | a thread's latest `MessagePortWrap` of a port; whether it has listeners |
| `posting` | a message between `Finalize` and `PostSerializedMessage` |
| `current`, `batch`, `inCallback` | `OnMessageReceive`: its port, its local queue, and whether JavaScript runs |
| `life`, `exitHook`, `checkHook`, `joins` | the two runtimes' ends; the parent's two external callbacks |

JavaScript may use any port of its thread from inside a callback, so a batch that
is being delivered meets posts, moves, closings and collections. A port moved to
the other thread within a callback of its own keeps the rest of its batch with the
old thread while the new one listens.

### InspectorSession

| Model | Code |
|---|---|
| `io`, `conn`, `writable`, `writeQueue` | `InspectorThread` and its `WsContext` |
| `recvQueue`, `recvSignal`, `nonBlocking`, `sendQueue` | the two `AsyncMessageQueue`s |
| `main`, `batch`, `paused`, `shouldQuit`, `hasActive` | the main thread: its loop, V8 running, `WaitOnce`, the join; the batch of `OnMessageComing`, which a pause may interrupt; the client's flags |
| `received`, `handled`, `sent`, `written` | histories |

What V8 does with a message is free: answer, run scripts, pause, resume. The
write callback is the io thread's; a session's end drops neither `write_queue` nor
what arrives in it later.

## 4. Runs

| Run | Bounds | Shows |
|---|---|---|
| `present_thread` | 2 calls, 2 signals | types, no lost wake-up, FIFO, shutdown last, callback order, no early settlement; refinement of the contract; calls execute and settle; the thread ends after the handler has destroyed its queue |
| `frame_schedule` | 5 buffers, resizes while fewer than three buffers are deferred and two callbacks are ahead, one request by the program at a time | pairing, buffers, commits, presentation, the buffers kept over resizes |
| `media` | 4 frames, queues of 2, 1 and 0, 2 seeks | limits, nothing stale, audio without gaps, video in time, no lost wake-up; commands answered, dispose returns, playback ends |
| `platform_tasks` | 2 runtimes, 2 workers, 2 tasks | exact count, one owner, drains complete, shutdown ends |
| `platform_posting` | 2 runtimes, 1 worker, 2 tasks, one of which is followed by new ones without end | drains end while others post, unless tasks arrive for ever |
| `message_ports` | 2 pairs, 2 posts, 3 changes of listeners or ports | order, one carrier, one join, delivery |
| `inspector` | 2 sessions, 6 arrivals, 3 answers, 1 script | nothing lost, everything handled |
| `null_exit`, `reply_destruction`, `frame_resize`, `port_moved`, `pause_disconnect` | smallest instance | a sentence of the documentation, a comment or an assertion that the code does not keep |

*Bounds.* `PresentThread`: two messages of each direction give an order, a batch
of two, and one message behind a batch; with the null message behind them, three
in the present queue. Its theorems hold for any number. `FrameSchedule`: five
buffers let the pool grow once from three, so that both branches of
`GetNextDrawingBuffer` are taken; `MaxDeferred`, `MaxResized` and `MaxRequested`
only bound how many buffers and callbacks pile up before the next resize or
request: `Commit` and `Update` themselves are never stopped by them.
`MaxDeferred = 3` lets three resizes follow each other before the compositor
releases anything, and a resize that comes with two deferred buffers adds all
that the compositor holds of the present size. `MaxBuffers`
stops a commit when the compositor holds four buffers and no buffer is free.
`MediaDispatcher`: the second frame of the file is video older than the audio
before it, so old video is dropped; there is one audio frame more than the audio
queue holds, so either queue is full at some time, and three, so that one can be
missing between two others; `PresentMax = 0` makes the present queue full with one
request. The failed-seek case above needs three seeks (two that fail and one that
works) and is not reached with the run's two; the theorems include it.
`PlatformTasks`: with two tasks, one can post the other, in the pool, foreground
or delayed, while the second runtime shuts down and the drain waits; two workers
hold a task each. In `platform_posting` one runtime can post for ever, to the pool
and to its isolate, while the other drains; one worker is enough, as it runs all
that is posted. `MessagePorts`: two posts are a batch, a post within a callback,
and a message to a port that travels; three changes let a port's listener be
removed, set again on the other thread and removed there. `port_moved` needs a
third post. `InspectorSession`: six arrivals are two sessions with a connect, a
message and a disconnect each; three answers are one written in each session and
one left over.

*Deadlock* is not checked: after the program disposes (or the process has died)
nothing need happen. In `MediaDispatcher` the host and the presentation thread
can really wait for each other; `CommandAnswered` says where. In
`InspectorSession` a pause with nothing to receive waits, as it should.

*Fairness.* Both uv loops run for ever and trampolines return, so the steps of
each loop are weakly fair. `PresentWake` is strongly fair because a poll reports
every ready handle, so display events cannot starve the notification. Once the
main thread is inside `Dispose` it leaves it. No fairness is assumed of the
program. In `FrameSchedule` the idle handle runs, and a mapped window's
compositor fires its frame callbacks and releases every buffer that it no longer
shows; the one on screen it may keep. Nothing is assumed of the release of buffers
of earlier sizes.

In `MediaDispatcher` each of the three threads is scheduled, and callbacks of
JavaScript return. The handling of a command is strongly fair: an iteration of
the loop serves a pending notification even when the timer expires in every
iteration, and expiries disable the handling again and again.
In `PlatformTasks` every thread is scheduled, tasks return, and the steps of
`~Platform` follow each other; what tasks post and when a loop runs empty is free.
That tasks return is strong fairness of `NotifyOfCompletion`: a task that posts
foreground tasks all the time disables it in between, and returns all the same.
`WaitDrain` sleeps on a count all runtimes share, so one that posts steadily
starves the drain of another: `DrainReturns` excepts tasks posted for ever, and
without the exception TLC finds that behaviour.
In `MessagePorts` one weak fairness per thread, of its calls and its loop
together, is enough, because the messages are bounded: a thread cannot serve other
ports for ever. In `InspectorSession` both threads are weakly fair, and frontends
and the program do what they like: `ArrivalsHandled` excepts the rest of a batch
that a pause interrupted, which `pause_disconnect` is about.

*What the violated runs show.* If the main thread's temporary owner of the queue
outlives the present thread's, the present thread never exits. Replies that are
in flight at `dispose()` are destroyed on the wrong thread without a callback. A
resize during a pending frame dereferences null. A frame presented on the
callback of an older request is dropped, an exception of `UpdateReachesScreen`. A port moved from within its own callback
gives the rest of its batch to the listener of the other thread. The disconnect of
the frontend that paused the program can wait beneath the pause it should end.

## 5. Proofs

All theorems hold for any values of the constants that satisfy the modules'
`ASSUME`s, and use no fairness. Each `...Proofs` module proves `Spec => []IndInv`
(`Inductive`, or `ProtocolSafe`, `MediaInductive`) from one lemma per conjunct, with
one step per action, and takes its theorems from it and from invariants that build
on it. TLC has checked the strengthenings too, on the runs' instances.

`PresentThreadProofs`: `TypeCorrect`, `QueueIsFIFO`, `NoWakeupLost`,
`NullMessageIsLast`, `SettledWasHandledHolds`, `HostOrderHolds`, for any sets of
calls and signals, finite or not, that satisfy `MessagesDistinct`. `ExitIsLast` is
not inductive. `IndInv` adds `HostPhases`, which ties the host's phase to the
owners and to the null message (while the host may send, no null message has been
sent and the present thread owns its queue; without that owner the null message
has been handled), and `BatchOnlyInDispatch`. `ExitIsLast` then follows: when the
owner is gone the null message has been handled, it is the last of `sent`, and
`sent` is what was handled followed by what waits, so nothing waits (`LastTaken`).
`SettledWasHandled` and `HostOrder` need `OrderInv`: no message is sent twice, the
replied call is the last handled one, and the replies that are settled, in the
main batch and in the main queue, in this order, are in the order of `emitted`,
which is that of `handled`.

`RemoteCallContractProofs` builds on these and proves `ContractRefined`,
`Spec => RefinesContract`, for any calls and signals. The contract's variables are
histories of `PresentThread`, so each step maps directly: enqueuing issues, the
handler's start of a call executes, the main thread's dispatch of a reply
completes and of a signal notifies, and every other step changes none of the
three. `ReplyInv` adds what the last two need: a call that was handled has been
replied to or is being executed (`AllReplied`), a signal is emitted once
(`SignalsOnce`), and, until the null message is sent, everything emitted has been
settled or waits for the main thread (`Undropped`). So a dispatched reply is new,
is not behind an earlier one that is still missing, and completions are skipped
only after `Dispose`.

`FrameScheduleProofs`: `TypeCorrect`, `FramesArePaired`, `DrawingApart`,
`CommitsAreAwaited`, `DeferredAreHeld` and the action property
`UpdatesReachScreen`, for any bounds. `DeferredHeld` rests on `DrawingNotHeld`: a
resize defers the buffers in the committed state, and these are the ones held.
`RequestPhases` is the strengthening for the last: unless the program requested a
frame itself, a pending frame's request is the last callback, so that when its
signal is delivered no commit is outstanding and the present is not refused.

`MediaDispatcherProofs` proves, for any file, any limits allowed by
`MediaConstants` and any number of seeks, without fairness, `MediaTypeCorrect`,
`MediaQueuesBounded`, `MediaNothingStale` and `MediaNoLostWakeup`:
`Spec => []TypeOK`, `[]QueueBounds`, `[]NoStaleFrame`, `[]BlockedWhileFull`. The
first three are not inductive. `IndInv` adds `FramesHeld` (a thread holds a frame
exactly where its counter says so; with the join this gives that a seek finds
nothing in the decoder's hands) and `RoomKept` (from its test to its push a
thread is the only one to fill its queue). `FreshVideoPart` and `TakenCountType`
say what dropping old frames and draining leave, by cardinalities of index sets.

The same module proves `MediaAudioGapless` (`[]AudioGapless`) and
`MediaVideoNotLate` (`[]VideoNotLate`). `AudioGapless` only compares two frames in
the pipe; inductive is that behind each audio frame of the epoch in it every audio
frame decoded since is in it too (`FlowWhole`) and that they rise towards the
decoder's position (`FlowOrder`). Pushing and taking leave this set as it is,
decoding adds the next frame, sending removes the least, and a seek empties it,
because the frame the sink was given last belongs to an earlier epoch. A frame is
taken only when none waits to be sent (`KindsApart`). `VideoNotLate` needs
`SentInv`: while the thread holds no frame, the last one sent in this epoch is not
younger than `lastPts`. The first video frame that is kept is not older than
`lastPts` (`FreshHead`), and the host's drain cuts the queue only behind an
error_or_eof (`TakenLast`); both rest on `InitialSegment`, that a set of indices
closed downwards is counted by its last member.
`PlatformTasksProofs`: `TypeCorrect`, `CountIsExact`, for any pool, runtimes and
tasks. `EndPhases` is the strengthening: the pool is destroyed after every
runtime but the main one is disposed, the scheduler has exited and the workers
have left, so that nobody changes the count of a destroyed queue. Here and in the
next module the actions of `PlatformStep` are proved first and `Reuse` apart
(`ReuseStep`, `ReuseOwnership`), which needs that the old task is in no place.

`TaskOwnershipProofs` proves `TaskOwnedOnce` (`OwnedOnce`) and the action property
`DrainIsComplete` (`DrainComplete`). `OwnedOnce` speaks of places, so that a step
is one of three kinds: it drops tasks, moves one, or adds a newly born one, with
a lemma for each (`DropKeeps`, `MoveKeeps`, `TakeKeeps`, `ArrivalKeeps`). `Born`
strengthens it: no place holds a task that nobody has posted. The drain needs to
know whose the tasks are: `OwnQueues`, `OwnBatches` and `OwnPushed` (a thread
other than the main one meets only its own isolate's tasks), `Delayed` (what the
scheduler and its timers hold stems from delayed tasks), and `DrainedQuiet`:
between `WaitDrain` and its last look at the foreground queue the pool holds no
task of the main isolate, except such ones. `WaitDrain` establishes it because the
exact count was zero, and nobody posts for the isolate of a thread that waits.

`MessagePortsProofs`: `TypeCorrect`, `MessagesInOrder`, `PortsCarriedOnce`,
`WorkerJoinedOnce`, for any ports connected in pairs. `InOrder` needs `Bounds` (a
detached port's queue is empty, and no number exceeds the last posted), so that a
message posted to a port that has moved is newer than all the new thread was
given. `CarriedOnce` is restated as `Once` (no two places of messages carry the
same port) and `Away` (a carried port is attached to no loop): a port can be
carried only by the thread it is attached to. `Joins` says that one of the
parent's hooks is left until the join.

`InspectorSessionProofs`: `TypeCorrect`, `NothingLostHolds`. `AnswersKept` needs
`Phases`: the io thread stops only for the main thread's join, so `kExit` is behind
every answer.

Only model-checked: the liveness properties, since fairness and ENABLED are out of
the prover's reach, and the violated runs, which are counterexamples.

## 6. Not modelled

* Skia, Vulkan, libwayland, FFmpeg, PipeWire, V8 and libuv, beyond how the code
  uses them. libuv is trusted for: a callback follows every `uv_async_send`,
  sends coalesce, a loop without active handles returns.
* Failures of memory, shared memory and thread creation.
* Geometry: damage is empty or not; sizes change or not.
* `Platform`: idle tasks, tracing and page allocation. The map of isolates is read
  and written by several threads without a lock, which has no defined outcome.
* Workers: more than one, the start of a worker, a script that fails. Of a message
  only the port it carries; the detaching of array buffers is `PostFails`' loss.
* Inspector: HTTP requests, a failed start, and `runIfWaitingForDebugger`'s
  evaluation of the module.
* Slots of signals while they are connected and disconnected from two threads, and
  the prepare/read protocol of the display; both are in the plan.
* The rest is sequential code around third-party libraries, generated code
  (the Wayland protocol headers, the bindings of cairo) or a file format: nearly
  all of the repository's lines. Its behaviour is that of the libraries, and a
  model of it would restate it. The components marked `not_modelled` in
  `PROJECT.json` give the reason for each.
