----------------------------- MODULE FrameSchedule -----------------------------
(***************************************************************************)
(* One raster window on the present thread: ContentAggregator's frame      *)
(* scheduler over RenderTarget, WaylandSHMRenderTarget's buffers, and the  *)
(* Wayland compositor that reads them.                                     *)
(*                                                                         *)
(* Everything runs on one thread, so the interleaving is that of remote    *)
(* calls (Update, Resize, RequestNextFrame, Dispose, Close), compositor    *)
(* events (frame callbacks in the order they were committed, buffer        *)
(* releases in any order) and the idle handle that runs local slots one    *)
(* loop iteration after Surface::OnFrameNotification emits.                *)
(*                                                                         *)
(* A buffer is its index in buffers_, from 1; 0 is RT_EMPTY_INDEX and the  *)
(* null SkSurface.  Buffers a resize left to the compositor are counted,   *)
(* once on each side.                                                      *)
(***************************************************************************)
EXTENDS Naturals, Sequences, FiniteSets

CONSTANTS MaxBuffers,  \* bound on the length of buffers_
          MaxDeferred, \* a resize comes with fewer deferred buffers
          MaxResized,  \* and with fewer callbacks outstanding
          MaxRequested \* the program's request comes with fewer callbacks

ASSUME FrameConstants ==
    /\ MaxBuffers \in Nat /\ MaxBuffers >= 3
    /\ MaxDeferred \in Nat
    /\ MaxResized \in Nat
    /\ MaxRequested \in Nat

VARIABLES
    schedule,      \* ContentAggregator::frame_schedule_state_
    surfaceOpen,   \* ~Surface::has_disposed_
    crashed,       \* how the process died: "no", "update", "resize", "disposed", "freed"
    currentFrame,  \* RenderTarget::current_frame_, as the index of its buffer
    submitInfo,    \* RenderTarget::last_submit_info_, by its damage
    buffers,       \* the states of WaylandSHMRenderTarget::buffers_
    drawingIdx, committedIdx,
    deferred,      \* size of deferred_destructing_buffers_
    held,          \* buffers_ the compositor may read
    heldOld,       \* how many buffers of earlier sizes it may read
    onScreen,      \* the buffer committed last
    callbacks,     \* frame callbacks the compositor has yet to fire, in order
    frameSignal,   \* a GLSI_SURFACE_FRAME waits in local_signal_queue_
    requested      \* history: the program called Surface::RequestNextFrame

scheduler == <<schedule, currentFrame, submitInfo>>
pool == <<buffers, drawingIdx, committedIdx, deferred>>
compositor == <<held, heldOld, onScreen, callbacks>>
surface == <<surfaceOpen, crashed>>
vars == <<scheduler, surface, pool, compositor, frameSignal, requested>>

ScheduleStates == {"idle", "pending", "presented", "disposed"}
BufferStates == {"free", "drawing", "committed"}

------------------------------------------------------------------------------
(* OnClearFrameBuffers over three new buffers: the first Begin/Submit/Present *)
(* commits buffer 1, moves drawing to 2 and asks for FrameDone; the other two *)
(* rounds find a committed buffer and return.                                 *)
ClearedBuffers == <<"committed", "drawing", "free">>

(* WaylandSurface::Make: the target exists and was cleared. *)
Init ==
    /\ schedule = "idle"
    /\ surfaceOpen = TRUE
    /\ crashed = "no"
    /\ currentFrame = 0 /\ submitInfo = "none"
    /\ buffers = ClearedBuffers
    /\ drawingIdx = 2 /\ committedIdx = 1
    /\ deferred = 0
    /\ held = {1} /\ heldOld = 0 /\ onScreen = 1
    /\ callbacks = <<"done">>
    /\ frameSignal = FALSE
    /\ requested = FALSE

------------------------------------------------------------------------------
(* RenderTarget::Present and WaylandSHMRenderTarget::OnPresentFrame.         *)

(* OnPresentFrame returns early while a commit is outstanding and when the   *)
(* damage is empty.                                                          *)
Presentable == committedIdx = 0 /\ submitInfo = "damage"

(* Mutant: any buffer but the one being drawn is taken. *)
FirstNotDrawing(i) ==
    /\ i \in DOMAIN buffers /\ buffers[i] # "drawing"
    /\ \A j \in 1 .. i - 1 : buffers[j] = "drawing"

FirstFree(i) ==
    /\ i \in DOMAIN buffers /\ buffers[i] = "free"
    /\ \A j \in 1 .. i - 1 : buffers[j] # "free"

(* GetNextDrawingBuffer reuses the first free buffer... *)
CommitReusing ==
    \E i \in DOMAIN buffers :
        /\ FirstFree(i)
        /\ drawingIdx' = i
        /\ buffers' = [buffers EXCEPT ![drawingIdx] = "committed", ![i] = "drawing"]

(* ... or appends two. *)
CommitGrowing ==
    /\ \A i \in DOMAIN buffers : buffers[i] # "free"
    /\ Len(buffers) + 2 <= MaxBuffers
    /\ drawingIdx' = Len(buffers) + 1
    /\ buffers' = [buffers EXCEPT ![drawingIdx] = "committed"] \o <<"drawing", "free">>

(* Mutant: wl_surface_frame comes after wl_surface_commit, and is never part *)
(* of one.                                                                   *)
CommitWithoutCallback ==
    /\ CommitReusing \/ CommitGrowing
    /\ committedIdx' = drawingIdx
    /\ held' = held \cup {drawingIdx}
    /\ onScreen' = drawingIdx
    /\ UNCHANGED <<deferred, heldOld, callbacks>>

Commit ==
    /\ CommitReusing \/ CommitGrowing
    /\ committedIdx' = drawingIdx
    /\ held' = held \cup {drawingIdx}
    /\ onScreen' = drawingIdx
    /\ callbacks' = Append(callbacks, "done")
    /\ UNCHANGED <<deferred, heldOld>>

Present ==
    /\ currentFrame' = 0
    /\ submitInfo' = "none"
    /\ \/ Presentable /\ Commit
       \/ ~Presentable /\ UNCHANGED <<pool, compositor>>

------------------------------------------------------------------------------
(* Remote calls.                                                             *)

Alive == crashed = "no"

(* ContentAggregator::Update after a successful preroll: BeginFrame, paint,  *)
(* RequestNextFrame, Submit.  In kPendingFrame the frame is dropped, and a   *)
(* failed preroll returns before BeginFrame: nothing here changes then.      *)
(* BeginFrame returns nullptr while another frame is begun, unchecked.       *)
Update(damage) ==
    /\ Alive /\ surfaceOpen
    /\ schedule \in {"idle", "presented"}
    /\ crashed' = IF currentFrame = 0 THEN "no" ELSE "update"
    /\ currentFrame' = drawingIdx
    /\ submitInfo' = IF submitInfo = "none" THEN damage ELSE submitInfo
    /\ callbacks' = Append(callbacks, "request")
    /\ schedule' = "pending"
    /\ UNCHANGED <<surfaceOpen, pool, held, heldOld, onScreen, frameSignal, requested>>

(* Surface::RequestNextFrame called by the program. *)
RequestNextFrame ==
    /\ Alive /\ surfaceOpen
    /\ Len(callbacks) < MaxRequested
    /\ callbacks' = Append(callbacks, "request")
    /\ requested' = TRUE
    /\ UNCHANGED <<scheduler, surface, pool, held, heldOld, onScreen, frameSignal>>

(* Mutant: only the buffer of the outstanding commit outlives the resize.    *)
DeferCommit ==
    /\ deferred' = deferred + (IF committedIdx = 0 THEN 0 ELSE 1)
    /\ heldOld' = heldOld + Cardinality(held)

(* ReleaseAllBuffers(false): the buffers in kCommitted are kept until their  *)
(* release, the others destroyed.  What the compositor could read it still   *)
(* can.                                                                      *)
ReleaseAllBuffers ==
    /\ deferred' = deferred + Cardinality({i \in DOMAIN buffers : buffers[i] = "committed"})
    /\ heldOld' = heldOld + Cardinality(held)

(* Mutant: a resize keeps drawing_buffer_idx_. *)
ResizeKeepsDrawing ==
    /\ Alive /\ surfaceOpen
    /\ currentFrame = 0
    /\ deferred < MaxDeferred /\ Len(callbacks) < MaxResized
    /\ ReleaseAllBuffers
    /\ buffers' = ClearedBuffers
    /\ committedIdx' = 1
    /\ held' = {1} /\ onScreen' = 1
    /\ callbacks' = Append(callbacks, "done")
    /\ UNCHANGED <<scheduler, surface, drawingIdx, frameSignal, requested>>

(* Surface::Resize to another valid size: ReleaseAllBuffers(false) empties   *)
(* buffers_, AllocateAppendBuffers makes three, and OnClearFrameBuffers      *)
(* presents.                                                                 *)
Resize ==
    /\ Alive /\ surfaceOpen
    /\ currentFrame = 0
    /\ deferred < MaxDeferred /\ Len(callbacks) < MaxResized
    /\ ReleaseAllBuffers
    /\ buffers' = ClearedBuffers
    /\ drawingIdx' = 2 /\ committedIdx' = 1
    /\ held' = {1} /\ onScreen' = 1
    /\ callbacks' = Append(callbacks, "done")
    /\ UNCHANGED <<scheduler, surface, frameSignal, requested>>

(* With a frame begun, BeginFrame in OnClearFrameBuffers returns nullptr,    *)
(* which is dereferenced.                                                    *)
ResizeCrash ==
    /\ Alive /\ surfaceOpen
    /\ currentFrame # 0
    /\ crashed' = "resize"
    /\ UNCHANGED <<scheduler, surfaceOpen, pool, compositor, frameSignal, requested>>

(* Mutant: a pending frame is forgotten, its slot is disconnected already. *)
DisposeForgetsFrame ==
    /\ Alive /\ surfaceOpen
    /\ schedule # "disposed"
    /\ schedule' = "disposed"
    /\ UNCHANGED <<currentFrame, submitInfo, pool, compositor, surface,
                   frameSignal, requested>>

(* ContentAggregator::Dispose disconnects its slots and presents a pending   *)
(* frame itself.                                                             *)
Dispose ==
    /\ Alive /\ surfaceOpen
    /\ schedule # "disposed"
    /\ schedule' = "disposed"
    /\ \/ schedule = "pending" /\ Present
       \/ schedule # "pending" /\ UNCHANGED <<currentFrame, submitInfo, pool, compositor>>
    /\ UNCHANGED <<surface, frameSignal, requested>>

(* Surface::Close.  A pending frame is presented, to buffers that go at once: *)
(* the render target's destructor destroys those in buffers_, while those in *)
(* deferred_destructing_buffers_ lose their Buffer but not the wl_buffer and *)
(* its listener.                                                             *)
Close ==
    /\ Alive /\ surfaceOpen
    /\ surfaceOpen' = FALSE
    /\ schedule' = "disposed"
    /\ currentFrame' = 0 /\ submitInfo' = "none"
    /\ buffers' = <<>>
    /\ drawingIdx' = 0 /\ committedIdx' = 0
    /\ deferred' = 0
    /\ held' = {} /\ onScreen' = 0
    /\ callbacks' = <<>>
    /\ UNCHANGED <<crashed, heldOld, frameSignal, requested>>

(* Update after Dispose uses the reset layer_generation_cache_; any call     *)
(* after Close uses the reset render_target_.                                *)
CallAfterDispose ==
    /\ Alive
    /\ schedule = "disposed"
    /\ crashed' = "disposed"
    /\ UNCHANGED <<scheduler, surfaceOpen, pool, compositor, frameSignal, requested>>

------------------------------------------------------------------------------
(* Compositor events, dispatched by WaylandDisplay::PollCallback.            *)

FrameDone ==
    /\ Alive /\ surfaceOpen
    /\ callbacks # <<>> /\ Head(callbacks) = "done"
    /\ callbacks' = Tail(callbacks)
    /\ committedIdx' = 0
    /\ UNCHANGED <<scheduler, surface, buffers, drawingIdx, deferred,
                   held, heldOld, onScreen, frameSignal, requested>>

(* Mutant: the notification is lost, the render target has no router. *)
FrameRequestedUnrouted ==
    /\ Alive /\ surfaceOpen
    /\ callbacks # <<>> /\ Head(callbacks) = "request"
    /\ callbacks' = Tail(callbacks)
    /\ UNCHANGED <<scheduler, surface, pool, held, heldOld, onScreen, frameSignal, requested>>

(* wayland_frame_done: the router emits GLSI_SURFACE_FRAME, which is queued  *)
(* for the idle handle while the aggregator's slots are connected.           *)
FrameRequested ==
    /\ Alive /\ surfaceOpen
    /\ callbacks # <<>> /\ Head(callbacks) = "request"
    /\ callbacks' = Tail(callbacks)
    /\ frameSignal' = (frameSignal \/ schedule # "disposed")
    /\ UNCHANGED <<scheduler, surface, pool, held, heldOld, onScreen, requested>>

(* BufferReleaseCallback of a buffer in buffers_... *)
BufferRelease(i) ==
    /\ Alive /\ surfaceOpen
    /\ i \in held
    /\ held' = held \ {i}
    /\ buffers' = [buffers EXCEPT ![i] = "free"]
    /\ UNCHANGED <<scheduler, surface, drawingIdx, committedIdx, deferred,
                   heldOld, onScreen, callbacks, frameSignal, requested>>

(* ... of one whose destruction was deferred, found in the list and erased... *)
DeferredRelease ==
    /\ Alive /\ surfaceOpen
    /\ heldOld > 0
    /\ heldOld' = heldOld - 1
    /\ deferred' = deferred - 1
    /\ UNCHANGED <<scheduler, surface, buffers, drawingIdx, committedIdx,
                   held, onScreen, callbacks, frameSignal, requested>>

(* ... and of one whose Buffer went with the render target: the callback     *)
(* reads and may write freed memory.                                         *)
FreedRelease ==
    /\ Alive /\ ~surfaceOpen
    /\ heldOld > 0
    /\ heldOld' = heldOld - 1
    /\ crashed' \in {"no", "freed"}
    /\ UNCHANGED <<scheduler, surfaceOpen, pool, held, onScreen, callbacks,
                   frameSignal, requested>>

(* Mutant: the pending frame does not wait for the frame signal. *)
FrameSlotEager ==
    /\ Alive
    /\ frameSignal' = FALSE
    /\ schedule = "pending" /\ schedule' = "presented" /\ Present
    /\ UNCHANGED <<surface, requested>>

(* The idle handle delivers the local signals: SurfaceFrameSlot. *)
FrameSlot ==
    /\ Alive
    /\ frameSignal
    /\ frameSignal' = FALSE
    /\ \/ schedule = "pending" /\ schedule' = "presented" /\ Present
       \/ schedule # "pending" /\ UNCHANGED <<scheduler, pool, compositor>>
    /\ UNCHANGED <<surface, requested>>

------------------------------------------------------------------------------
Next ==
    \/ \E damage \in {"empty", "damage"} : Update(damage)
    \/ RequestNextFrame
    \/ Resize \/ ResizeCrash
    \/ Dispose \/ Close \/ CallAfterDispose
    \/ FrameDone \/ FrameRequested
    \/ \E i \in DOMAIN buffers : BufferRelease(i)
    \/ DeferredRelease \/ FreedRelease
    \/ FrameSlot

(* The loop runs the idle handle; a mapped window's compositor fires frame   *)
(* callbacks and releases every buffer it no longer shows.                   *)
Fairness ==
    /\ WF_vars(FrameSlot)
    /\ WF_vars(FrameDone \/ FrameRequested)
    /\ WF_vars(\E i \in DOMAIN buffers : i # onScreen /\ BufferRelease(i))

Spec == Init /\ [][Next]_vars /\ Fairness

------------------------------------------------------------------------------
(* Properties.                                                               *)

TypeControl ==
    /\ schedule \in ScheduleStates
    /\ surfaceOpen \in BOOLEAN
    /\ crashed \in {"no", "update", "resize", "disposed", "freed"}
    /\ submitInfo \in {"none", "empty", "damage"}
    /\ frameSignal \in BOOLEAN
    /\ requested \in BOOLEAN

TypePool ==
    /\ buffers \in Seq(BufferStates) /\ Len(buffers) <= MaxBuffers
    /\ currentFrame \in 0 .. MaxBuffers
    /\ drawingIdx \in 0 .. Len(buffers)
    /\ committedIdx \in 0 .. Len(buffers)
    /\ deferred \in Nat /\ heldOld \in Nat
    /\ held \subseteq DOMAIN buffers
    /\ onScreen \in 0 .. Len(buffers)

(* The type invariant. *)
TypeOK ==
    /\ TypeControl
    /\ TypePool
    /\ callbacks \in Seq({"done", "request"})

(* Every BeginFrame has its Submit and Present: the aggregator is in         *)
(* kPendingFrame exactly while the render target has a begun and submitted   *)
(* frame, and that frame is the drawing buffer's.  So Update never gets a    *)
(* null surface and Present never ignores "an invalid surface".              *)
FramePaired ==
    /\ crashed # "update"
    /\ schedule = "pending" <=> currentFrame # 0
    /\ schedule = "pending" <=> submitInfo # "none"
    /\ schedule = "pending" => currentFrame = drawingIdx

(* The window is never drawn into a buffer the compositor may still read,    *)
(* through commits, early releases and resizes.                              *)
DrawingNotHeld ==
    surfaceOpen =>
        /\ drawingIdx \in DOMAIN buffers
        /\ \A i \in DOMAIN buffers :
               /\ buffers[i] = "drawing" <=> i = drawingIdx
               /\ buffers[i] = "committed" <=> i \in held

(* The buffers of earlier sizes that the window keeps are those the compositor *)
(* may still read, however many resizes follow each other with releases and  *)
(* frame callbacks between them: none is freed under the compositor, and     *)
(* none is kept after its release.                                           *)
DeferredHeld == surfaceOpen => deferred = heldOld

(* An outstanding commit always has its FrameDone callback ahead, otherwise  *)
(* OnPresentFrame would refuse every later frame.                            *)
CommitAwaited ==
    committedIdx # 0 => \E i \in DOMAIN callbacks : callbacks[i] = "done"

(* A closed surface has no scheduler left; one that is open presents what is *)
(* pending when its frame signal comes, after every callback that precedes   *)
(* the request, unless the program requested a frame itself.                 *)
RequestPhases ==
    /\ ~surfaceOpen => schedule = "disposed"
    /\ ~requested =>
        /\ schedule \in {"idle", "presented"} =>
               ~frameSignal /\ \A i \in DOMAIN callbacks : callbacks[i] = "done"
        /\ schedule = "pending" /\ frameSignal => callbacks = <<>>
        /\ schedule = "pending" /\ ~frameSignal =>
               \A i \in DOMAIN callbacks : callbacks[i] = "done" <=> i < Len(callbacks)

(* The inductive invariant of the proofs *)
IndInv ==
    /\ TypeOK /\ FramePaired /\ DrawingNotHeld /\ CommitAwaited /\ RequestPhases
    /\ DeferredHeld

(* A damaged frame the scheduler presents reaches the compositor, as long as *)
(* the program leaves RequestNextFrame to Update.                            *)
UpdateReachesScreen ==
    [][schedule = "pending" /\ schedule' = "presented" /\ submitInfo = "damage" /\ ~requested
            => onScreen' = currentFrame]_vars

(* Liveness: a pending frame is presented, unless the process died.          *)
PendingPresented == schedule = "pending" ~> schedule # "pending" \/ ~Alive

(* glamor.d.ts:374: "A `resize` signal will be emitted when the resizing is  *)
(* finished": resizing a window finishes.                                    *)
ResizeFinishes == crashed # "resize"

==============================================================================
