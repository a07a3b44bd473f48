-------------------------- MODULE FrameScheduleProofs --------------------------
(***************************************************************************)
(* TLAPS proofs about one raster window: its frames are begun and          *)
(* presented in pairs, never into a buffer the compositor may read, and    *)
(* reach the compositor, for any number of buffers and callbacks.          *)
(***************************************************************************)
EXTENDS FrameSchedule, FiniteSetTheorems, SequenceTheorems, TLAPS

USE DEF scheduler, pool, compositor, surface

Callbacks == Seq({"done", "request"})

(* A callback requested last.                                                *)
LEMMA CallbacksAppend ==
    ASSUME NEW c \in Callbacks, NEW m \in {"done", "request"}
    PROVE  /\ Append(c, m) \in Callbacks /\ Len(Append(c, m)) = Len(c) + 1
           /\ \A i \in DOMAIN c : i \in DOMAIN Append(c, m) /\ Append(c, m)[i] = c[i]
           /\ Len(c) + 1 \in DOMAIN Append(c, m) /\ Append(c, m)[Len(c) + 1] = m
           /\ \A i \in DOMAIN Append(c, m) : i \in DOMAIN c \/ i = Len(c) + 1
  BY DEF Callbacks

(* What is left when the first callback has fired.                           *)
LEMMA CallbacksTail ==
    ASSUME NEW c \in Callbacks, c # <<>>
    PROVE  /\ Tail(c) \in Callbacks /\ Len(Tail(c)) = Len(c) - 1 /\ Head(c) = c[1]
           /\ \A i \in DOMAIN Tail(c) : i + 1 \in DOMAIN c /\ Tail(c)[i] = c[i + 1]
           /\ \A i \in DOMAIN c : i = 1 \/ (i - 1 \in DOMAIN Tail(c) /\ Tail(c)[i - 1] = c[i])
  BY DEF Callbacks

(* A resize counts finitely many buffers on each side.                       *)
LEMMA HeldCounts ==
    ASSUME TypePool
    PROVE  /\ Cardinality({i \in DOMAIN buffers : buffers[i] = "committed"}) \in Nat
           /\ Cardinality(held) \in Nat
  <1>1. IsFiniteSet(1 .. Len(buffers))
    BY FS_Interval DEF TypePool
  <1>2. DOMAIN buffers = 1 .. Len(buffers)
    BY DEF TypePool
  <1>3. /\ IsFiniteSet({i \in DOMAIN buffers : buffers[i] = "committed"})
        /\ IsFiniteSet(held)
    BY <1>1, <1>2, FS_Subset DEF TypePool
  <1> QED BY <1>3, FS_CardinalityType

(* A commit hands the drawing buffer to the compositor and the next one is   *)
(* free or new.                                                              *)
LEMMA CommitKeeps ==
    ASSUME FrameConstants, TypePool, DrawingNotHeld, surfaceOpen, Commit,
           currentFrame' \in 0 .. MaxBuffers, surfaceOpen' = surfaceOpen
    PROVE  TypePool' /\ DrawingNotHeld'
  <1>1. /\ drawingIdx \in DOMAIN buffers /\ buffers \in Seq(BufferStates)
        /\ DOMAIN buffers = 1 .. Len(buffers) /\ Len(buffers) \in Nat
        /\ Len(buffers) <= MaxBuffers /\ MaxBuffers \in Nat
        /\ "drawing" \in BufferStates /\ "committed" \in BufferStates
        /\ "free" \in BufferStates
    BY DEF FrameConstants, TypePool, DrawingNotHeld, BufferStates
  <1>2. /\ committedIdx' = drawingIdx /\ held' = held \cup {drawingIdx}
        /\ onScreen' = drawingIdx /\ UNCHANGED <<deferred, heldOld>>
    BY DEF Commit
  <1>3. CASE CommitReusing
    <2>1. PICK i \in DOMAIN buffers :
             /\ buffers[i] = "free" /\ drawingIdx' = i
             /\ buffers' = [buffers EXCEPT ![drawingIdx] = "committed",
                                           ![i] = "drawing"]
      BY <1>3 DEF CommitReusing, FirstFree
    <2>2. i # drawingIdx
      BY <1>1, <2>1 DEF DrawingNotHeld
    <2>3. /\ buffers' \in Seq(BufferStates) /\ Len(buffers') = Len(buffers)
          /\ DOMAIN buffers' = DOMAIN buffers
          /\ buffers'[i] = "drawing" /\ buffers'[drawingIdx] = "committed"
          /\ \A j \in DOMAIN buffers : j # i /\ j # drawingIdx => buffers'[j] = buffers[j]
      BY <1>1, <2>1, <2>2
    <2>4. TypePool'
      BY <1>1, <1>2, <2>1, <2>3 DEF TypePool
    <2>5. DrawingNotHeld'
      BY <1>1, <1>2, <2>1, <2>2, <2>3 DEF DrawingNotHeld
    <2> QED BY <2>4, <2>5
  <1>4. CASE CommitGrowing
    <2> DEFINE marked == [buffers EXCEPT ![drawingIdx] = "committed"]
    <2>1. /\ Len(buffers) + 2 <= MaxBuffers /\ drawingIdx' = Len(buffers) + 1
          /\ buffers' = marked \o <<"drawing", "free">>
      BY <1>4 DEF CommitGrowing
    <2>2. /\ marked \in Seq(BufferStates) /\ Len(marked) = Len(buffers)
          /\ marked[drawingIdx] = "committed"
          /\ \A j \in DOMAIN buffers : j # drawingIdx => marked[j] = buffers[j]
      BY <1>1
    <2>3. <<"drawing", "free">> \in Seq(BufferStates)
      BY <1>1
    <2> HIDE DEF marked
    <2>4. /\ buffers' \in Seq(BufferStates) /\ Len(buffers') = Len(buffers) + 2
          /\ DOMAIN buffers' = 1 .. (Len(buffers) + 2)
          /\ \A j \in 1 .. Len(buffers) : buffers'[j] = marked[j]
          /\ buffers'[Len(buffers) + 1] = "drawing"
          /\ buffers'[Len(buffers) + 2] = "free"
      BY <1>1, <2>1, <2>2, <2>3
    <2>5. TypePool'
      BY <1>1, <1>2, <2>1, <2>4 DEF TypePool
    <2>6. DrawingNotHeld'
      <3>1. drawingIdx' \in DOMAIN buffers'
        BY <1>1, <2>1, <2>4
      <3>2. ASSUME NEW j \in DOMAIN buffers'
            PROVE  /\ buffers'[j] = "drawing" <=> j = drawingIdx'
                   /\ buffers'[j] = "committed" <=> j \in held'
        <4>1. CASE j = drawingIdx
          BY <1>1, <1>2, <2>1, <2>2, <2>4, <4>1
        <4>2. CASE j \in 1 .. Len(buffers) /\ j # drawingIdx
          <5>1. buffers'[j] = buffers[j] /\ j # drawingIdx'
            BY <1>1, <2>1, <2>2, <2>4, <4>2
          <5> QED BY <1>1, <1>2, <4>2, <5>1 DEF DrawingNotHeld
        <4>3. CASE j = Len(buffers) + 1 \/ j = Len(buffers) + 2
          <5>1. j \notin held'
            BY <1>1, <1>2, <4>3 DEF TypePool
          <5> QED BY <1>1, <2>1, <2>4, <4>3, <5>1
        <4> QED BY <1>1, <2>4, <4>1, <4>2, <4>3
      <3> QED BY <3>1, <3>2 DEF DrawingNotHeld
    <2> QED BY <2>5, <2>6
  <1> QED BY <1>3, <1>4 DEF Commit

(* Presenting a frame, whether or not it is committed, keeps the pool.       *)
LEMMA PresentKeeps ==
    ASSUME FrameConstants, TypePool, DrawingNotHeld, surfaceOpen, Present,
           surfaceOpen' = surfaceOpen
    PROVE  TypePool' /\ DrawingNotHeld'
  <1>1. currentFrame' = 0 /\ 0 \in 0 .. MaxBuffers
    BY DEF Present, FrameConstants
  <1>2. CASE Commit
    BY <1>1, <1>2, CommitKeeps
  <1>3. CASE UNCHANGED <<pool, compositor>>
    BY <1>1, <1>3 DEF TypePool, DrawingNotHeld
  <1> QED BY <1>2, <1>3 DEF Present

(* The initial pool, which a resize restores.                                *)
LEMMA Cleared ==
    /\ ClearedBuffers \in Seq(BufferStates) /\ Len(ClearedBuffers) = 3
    /\ DOMAIN ClearedBuffers = 1 .. 3
    /\ ClearedBuffers[1] = "committed" /\ ClearedBuffers[2] = "drawing"
    /\ ClearedBuffers[3] = "free"
  BY DEF ClearedBuffers, BufferStates

(* The pool a resize has cleared is a pool of fresh buffers.                 *)
LEMMA ClearedKeeps ==
    ASSUME FrameConstants, buffers' = ClearedBuffers, drawingIdx' = 2,
           committedIdx' = 1, held' = {1}, onScreen' = 1,
           currentFrame' \in 0 .. MaxBuffers, deferred' \in Nat, heldOld' \in Nat
    PROVE  TypePool' /\ DrawingNotHeld'
  <1>1. TypePool'
    BY Cleared DEF TypePool, FrameConstants
  <1>2. ASSUME NEW j \in 1 .. 3
        PROVE  /\ ClearedBuffers[j] = "drawing" <=> j = 2
               /\ ClearedBuffers[j] = "committed" <=> j \in {1}
    <2>1. j = 1 \/ j = 2 \/ j = 3
      OBVIOUS
    <2> QED BY <2>1, Cleared
  <1>3. DrawingNotHeld'
    BY <1>2, Cleared DEF DrawingNotHeld
  <1> QED BY <1>1, <1>3

(* The pool of buffers keeps its types, and drawing and reading apart.       *)
LEMMA PoolStep ==
    ASSUME FrameConstants, TypePool, DrawingNotHeld, RequestPhases, DeferredHeld,
           [Next]_vars
    PROVE  TypePool' /\ DrawingNotHeld'
  <1>1. ASSUME NEW damage \in {"empty", "damage"}, Update(damage)
        PROVE  TypePool' /\ DrawingNotHeld'
    <2>1. /\ UNCHANGED <<pool, held, heldOld, onScreen, surfaceOpen>>
          /\ currentFrame' = drawingIdx
      BY <1>1 DEF Update
    <2>2. drawingIdx \in 0 .. MaxBuffers
      BY DEF TypePool, FrameConstants
    <2> QED BY <2>1, <2>2 DEF TypePool, DrawingNotHeld
  <1>2. CASE RequestNextFrame
    BY <1>2 DEF RequestNextFrame, TypePool, DrawingNotHeld
  <1>3. CASE Resize
    <2>1. deferred' \in Nat /\ heldOld' \in Nat
      <3>1. deferred \in Nat /\ heldOld \in Nat
        BY DEF TypePool
      <3>2. /\ deferred' = deferred
                  + Cardinality({i \in DOMAIN buffers : buffers[i] = "committed"})
            /\ heldOld' = heldOld + Cardinality(held)
        BY <1>3 DEF Resize, ReleaseAllBuffers
      <3>3. \A a, b \in Nat : a + b \in Nat
        OBVIOUS
      <3> QED BY <3>1, <3>2, <3>3, HeldCounts, Zenon
    <2>2. /\ buffers' = ClearedBuffers /\ drawingIdx' = 2 /\ committedIdx' = 1
          /\ held' = {1} /\ onScreen' = 1 /\ UNCHANGED currentFrame
      BY <1>3 DEF Resize
    <2>3. currentFrame \in 0 .. MaxBuffers
      BY DEF TypePool
    <2> QED BY <2>1, <2>2, <2>3, ClearedKeeps
  <1>4. CASE ResizeCrash
    BY <1>4 DEF ResizeCrash, TypePool, DrawingNotHeld
  <1>5. CASE Dispose
    <2>1. CASE schedule = "pending" /\ Present
      <3>1. surfaceOpen /\ surfaceOpen' = surfaceOpen
        BY <1>5, <2>1 DEF Dispose, RequestPhases
      <3> QED BY <2>1, <3>1, PresentKeeps
    <2>2. CASE UNCHANGED <<currentFrame, pool, compositor>>
      BY <1>5, <2>2 DEF Dispose, TypePool, DrawingNotHeld
    <2> QED BY <1>5, <2>1, <2>2 DEF Dispose
  <1>6. CASE Close
    <2>1. <<>> \in Seq(BufferStates) /\ Len(<<>>) = 0
      OBVIOUS
    <2>2. /\ buffers' = <<>> /\ currentFrame' = 0 /\ drawingIdx' = 0
          /\ committedIdx' = 0 /\ deferred' = 0 /\ UNCHANGED heldOld
          /\ held' = {} /\ onScreen' = 0 /\ surfaceOpen' = FALSE
      BY <1>6 DEF Close
    <2> QED BY <2>1, <2>2 DEF TypePool, DrawingNotHeld, FrameConstants
  <1>7. CASE CallAfterDispose
    BY <1>7 DEF CallAfterDispose, TypePool, DrawingNotHeld
  <1>8. CASE FrameDone
    BY <1>8 DEF FrameDone, TypePool, DrawingNotHeld
  <1>9. CASE FrameRequested
    BY <1>9 DEF FrameRequested, TypePool, DrawingNotHeld
  <1>10. ASSUME NEW i \in DOMAIN buffers, BufferRelease(i)
        PROVE  TypePool' /\ DrawingNotHeld'
    <2>1. /\ i \in held /\ held' = held \ {i} /\ surfaceOpen /\ UNCHANGED surfaceOpen
          /\ buffers' = [buffers EXCEPT ![i] = "free"]
          /\ UNCHANGED <<currentFrame, drawingIdx, committedIdx, deferred, heldOld, onScreen>>
      BY <1>10 DEF BufferRelease
    <2>2. /\ buffers' \in Seq(BufferStates) /\ Len(buffers') = Len(buffers)
          /\ DOMAIN buffers' = DOMAIN buffers /\ buffers'[i] = "free"
          /\ \A j \in DOMAIN buffers : j # i => buffers'[j] = buffers[j]
      BY <1>10, <2>1 DEF TypePool, BufferStates
    <2>3. TypePool'
      BY <2>1, <2>2 DEF TypePool
    <2>4. i # drawingIdx
      BY <1>10, <2>1 DEF DrawingNotHeld
    <2>5. DrawingNotHeld'
      BY <1>10, <2>1, <2>2, <2>4 DEF DrawingNotHeld
    <2> QED BY <2>3, <2>5
  <1>11. CASE DeferredRelease
    <2>1. deferred \in Nat /\ deferred > 0
      BY <1>11 DEF DeferredRelease, DeferredHeld, TypePool
    <2>2. deferred - 1 \in Nat
      BY <2>1
    <2>3. heldOld - 1 \in Nat
      BY <1>11 DEF DeferredRelease, TypePool
    <2> QED BY <1>11, <2>2, <2>3 DEF DeferredRelease, TypePool, DrawingNotHeld
  <1>12. CASE FreedRelease
    BY <1>12 DEF FreedRelease, TypePool, DrawingNotHeld
  <1>13. CASE FrameSlot
    <2>1. CASE schedule = "pending" /\ Present
      <3>1. surfaceOpen /\ surfaceOpen' = surfaceOpen
        BY <1>13, <2>1 DEF FrameSlot, RequestPhases
      <3> QED BY <2>1, <3>1, PresentKeeps
    <2>2. CASE UNCHANGED <<currentFrame, pool, compositor>>
      BY <1>13, <2>2 DEF FrameSlot, TypePool, DrawingNotHeld
    <2> QED BY <1>13, <2>1, <2>2 DEF FrameSlot
  <1>14. CASE UNCHANGED vars
    BY <1>14 DEF vars, TypePool, DrawingNotHeld
  <1> QED
    BY <1>1, <1>2, <1>3, <1>4, <1>5, <1>6, <1>7, <1>8, <1>9, <1>10, <1>11,
       <1>12, <1>13, <1>14
       DEF Next, Alive

(* A frame is begun for each that is pending, and only then.                 *)
LEMMA PairedStep ==
    ASSUME FrameConstants, TypeControl, TypePool, FramePaired,
           DrawingNotHeld, [Next]_vars
    PROVE  FramePaired'
  <1> USE DEF FramePaired, TypeControl, ScheduleStates, Alive, Present
  <1>1. ASSUME NEW damage \in {"empty", "damage"}, Update(damage)
        PROVE  FramePaired'
    <2>1. drawingIdx # 0
      BY <1>1 DEF Update, DrawingNotHeld, TypePool
    <2>2. /\ crashed' = "no" /\ currentFrame' = drawingIdx /\ UNCHANGED pool
          /\ submitInfo' = damage /\ schedule' = "pending"
      BY <1>1 DEF Update
    <2> QED BY <2>1, <2>2
  <1>2. CASE RequestNextFrame
    BY <1>2 DEF RequestNextFrame
  <1>3. CASE Resize
    BY <1>3 DEF Resize
  <1>4. CASE ResizeCrash
    BY <1>4 DEF ResizeCrash
  <1>5. CASE Dispose
    BY <1>5 DEF Dispose
  <1>6. CASE Close
    BY <1>6 DEF Close
  <1>7. CASE CallAfterDispose
    BY <1>7 DEF CallAfterDispose
  <1>8. CASE FrameDone
    BY <1>8 DEF FrameDone
  <1>9. CASE FrameRequested
    BY <1>9 DEF FrameRequested
  <1>10. ASSUME NEW i \in DOMAIN buffers, BufferRelease(i) PROVE FramePaired'
    BY <1>10 DEF BufferRelease
  <1>11. CASE DeferredRelease
    BY <1>11 DEF DeferredRelease
  <1>12. CASE FreedRelease
    BY <1>12 DEF FreedRelease
  <1>13. CASE FrameSlot
    BY <1>13 DEF FrameSlot
  <1>14. CASE UNCHANGED vars
    BY <1>14 DEF vars
  <1> QED
    BY <1>1, <1>2, <1>3, <1>4, <1>5, <1>6, <1>7, <1>8, <1>9, <1>10, <1>11,
       <1>12, <1>13, <1>14
       DEF Next, Alive

(* Keeping the committed buffers is keeping those the compositor may read.   *)
LEMMA DeferredHeldStep ==
    ASSUME TypePool, DrawingNotHeld, DeferredHeld, [Next]_vars
    PROVE  DeferredHeld'
  <1> USE DEF DeferredHeld, Present, Commit
  <1>1. ASSUME NEW damage \in {"empty", "damage"}, Update(damage)
        PROVE  DeferredHeld'
    BY <1>1 DEF Update
  <1>2. CASE RequestNextFrame
    BY <1>2 DEF RequestNextFrame
  <1>3. CASE Resize
    <2>1. surfaceOpen
      BY <1>3 DEF Resize
    <2>2. held \subseteq DOMAIN buffers
      BY DEF TypePool
    <2>3. {i \in DOMAIN buffers : buffers[i] = "committed"} = held
      BY <2>1, <2>2, Zenon DEF DrawingNotHeld
    <2> QED BY <1>3, <2>1, <2>3 DEF Resize, ReleaseAllBuffers
  <1>4. CASE ResizeCrash
    BY <1>4 DEF ResizeCrash
  <1>5. CASE Dispose
    BY <1>5 DEF Dispose
  <1>6. CASE Close
    BY <1>6 DEF Close
  <1>7. CASE CallAfterDispose
    BY <1>7 DEF CallAfterDispose
  <1>8. CASE FrameDone
    BY <1>8 DEF FrameDone
  <1>9. CASE FrameRequested
    BY <1>9 DEF FrameRequested
  <1>10. ASSUME NEW i \in DOMAIN buffers, BufferRelease(i) PROVE DeferredHeld'
    BY <1>10 DEF BufferRelease
  <1>11. CASE DeferredRelease
    BY <1>11 DEF DeferredRelease
  <1>12. CASE FreedRelease
    BY <1>12 DEF FreedRelease
  <1>13. CASE FrameSlot
    BY <1>13 DEF FrameSlot
  <1>14. CASE UNCHANGED vars
    BY <1>14 DEF vars
  <1> QED
    BY <1>1, <1>2, <1>3, <1>4, <1>5, <1>6, <1>7, <1>8, <1>9, <1>10, <1>11,
       <1>12, <1>13, <1>14
       DEF Next, Alive

(* States and callbacks keep their types.                                    *)
LEMMA ControlStep ==
    ASSUME FrameConstants, TypeControl, callbacks \in Callbacks, [Next]_vars
    PROVE  TypeControl' /\ callbacks' \in Callbacks
  <1> USE DEF TypeControl, ScheduleStates, Present, Commit
  <1>1. ASSUME NEW damage \in {"empty", "damage"}, Update(damage)
        PROVE  TypeControl' /\ callbacks' \in Callbacks
    BY <1>1, CallbacksAppend DEF Update
  <1>2. CASE RequestNextFrame
    BY <1>2, CallbacksAppend DEF RequestNextFrame
  <1>3. CASE Resize
    BY <1>3, CallbacksAppend DEF Resize
  <1>4. CASE ResizeCrash
    BY <1>4 DEF ResizeCrash
  <1>5. CASE Dispose
    BY <1>5, CallbacksAppend DEF Dispose
  <1>6. CASE Close
    <2>1. <<>> \in Callbacks
      BY DEF Callbacks
    <2> QED BY <1>6, <2>1 DEF Close
  <1>7. CASE CallAfterDispose
    BY <1>7 DEF CallAfterDispose
  <1>8. CASE FrameDone
    BY <1>8, CallbacksTail DEF FrameDone
  <1>9. CASE FrameRequested
    BY <1>9, CallbacksTail DEF FrameRequested
  <1>10. ASSUME NEW i \in DOMAIN buffers, BufferRelease(i)
        PROVE  TypeControl' /\ callbacks' \in Callbacks
    BY <1>10 DEF BufferRelease
  <1>11. CASE DeferredRelease
    BY <1>11 DEF DeferredRelease
  <1>12. CASE FreedRelease
    BY <1>12 DEF FreedRelease
  <1>13. CASE FrameSlot
    BY <1>13, CallbacksAppend DEF FrameSlot
  <1>14. CASE UNCHANGED vars
    BY <1>14 DEF vars
  <1> QED
    BY <1>1, <1>2, <1>3, <1>4, <1>5, <1>6, <1>7, <1>8, <1>9, <1>10, <1>11,
       <1>12, <1>13, <1>14
       DEF Next, Alive

(* A commit is outstanding no longer than its callback.                      *)
LEMMA AwaitedStep ==
    ASSUME callbacks \in Callbacks, CommitAwaited, [Next]_vars
    PROVE  CommitAwaited'
  <1>1. ASSUME NEW damage \in {"empty", "damage"}, Update(damage)
        PROVE  CommitAwaited'
    <2>1. callbacks' = Append(callbacks, "request") /\ UNCHANGED committedIdx
      BY <1>1 DEF Update
    <2> QED BY <2>1, CallbacksAppend DEF CommitAwaited
  <1>2. CASE RequestNextFrame
    <2>1. callbacks' = Append(callbacks, "request") /\ UNCHANGED committedIdx
      BY <1>2 DEF RequestNextFrame
    <2> QED BY <2>1, CallbacksAppend DEF CommitAwaited
  <1>3. CASE Resize
    <2>1. callbacks' = Append(callbacks, "done")
      BY <1>3 DEF Resize
    <2> QED BY <2>1, CallbacksAppend DEF CommitAwaited
  <1>4. CASE ResizeCrash
    BY <1>4 DEF ResizeCrash, CommitAwaited
  <1>5. CASE Dispose
    <2>1. Present \/ UNCHANGED <<pool, compositor>>
      BY <1>5 DEF Dispose
    <2>2. CASE callbacks' = Append(callbacks, "done")
      BY <2>2, CallbacksAppend DEF CommitAwaited
    <2>3. CASE UNCHANGED <<committedIdx, callbacks>>
      BY <2>3 DEF CommitAwaited
    <2> QED BY <2>1, <2>2, <2>3 DEF Present, Commit
  <1>6. CASE Close
    BY <1>6 DEF Close, CommitAwaited
  <1>7. CASE CallAfterDispose
    BY <1>7 DEF CallAfterDispose, CommitAwaited
  <1>8. CASE FrameDone
    BY <1>8 DEF FrameDone, CommitAwaited
  <1>9. CASE FrameRequested
    <2>1. /\ callbacks # <<>> /\ Head(callbacks) = "request"
          /\ callbacks' = Tail(callbacks) /\ UNCHANGED committedIdx
      BY <1>9 DEF FrameRequested
    <2>2. ASSUME NEW i \in DOMAIN callbacks, callbacks[i] = "done"
          PROVE  \E j \in DOMAIN callbacks' : callbacks'[j] = "done"
      BY <2>1, <2>2, CallbacksTail
    <2> QED BY <2>1, <2>2 DEF CommitAwaited
  <1>10. ASSUME NEW i \in DOMAIN buffers, BufferRelease(i)
        PROVE  CommitAwaited'
    BY <1>10 DEF BufferRelease, CommitAwaited
  <1>11. CASE DeferredRelease
    BY <1>11 DEF DeferredRelease, CommitAwaited
  <1>12. CASE FreedRelease
    BY <1>12 DEF FreedRelease, CommitAwaited
  <1>13. CASE FrameSlot
    <2>1. Present \/ UNCHANGED <<pool, compositor>>
      BY <1>13 DEF FrameSlot
    <2>2. CASE callbacks' = Append(callbacks, "done")
      BY <2>2, CallbacksAppend DEF CommitAwaited
    <2>3. CASE UNCHANGED <<committedIdx, callbacks>>
      BY <2>3 DEF CommitAwaited
    <2> QED BY <2>1, <2>2, <2>3 DEF Present, Commit
  <1>14. CASE UNCHANGED vars
    BY <1>14 DEF vars, CommitAwaited
  <1> QED
    BY <1>1, <1>2, <1>3, <1>4, <1>5, <1>6, <1>7, <1>8, <1>9, <1>10, <1>11,
       <1>12, <1>13, <1>14
       DEF Next, Alive

(* While the program leaves requests to Update, a frame signal comes after   *)
(* every callback that precedes it.                                          *)
LEMMA RequestStep ==
    ASSUME TypeControl, callbacks \in Callbacks, FramePaired, RequestPhases,
           [Next]_vars
    PROVE  RequestPhases'
  <1> USE DEF RequestPhases, TypeControl, ScheduleStates
  <1>1. ASSUME NEW damage \in {"empty", "damage"}, Update(damage)
        PROVE  RequestPhases'
    <2>1. /\ callbacks' = Append(callbacks, "request") /\ schedule' = "pending"
          /\ schedule \in {"idle", "presented"}
          /\ UNCHANGED <<surfaceOpen, frameSignal, requested>> /\ surfaceOpen
      BY <1>1 DEF Update
    <2>2. CASE ~requested
      <3>1. ~frameSignal /\ \A i \in DOMAIN callbacks : callbacks[i] = "done"
        BY <2>1, <2>2
      <3>2. ASSUME NEW i \in DOMAIN callbacks'
            PROVE  callbacks'[i] = "done" <=> i < Len(callbacks')
        <4>1. CASE i \in DOMAIN callbacks
          <5>1. i < Len(callbacks')
            BY <2>1, <4>1, CallbacksAppend DEF Callbacks
          <5> QED BY <2>1, <3>1, <4>1, <5>1, CallbacksAppend
        <4>2. CASE i = Len(callbacks) + 1
          <5>1. ~(i < Len(callbacks'))
            BY <2>1, <4>2, CallbacksAppend DEF Callbacks
          <5> QED BY <2>1, <4>2, <5>1, CallbacksAppend
        <4> QED BY <2>1, <4>1, <4>2, CallbacksAppend
      <3> QED BY <2>1, <2>2, <3>1, <3>2
    <2>3. CASE requested
      BY <2>1, <2>3
    <2> QED BY <2>2, <2>3
  <1>2. CASE RequestNextFrame
    BY <1>2 DEF RequestNextFrame
  <1>3. CASE Resize
    <2>1. /\ callbacks' = Append(callbacks, "done") /\ surfaceOpen /\ currentFrame = 0
          /\ UNCHANGED <<schedule, surfaceOpen, frameSignal, requested>>
      BY <1>3 DEF Resize
    <2>2. schedule # "pending"
      BY <2>1 DEF FramePaired
    <2>3. (\A i \in DOMAIN callbacks : callbacks[i] = "done")
            => \A i \in DOMAIN callbacks' : callbacks'[i] = "done"
      BY <2>1, CallbacksAppend
    <2> QED BY <2>1, <2>2, <2>3
  <1>4. CASE ResizeCrash
    BY <1>4 DEF ResizeCrash
  <1>5. CASE Dispose
    BY <1>5 DEF Dispose
  <1>6. CASE Close
    BY <1>6 DEF Close
  <1>7. CASE CallAfterDispose
    BY <1>7 DEF CallAfterDispose
  <1>8. CASE FrameDone
    <2>1. /\ callbacks # <<>> /\ Head(callbacks) = "done" /\ callbacks' = Tail(callbacks)
          /\ UNCHANGED <<schedule, surfaceOpen, frameSignal, requested>>
      BY <1>8 DEF FrameDone
    <2>2. /\ \A i \in DOMAIN callbacks' : i + 1 \in DOMAIN callbacks /\ callbacks'[i] = callbacks[i + 1]
          /\ Len(callbacks') = Len(callbacks) - 1 /\ Len(callbacks) \in Nat
      BY <2>1, CallbacksTail DEF Callbacks
    <2>3. (\A i \in DOMAIN callbacks : callbacks[i] = "done" <=> i < Len(callbacks))
            => \A i \in DOMAIN callbacks' : callbacks'[i] = "done" <=> i < Len(callbacks')
      <3>1. \A i \in DOMAIN callbacks' : i \in Nat
        BY <2>1, CallbacksTail DEF Callbacks
      <3>2. \A i \in DOMAIN callbacks' : i < Len(callbacks') <=> i + 1 < Len(callbacks)
        BY <2>2, <3>1
      <3> QED BY <2>2, <3>2, Zenon
    <2>4. (\A i \in DOMAIN callbacks : callbacks[i] = "done")
            => \A i \in DOMAIN callbacks' : callbacks'[i] = "done"
      BY <2>2, Zenon
    <2> QED BY <2>1, <2>3, <2>4
  <1>9. CASE FrameRequested
    <2>1. /\ callbacks # <<>> /\ callbacks[1] = "request" /\ callbacks' = Tail(callbacks)
          /\ frameSignal' = (frameSignal \/ schedule # "disposed")
          /\ UNCHANGED <<schedule, surfaceOpen, requested>>
      BY <1>9, CallbacksTail DEF FrameRequested
    <2>2. 1 \in DOMAIN callbacks
      BY <2>1 DEF Callbacks
    <2>3. CASE requested
      BY <2>1, <2>3
    <2>4. CASE ~requested
      <3>1. schedule \notin {"idle", "presented"}
        BY <2>1, <2>2, <2>4
      <3>2. schedule = "pending" => callbacks' = <<>>
        <4> SUFFICES ASSUME schedule = "pending" PROVE callbacks' = <<>>
          OBVIOUS
        <4>1. \A i \in DOMAIN callbacks : callbacks[i] = "done" <=> i < Len(callbacks)
          BY <2>1, <2>4
        <4>2. ~(1 < Len(callbacks))
          BY <2>1, <2>2, <4>1
        <4>3. Len(callbacks) = 1
          <5>1. DOMAIN callbacks = 1 .. Len(callbacks) /\ Len(callbacks) \in Nat
            BY DEF Callbacks
          <5>2. \A n \in Nat : 1 \in 1 .. n /\ ~(1 < n) => n = 1
            OBVIOUS
          <5> QED BY <2>2, <4>2, <5>1, <5>2, Zenon
        <4>4. Tail(callbacks) \in Callbacks /\ Len(Tail(callbacks)) = 0
          <5>1. Len(Tail(callbacks)) = Len(callbacks) - 1 /\ Tail(callbacks) \in Callbacks
            BY <2>1, CallbacksTail
          <5> QED BY <5>1, <4>3
        <4> QED BY <2>1, <4>4, EmptySeq DEF Callbacks
      <3> QED BY <2>1, <2>4, <3>1, <3>2
    <2> QED BY <2>3, <2>4
  <1>10. ASSUME NEW i \in DOMAIN buffers, BufferRelease(i)
        PROVE  RequestPhases'
    BY <1>10 DEF BufferRelease
  <1>11. CASE DeferredRelease
    BY <1>11 DEF DeferredRelease
  <1>12. CASE FreedRelease
    BY <1>12 DEF FreedRelease
  <1>13. CASE FrameSlot
    <2>1. /\ frameSignal /\ frameSignal' = FALSE /\ UNCHANGED <<surfaceOpen, requested>>
          /\ \/ schedule = "pending" /\ schedule' = "presented" /\ Present
             \/ schedule # "pending" /\ UNCHANGED <<schedule, callbacks>>
      BY <1>13 DEF FrameSlot
    <2>2. CASE schedule = "pending" /\ schedule' = "presented" /\ Present
      <3>1. \/ callbacks' = Append(callbacks, "done")
            \/ callbacks' = callbacks
        BY <2>2 DEF Present, Commit
      <3>2. callbacks = <<>> => \A i \in DOMAIN callbacks' : callbacks'[i] = "done"
        BY <3>1, CallbacksAppend
      <3> QED BY <2>1, <2>2, <3>2
    <2>3. CASE schedule # "pending" /\ UNCHANGED <<schedule, callbacks>>
      BY <2>1, <2>3
    <2> QED BY <2>1, <2>2, <2>3
  <1>14. CASE UNCHANGED vars
    BY <1>14 DEF vars
  <1> QED
    BY <1>1, <1>2, <1>3, <1>4, <1>5, <1>6, <1>7, <1>8, <1>9, <1>10, <1>11,
       <1>12, <1>13, <1>14
       DEF Next, Alive

-------------------------------------------------------------------------------
LEMMA Inductive == Spec => []IndInv
  <1> USE FrameConstants
  <1>1. Init => IndInv
    <2> SUFFICES ASSUME Init PROVE IndInv
      OBVIOUS
    <2>1. TypeControl
      BY DEF Init, TypeControl, ScheduleStates
    <2>2. callbacks \in Callbacks /\ callbacks = <<"done">>
      BY DEF Init, Callbacks
    <2>3. TypePool /\ DrawingNotHeld
      <3>1. TypePool
        BY Cleared DEF Init, TypePool
      <3>2. ASSUME NEW j \in 1 .. 3
            PROVE  /\ ClearedBuffers[j] = "drawing" <=> j = 2
                   /\ ClearedBuffers[j] = "committed" <=> j \in {1}
        <4>1. j = 1 \/ j = 2 \/ j = 3
          OBVIOUS
        <4> QED BY <4>1, Cleared
      <3>3. DrawingNotHeld
        BY <3>2, Cleared DEF Init, DrawingNotHeld
      <3> QED BY <3>1, <3>3
    <2>4. FramePaired /\ DeferredHeld
      BY DEF Init, FramePaired, DeferredHeld
    <2>5. CommitAwaited /\ RequestPhases
      BY <2>2 DEF Init, CommitAwaited, RequestPhases
    <2> QED BY <2>1, <2>2, <2>3, <2>4, <2>5 DEF IndInv, TypeOK, Callbacks
  <1>2. IndInv /\ [Next]_vars => IndInv'
    <2> SUFFICES ASSUME IndInv, [Next]_vars PROVE IndInv'
      OBVIOUS
    <2>1. /\ TypeControl /\ TypePool /\ callbacks \in Callbacks
          /\ FramePaired /\ DrawingNotHeld /\ CommitAwaited /\ RequestPhases
          /\ DeferredHeld
      BY Zenon DEF IndInv, TypeOK, Callbacks
    <2>2. TypePool' /\ DrawingNotHeld'
      BY <2>1, PoolStep, Zenon
    <2>3. TypeControl' /\ callbacks' \in Callbacks
      BY <2>1, ControlStep, Zenon
    <2>4. FramePaired'
      BY <2>1, PairedStep, Zenon
    <2>5. CommitAwaited' /\ RequestPhases'
      BY <2>1, AwaitedStep, RequestStep, Zenon
    <2>6. DeferredHeld'
      BY <2>1, DeferredHeldStep, Zenon
    <2> QED BY <2>2, <2>3, <2>4, <2>5, <2>6, Zenon DEF IndInv, TypeOK, Callbacks
  <1> QED BY <1>1, <1>2, PTL DEF Spec

(* The states of the scheduler, the pool and the compositor have their types. *)
THEOREM TypeCorrect == Spec => []TypeOK
  BY Inductive, PTL DEF IndInv

(* BeginFrame never returns a null surface to Update, because Submit and     *)
(* Present follow it before the scheduler leaves kPendingFrame.              *)
THEOREM FramesArePaired == Spec => []FramePaired
  BY Inductive, PTL DEF IndInv

(* No call, event or resize makes the window draw into a buffer the          *)
(* compositor may read.                                                      *)
THEOREM DrawingApart == Spec => []DrawingNotHeld
  BY Inductive, PTL DEF IndInv

(* However many resizes follow each other, the window keeps exactly the      *)
(* buffers of earlier sizes that the compositor may still read.              *)
THEOREM DeferredAreHeld == Spec => []DeferredHeld
  BY Inductive, PTL DEF IndInv

(* The callback that ends an outstanding commit is always ahead.             *)
THEOREM CommitsAreAwaited == Spec => []CommitAwaited
  BY Inductive, PTL DEF IndInv

(* A damaged frame the scheduler presents reaches the compositor, as long as *)
(* the program leaves RequestNextFrame to Update.                            *)
THEOREM UpdatesReachScreen == Spec => UpdateReachesScreen
  <1>1. IndInv /\ [Next]_vars =>
          [schedule = "pending" /\ schedule' = "presented" /\ submitInfo = "damage"
             /\ ~requested => onScreen' = currentFrame]_vars
    <2> SUFFICES ASSUME IndInv, Next, schedule = "pending", schedule' = "presented",
                        submitInfo = "damage", ~requested
                 PROVE  onScreen' = currentFrame
      BY DEF vars
    <2>1. FrameSlot
      BY DEF Next, Update, RequestNextFrame, Resize, ResizeCrash, Dispose, Close,
             CallAfterDispose, FrameDone, FrameRequested, BufferRelease,
             DeferredRelease, FreedRelease
    <2>2. Present /\ callbacks = <<>>
      BY <2>1 DEF FrameSlot, IndInv, RequestPhases
    <2>3. committedIdx = 0
      BY <2>2 DEF IndInv, CommitAwaited
    <2>4. onScreen' = drawingIdx
      BY <2>2, <2>3 DEF Present, Presentable, Commit
    <2> QED BY <2>4 DEF IndInv, FramePaired
  <1> QED BY <1>1, Inductive, PTL DEF Spec, UpdateReachesScreen

================================================================================
