--------------------------- MODULE MediaDispatcher ---------------------------
(***************************************************************************)
(* Playback of one media file: Gallium/bindings/utau/                      *)
(* MediaFramePresentDispatcher.cc.  A decoding thread fills two bounded    *)
(* queues; the presentation thread takes the earlier head at each timer    *)
(* expiry and sends it to the host (JavaScript) thread; the host stops the *)
(* world with commands it waits for.                                       *)
(*                                                                         *)
(* A frame is its position in the file and the number of seeks handled     *)
(* before it was decoded; position 0 stands for DecodeResult::kNull and    *)
(* for an error_or_eof request.  When a timer expires is left open, so of  *)
(* all durations only the outcome of the delay compensation remains.       *)
(***************************************************************************)
EXTENDS Naturals, Sequences, FiniteSets

CONSTANTS Media,      \* the frames of the file, in the order they are decoded
          AudioMax,   \* AUDIO_QUEUE_MAX_FRAMES
          VideoMax,   \* VIDEO_QUEUE_MAX_FRAMES
          PresentMax, \* PRESENT_QUEUE_MAX_FRAMES
          MaxSeeks    \* bound on the seeks of the program

ASSUME MediaConstants ==
    /\ Media \in Seq([kind : {"audio", "video"}, pts : Nat])
    /\ AudioMax \in Nat \ {0} /\ VideoMax \in Nat \ {0}
    /\ PresentMax \in Nat /\ MaxSeeks \in Nat

VARIABLES
    paused, disposed,  \* the members of that name
    hostWait,          \* the host runs, waits for a command or joins threads
    cmd, answered,     \* PresentThreadContext::cmd and its promise
    disposing,         \* the command was sent by dispose()
    cmdNotified,       \* thread_notifier is pending
    hostNotified,      \* host_notifier_ is pending
    hostBatch,         \* PresentRequestHandler's reqs still to be delivered
    presenterPC, timerArmed, handlesClosed,
    lastFrame, lastPts, compensate,
    presentQueue, presentFull,
    decoderPC, decoded, position, stopFlag,
    audioQueue, videoQueue,
    epoch,             \* history: seeks handled
    lastSunk,          \* history: frame the audio sink was given last
    discarded          \* history: PresentMax requests and more dropped behind an end

hostVars == <<paused, disposed, hostWait, disposing>>
commandVars == <<cmd, answered, cmdNotified>>
deliveryVars == <<hostNotified, hostBatch>>
presentVars == <<presentQueue, presentFull>>
timerVars == <<timerArmed, handlesClosed>>
frameVars == <<lastFrame, lastPts, compensate>>
decoderVars == <<decoderPC, decoded, position>>
queueVars == <<stopFlag, audioQueue, videoQueue>>
historyVars == <<epoch, lastSunk, discarded>>
vars == <<hostVars, commandVars, deliveryVars, presentVars, presenterPC,
          timerVars, frameVars, decoderVars, queueVars, historyVars>>

Frames == [at : 1 .. Len(Media), epoch : Nat]
NoFrame == [at |-> 0, epoch |-> 0]
EndRequest == NoFrame

Kind(f) == Media[f.at].kind
Pts(f) == Media[f.at].pts

Verbs == {"play", "pause", "seek", "terminate"}

(* The constructor starts both threads. *)
Init ==
    /\ paused = TRUE /\ disposed = FALSE
    /\ hostWait = "no" /\ disposing = FALSE
    /\ cmd = "none" /\ answered = FALSE /\ cmdNotified = FALSE
    /\ hostNotified = FALSE /\ hostBatch = <<>>
    /\ presenterPC = "loop"
    /\ timerArmed = FALSE /\ handlesClosed = FALSE
    /\ lastFrame = NoFrame /\ lastPts = 0 /\ compensate = FALSE
    /\ presentQueue = <<>> /\ presentFull = FALSE
    /\ decoderPC = "check" /\ decoded = NoFrame /\ position = 1
    /\ stopFlag = FALSE /\ audioQueue = <<>> /\ videoQueue = <<>>
    /\ epoch = 0 /\ lastSunk = NoFrame /\ discarded = FALSE

(* queue_cond.notify_one(): only the decoding thread waits on it. *)
WokenDecoder == IF decoderPC = "waiting" THEN "check" ELSE decoderPC

------------------------------------------------------------------------------
(* Decoding thread.                                                          *)

(* Mutant: one queue with room is enough. *)
RoomInEither == Len(audioQueue) < AudioMax \/ Len(videoQueue) < VideoMax

Room == Len(audioQueue) < AudioMax /\ Len(videoQueue) < VideoMax

(* queue_cond.wait tests its predicate under queue_lock. *)
DecoderCheck ==
    /\ decoderPC = "check"
    /\ decoderPC' = IF stopFlag THEN "exited" ELSE IF Room THEN "decode" ELSE "waiting"
    /\ UNCHANGED <<hostVars, commandVars, deliveryVars, presentVars, presenterPC,
                   timerVars, frameVars, decoded, position, queueVars, historyVars>>

(* Mutant: one frame past the end of the file. *)
FramesLeftPastEnd == position <= Len(Media) + 1

FramesLeft == position <= Len(Media)

(* DecodeNextFrame, without the lock, returns a frame... *)
DecoderDecode ==
    /\ decoderPC = "decode"
    /\ FramesLeft
    /\ decoded' = [at |-> position, epoch |-> epoch]
    /\ position' = position + 1
    /\ decoderPC' = "push"
    /\ UNCHANGED <<hostVars, commandVars, deliveryVars, presentVars, presenterPC,
                   timerVars, frameVars, queueVars, historyVars>>

(* ... or, at the end of the file and after any error, none: the thread      *)
(* leaves with decode_stop_flag set.                                         *)
DecoderEnd ==
    /\ decoderPC = "decode"
    /\ decoderPC' = "exited"
    /\ stopFlag' = TRUE
    /\ UNCHANGED <<hostVars, commandVars, deliveryVars, presentVars, presenterPC,
                   timerVars, frameVars, decoded, position, audioQueue,
                   videoQueue, historyVars>>

DecoderPush ==
    /\ decoderPC = "push"
    /\ decoderPC' = "check"
    /\ decoded' = NoFrame
    /\ \/ /\ Kind(decoded) = "audio"
          /\ audioQueue' = Append(audioQueue, decoded)
          /\ UNCHANGED videoQueue
       \/ /\ Kind(decoded) = "video"
          /\ videoQueue' = Append(videoQueue, decoded)
          /\ UNCHANGED audioQueue
    /\ UNCHANGED <<hostVars, commandVars, deliveryVars, presentVars, presenterPC,
                   timerVars, frameVars, position, stopFlag, historyVars>>

------------------------------------------------------------------------------
(* Presentation thread: TimerCallback.                                       *)

TimerExpires ==
    /\ presenterPC = "loop"
    /\ timerArmed /\ ~handlesClosed
    /\ timerArmed' = FALSE
    /\ presenterPC' = IF lastFrame = NoFrame THEN "take" ELSE "send"
    /\ UNCHANGED <<hostVars, commandVars, deliveryVars, presentVars,
                   handlesClosed, frameVars, decoderVars, queueVars, historyVars>>

(* Mutant: a full present queue drops the frame instead of waiting. *)
SendBlockedDrops ==
    /\ presenterPC = "send"
    /\ Len(presentQueue) > PresentMax
    /\ presenterPC' = "take"
    /\ lastFrame' = NoFrame
    /\ UNCHANGED <<hostVars, commandVars, deliveryVars, presentVars, timerVars,
                   lastPts, compensate, decoderVars, queueVars, historyVars>>

(* PresentQueueFullPresentThreadCheckpoint: more than PresentMax requests    *)
(* wait for the host, and so does this thread.                               *)
SendBlocked ==
    /\ presenterPC = "send"
    /\ Len(presentQueue) > PresentMax
    /\ presenterPC' = "full"
    /\ presentFull' = TRUE
    /\ UNCHANGED <<hostVars, commandVars, deliveryVars, presentQueue, timerVars,
                   frameVars, decoderVars, queueVars, historyVars>>

(* The rest of SendPresentRequest. *)
SendFrame ==
    /\ \/ presenterPC = "send" /\ Len(presentQueue) <= PresentMax
       \/ presenterPC = "full" /\ ~presentFull
    /\ presenterPC' = "take"
    /\ presentQueue' = Append(presentQueue, lastFrame)
    /\ hostNotified' = TRUE
    /\ lastFrame' = NoFrame
    /\ lastSunk' = IF Kind(lastFrame) = "audio" THEN lastFrame ELSE lastSunk
    /\ UNCHANGED <<hostVars, commandVars, hostBatch, presentFull, timerVars,
                   lastPts, compensate, decoderVars, queueVars, epoch, discarded>>

(* Mutant: the timer is not started again. *)
CompensateForgetsTimer ==
    /\ presenterPC = "take"
    /\ compensate
    /\ compensate' = FALSE
    /\ presenterPC' = "loop"
    /\ UNCHANGED <<hostVars, commandVars, deliveryVars, presentVars, timerVars,
                   lastFrame, lastPts, decoderVars, queueVars, historyVars>>

(* The previous interval was shortened by the sink's delay: the rest of it   *)
(* is waited for.                                                            *)
Compensate ==
    /\ presenterPC = "take"
    /\ compensate
    /\ compensate' = FALSE
    /\ timerArmed' = TRUE
    /\ presenterPC' = "loop"
    /\ UNCHANGED <<hostVars, commandVars, deliveryVars, presentVars, handlesClosed,
                   lastFrame, lastPts, decoderVars, queueVars, historyVars>>

(* Decoding has stopped: the end is reported, the queued frames stay where   *)
(* they are, and the loop loses its handles.                                 *)
TakeEnd ==
    /\ presenterPC = "take"
    /\ ~compensate /\ stopFlag
    /\ presentQueue' = Append(presentQueue, EndRequest)
    /\ hostNotified' = TRUE
    /\ handlesClosed' = TRUE
    /\ presenterPC' = "loop"
    /\ UNCHANGED <<hostVars, commandVars, hostBatch, presentFull, timerArmed,
                   frameVars, decoderVars, queueVars, historyVars>>

(* Mutant: old frames are kept. *)
FreshVideoKeepsOld == videoQueue

(* What stays of the video queue when the leading frames older than the      *)
(* last frame are dropped.                                                   *)
FreshVideo ==
    LET old == {k \in DOMAIN videoQueue : \A i \in 1 .. k : Pts(videoQueue[i]) < lastPts}
    IN SubSeq(videoQueue, Cardinality(old) + 1, Len(videoQueue))

(* The video frame is due first. *)
VideoFirst ==
    /\ FreshVideo # <<>>
    /\ audioQueue # <<>> => Pts(Head(FreshVideo)) < Pts(Head(audioQueue))

(* Timer restarted and queue_cond notified, whatever was taken. *)
TakeAndRearm ==
    /\ presenterPC = "take"
    /\ ~compensate /\ ~stopFlag
    /\ presenterPC' = "loop"
    /\ timerArmed' = TRUE
    /\ decoderPC' = WokenDecoder
    /\ UNCHANGED <<hostVars, commandVars, deliveryVars, presentVars, handlesClosed,
                   decoded, position, stopFlag, historyVars>>

TakeVideo ==
    /\ TakeAndRearm
    /\ VideoFirst
    /\ lastFrame' = Head(FreshVideo)
    /\ lastPts' = Pts(Head(FreshVideo))
    /\ videoQueue' = Tail(FreshVideo)
    /\ UNCHANGED <<compensate, audioQueue>>

(* An audio frame is sent early by the delay of the sink. *)
TakeAudio ==
    /\ TakeAndRearm
    /\ ~VideoFirst /\ audioQueue # <<>>
    /\ lastFrame' = Head(audioQueue)
    /\ lastPts' = Pts(Head(audioQueue))
    /\ audioQueue' = Tail(audioQueue)
    /\ videoQueue' = FreshVideo
    /\ compensate' \in BOOLEAN

TakeNothing ==
    /\ TakeAndRearm
    /\ FreshVideo = <<>> /\ audioQueue = <<>>
    /\ videoQueue' = <<>>
    /\ UNCHANGED <<frameVars, audioQueue>>

------------------------------------------------------------------------------
(* Presentation thread: PresentThreadCmdHandler and the end of its loop.     *)

HandleCommand(verb) ==
    /\ presenterPC = "loop"
    /\ cmdNotified /\ ~handlesClosed
    /\ cmd = verb
    /\ cmdNotified' = FALSE

HandlePlay ==
    /\ HandleCommand("play")
    /\ timerArmed' = TRUE
    /\ answered' = TRUE
    /\ UNCHANGED <<hostVars, cmd, deliveryVars, presentVars, presenterPC,
                   handlesClosed, frameVars, decoderVars, queueVars, historyVars>>

HandlePause ==
    /\ HandleCommand("pause")
    /\ timerArmed' = FALSE
    /\ answered' = TRUE
    /\ UNCHANGED <<hostVars, cmd, deliveryVars, presentVars, presenterPC,
                   handlesClosed, frameVars, decoderVars, queueVars, historyVars>>

(* Mutant: queue_cond is not notified. *)
HandleTerminateSilent ==
    /\ HandleCommand("terminate")
    /\ handlesClosed' = TRUE
    /\ stopFlag' = TRUE
    /\ answered' = TRUE
    /\ UNCHANGED <<hostVars, cmd, deliveryVars, presentVars, presenterPC,
                   timerArmed, frameVars, decoderVars, audioQueue,
                   videoQueue, historyVars>>

HandleTerminate ==
    /\ HandleCommand("terminate")
    /\ handlesClosed' = TRUE
    /\ stopFlag' = TRUE
    /\ decoderPC' = WokenDecoder
    /\ answered' = TRUE
    /\ UNCHANGED <<hostVars, cmd, deliveryVars, presentVars, presenterPC,
                   timerArmed, frameVars, decoded, position, audioQueue,
                   videoQueue, historyVars>>

(* kSeekTo begins with StopDecodingThread. *)
HandleSeek ==
    /\ HandleCommand("seek")
    /\ stopFlag' = TRUE
    /\ decoderPC' = WokenDecoder
    /\ presenterPC' = "join"
    /\ UNCHANGED <<hostVars, cmd, answered, deliveryVars, presentVars, timerVars,
                   frameVars, decoded, position, audioQueue, videoQueue, historyVars>>

(* Mutant: the decoding thread is not joined. *)
DecoderLeftAlone == TRUE

DecoderJoined == decoderPC = "exited"

(* Once the thread has been joined, what it decoded is cleared... *)
SeekClears ==
    /\ presenterPC = "join"
    /\ DecoderJoined
    /\ presenterPC' = "loop"
    /\ audioQueue' = <<>> /\ videoQueue' = <<>>
    /\ lastFrame' = NoFrame /\ lastPts' = 0 /\ compensate' = FALSE
    /\ epoch' = epoch + 1
    /\ answered' = TRUE
    /\ UNCHANGED <<hostVars, cmd, cmdNotified, timerVars, presentFull, hostBatch,
                   decoded, lastSunk, discarded>>

(* ... and decoding starts again at some frame... *)
SeekSucceeds ==
    /\ SeekClears
    /\ position' \in 1 .. Len(Media) + 1
    /\ stopFlag' = FALSE
    /\ decoderPC' = "check"
    /\ UNCHANGED <<presentQueue, hostNotified>>

(* Mutant: the early return of a failed seek does not set the promise. *)
SeekFailsUnanswered ==
    /\ presenterPC = "join"
    /\ DecoderJoined
    /\ presenterPC' = "loop"
    /\ audioQueue' = <<>> /\ videoQueue' = <<>>
    /\ lastFrame' = NoFrame /\ lastPts' = 0 /\ compensate' = FALSE
    /\ epoch' = epoch + 1
    /\ presentQueue' = Append(presentQueue, EndRequest)
    /\ hostNotified' = TRUE
    /\ UNCHANGED <<hostVars, commandVars, timerVars, presentFull, hostBatch,
                   decoderVars, stopFlag, lastSunk, discarded>>

(* ... or, when the decoder cannot seek, does not. *)
SeekFails ==
    /\ SeekClears
    /\ presentQueue' = Append(presentQueue, EndRequest)
    /\ hostNotified' = TRUE
    /\ UNCHANGED <<position, stopFlag, decoderPC>>

(* uv_run finds no handle and ThreadRoutine returns. *)
PresenterLeaves ==
    /\ presenterPC = "loop"
    /\ handlesClosed
    /\ presenterPC' = "finished"
    /\ UNCHANGED <<hostVars, commandVars, deliveryVars, presentVars, timerVars,
                   frameVars, decoderVars, queueVars, historyVars>>

------------------------------------------------------------------------------
(* Host thread: JavaScript calls, also made from the callbacks of a batch.   *)

HostRuns == hostWait = "no" /\ ~disposed

(* SendAndWaitForPresentThreadCmd up to its wait. *)
SendCommand(verb) ==
    /\ hostWait' = "command"
    /\ cmd' = verb
    /\ answered' = FALSE
    /\ cmdNotified' = TRUE

Play ==
    /\ HostRuns /\ paused
    /\ SendCommand("play")
    /\ UNCHANGED <<paused, disposed, disposing, deliveryVars, presentVars, presenterPC,
                   timerVars, frameVars, decoderVars, queueVars, historyVars>>

Pause ==
    /\ HostRuns /\ ~paused
    /\ SendCommand("pause")
    /\ UNCHANGED <<paused, disposed, disposing, deliveryVars, presentVars, presenterPC,
                   timerVars, frameVars, decoderVars, queueVars, historyVars>>

SeekTo ==
    /\ HostRuns
    /\ epoch < MaxSeeks
    /\ SendCommand("seek")
    /\ UNCHANGED <<paused, disposed, disposing, deliveryVars, presentVars, presenterPC,
                   timerVars, frameVars, decoderVars, queueVars, historyVars>>

(* dispose() tests loop_handles_closed, then pauses and terminates. *)
Dispose ==
    /\ HostRuns
    /\ disposing' = TRUE
    /\ \/ /\ handlesClosed
          /\ hostWait' = "join"
          /\ UNCHANGED commandVars
       \/ ~handlesClosed /\ SendCommand(IF paused THEN "terminate" ELSE "pause")
    /\ UNCHANGED <<paused, disposed, deliveryVars, presentVars, presenterPC,
                   timerVars, frameVars, decoderVars, queueVars, historyVars>>

(* The promise is set: the command returns to its caller. *)
CommandReturns ==
    /\ hostWait = "command"
    /\ answered
    /\ paused' = CASE cmd = "play" -> FALSE [] cmd = "pause" -> TRUE [] OTHER -> paused
    /\ \/ ~disposing /\ hostWait' = "no" /\ cmd' = "none" /\ UNCHANGED <<answered, cmdNotified>>
       \/ disposing /\ cmd = "pause" /\ SendCommand("terminate")
       \/ /\ disposing /\ cmd = "terminate"
          /\ hostWait' = "join" /\ cmd' = "none"
          /\ UNCHANGED <<answered, cmdNotified>>
    /\ UNCHANGED <<disposed, disposing, deliveryVars, presentVars, presenterPC,
                   timerVars, frameVars, decoderVars, queueVars, historyVars>>

(* Both threads are joined and host_notifier_ is closed. *)
DisposeJoins ==
    /\ hostWait = "join"
    /\ decoderPC = "exited" /\ presenterPC = "finished"
    /\ hostWait' = "no"
    /\ disposed' = TRUE
    /\ hostNotified' = FALSE
    /\ UNCHANGED <<paused, disposing, commandVars, hostBatch, presentVars, presenterPC,
                   timerVars, frameVars, decoderVars, queueVars, historyVars>>

------------------------------------------------------------------------------
(* Host thread: PresentRequestHandler.                                       *)

(* The requests up to the first error_or_eof are taken; the others are       *)
(* dropped.  Each pop, and only a pop that keeps its request, passes         *)
(* PresentQueueFullHostCheckpoint.                                           *)
TakenCount ==
    Cardinality({i \in DOMAIN presentQueue :
                    \A j \in 1 .. i - 1 : presentQueue[j] # EndRequest})

(* Mutant: the checkpoint is left out. *)
StillFullUnchecked == presentFull

(* The last of these checkpoints sees only what is dropped. *)
StillFull == presentFull /\ Len(presentQueue) - TakenCount > PresentMax

HostDrain ==
    /\ hostWait = "no" /\ ~disposed
    /\ hostBatch = <<>>
    /\ hostNotified
    /\ hostNotified' = FALSE
    /\ hostBatch' = SubSeq(presentQueue, 1, TakenCount)
    /\ presentQueue' = <<>>
    /\ presentFull' = StillFull
    /\ discarded' = (discarded \/ Len(presentQueue) - TakenCount > PresentMax)
    /\ UNCHANGED <<hostVars, commandVars, presenterPC, timerVars, frameVars,
                   decoderVars, queueVars, epoch, lastSunk>>

(* One JavaScript callback returns.  The batch outlives a dispose() made in  *)
(* one of its callbacks.                                                     *)
HostDeliver ==
    /\ hostWait = "no"
    /\ hostBatch # <<>>
    /\ hostBatch' = Tail(hostBatch)
    /\ UNCHANGED <<hostVars, commandVars, hostNotified, presentVars, presenterPC,
                   timerVars, frameVars, decoderVars, queueVars, historyVars>>

------------------------------------------------------------------------------
DecoderStep == DecoderCheck \/ DecoderDecode \/ DecoderEnd \/ DecoderPush

PresenterStep ==
    \/ TimerExpires \/ SendBlocked \/ SendFrame \/ Compensate \/ TakeEnd
    \/ TakeVideo \/ TakeAudio \/ TakeNothing
    \/ HandlePlay \/ HandlePause \/ HandleTerminate \/ HandleSeek
    \/ SeekSucceeds \/ SeekFails \/ PresenterLeaves

HostStep == CommandReturns \/ DisposeJoins \/ HostDrain \/ HostDeliver

Next ==
    \/ DecoderStep
    \/ PresenterStep
    \/ HostStep
    \/ Play \/ Pause \/ SeekTo \/ Dispose

(* The three threads are scheduled.  A loop iteration serves a pending       *)
(* notification even when the timer expires in every iteration.  The program *)
(* need not call anything, and its callbacks return.                         *)
Fairness ==
    /\ WF_vars(DecoderStep)
    /\ WF_vars(PresenterStep)
    /\ SF_vars(HandlePlay \/ HandlePause \/ HandleTerminate \/ HandleSeek)
    /\ WF_vars(HostStep)

Spec == Init /\ [][Next]_vars /\ Fairness

------------------------------------------------------------------------------
(* Properties.                                                               *)

TypeControl ==
    /\ hostWait \in {"no", "command", "join"}
    /\ cmd \in {"none"} \cup Verbs
    /\ presenterPC \in {"loop", "send", "full", "take", "join", "finished"}
    /\ decoderPC \in {"check", "waiting", "decode", "push", "exited"}

TypeFlags ==
    /\ paused \in BOOLEAN /\ disposed \in BOOLEAN /\ disposing \in BOOLEAN
    /\ answered \in BOOLEAN /\ cmdNotified \in BOOLEAN /\ hostNotified \in BOOLEAN
    /\ timerArmed \in BOOLEAN /\ handlesClosed \in BOOLEAN
    /\ compensate \in BOOLEAN /\ presentFull \in BOOLEAN /\ stopFlag \in BOOLEAN
    /\ discarded \in BOOLEAN

TypeFrames ==
    /\ lastFrame \in Frames \cup {NoFrame}
    /\ decoded \in Frames \cup {NoFrame}
    /\ lastSunk \in Frames \cup {NoFrame}
    /\ audioQueue \in Seq(Frames)
    /\ videoQueue \in Seq(Frames)
    /\ presentQueue \in Seq(Frames \cup {EndRequest})
    /\ hostBatch \in Seq(Frames \cup {EndRequest})
    /\ lastPts \in Nat /\ epoch \in Nat
    /\ position \in 1 .. Len(Media) + 1

(* The type invariant: program counters, flags, frames. *)
TypeOK == TypeControl /\ TypeFlags /\ TypeFrames

(* No queue outgrows its limit, although the test and the push it allows are *)
(* separate critical sections with a decoder call or a wait between them.    *)
(* The present queue takes one frame more than its limit, and behind it      *)
(* error_or_eof requests only.                                               *)
QueueBounds ==
    /\ Len(audioQueue) <= AudioMax
    /\ Len(videoQueue) <= VideoMax
    /\ \A i \in DOMAIN presentQueue :
           presentQueue[i] # EndRequest => i <= PresentMax + 1

(* After a seek nothing decoded before it is left to be sent, although the   *)
(* decoding thread may have been in the middle of a frame.                   *)
NoStaleFrame ==
    /\ lastFrame # NoFrame => lastFrame.epoch = epoch
    /\ decoded # NoFrame => decoded.epoch = epoch
    /\ \A i \in DOMAIN audioQueue : audioQueue[i].epoch = epoch
    /\ \A i \in DOMAIN videoQueue : videoQueue[i].epoch = epoch

(* A frame exists outside the queues only where the threads hold one.        *)
FramesHeld ==
    /\ decoderPC = "push" <=> decoded # NoFrame
    /\ presenterPC \in {"send", "full"} => lastFrame # NoFrame

(* The strengthening of QueueBounds: between its test and the push it allows *)
(* nobody else fills a queue.                                                *)
RoomKept ==
    /\ decoderPC \in {"decode", "push"} => Room
    /\ presenterPC = "full" /\ ~presentFull => Len(presentQueue) <= PresentMax

(* The inductive invariant of the proofs. *)
IndInv == TypeOK /\ FramesHeld /\ RoomKept /\ QueueBounds /\ NoStaleFrame

IsAudio(f) == f # NoFrame /\ Kind(f) = "audio"

(* What the sink was given last and what will follow it, back to the decoder. *)
AudioPipe == <<lastSunk, lastFrame>> \o audioQueue \o <<decoded>>

InFlow(f) == IsAudio(f) /\ f.epoch = epoch

(* Between two seeks the audio sink gets every audio frame, in order: the    *)
(* pipeline never skips, repeats or swaps one, whatever is paused, full or   *)
(* dropped meanwhile.                                                        *)
AudioGapless ==
    \A i, j \in DOMAIN AudioPipe :
        i < j /\ InFlow(AudioPipe[i]) /\ InFlow(AudioPipe[j]) =>
            /\ AudioPipe[i].at < AudioPipe[j].at
            /\ \A n \in AudioPipe[i].at + 1 .. AudioPipe[j].at - 1 :
                   Media[n].kind = "audio" =>
                       \E k \in i + 1 .. j - 1 : InFlow(AudioPipe[k]) /\ AudioPipe[k].at = n

(* What the host will be handed, and the frame about to be sent. *)
Sent == hostBatch \o presentQueue
Outgoing == Append(Sent, lastFrame)

(* g is not a video frame older than f, of the same epoch. *)
NotLate(f, g) ==
    f # NoFrame /\ g # NoFrame /\ f.epoch = g.epoch /\ Kind(g) = "video" => Pts(f) <= Pts(g)

(* A video frame is never older than the frame sent just before it.          *)
VideoNotLate == \A i \in 2 .. Len(Outgoing) : NotLate(Outgoing[i - 1], Outgoing[i])

(* The presentation thread sleeps in its checkpoint only while the queue is  *)
(* over its limit.  The exception is a defect of the code: requests dropped  *)
(* behind an error_or_eof pass no checkpoint, and when failed seeks have put *)
(* more than PresentMax of them there, the thread sleeps over an empty queue. *)
BlockedWhileFull ==
    presenterPC = "full" /\ presentFull => Len(presentQueue) > PresentMax \/ discarded

(* Liveness: a command of the host is answered, with two exceptions that the *)
(* code has: the loop handles are closed by an end of file it has not heard  *)
(* of, or the presentation thread waits for the host to drain its queue.     *)
CommandAnswered ==
    hostWait = "command" ~> \/ hostWait # "command"
                            \/ handlesClosed
                            \/ presenterPC = "full" /\ presentFull

(* Liveness: dispose() that got to its joins returns. *)
DisposeReturns == hostWait = "join" ~> disposed

(* Liveness: left alone, playback comes to its end and the host hears of it. *)
PlaysToEnd ==
    ~paused /\ ~handlesClosed ~>
               \/ hostBatch # <<>> /\ Head(hostBatch) = EndRequest
               \/ hostWait # "no"
               \/ discarded

=============================================================================
