------------------------ MODULE MediaDispatcherProofs ------------------------
(***************************************************************************)
(* TLAPS proofs of MediaDispatcher's safety invariants, for every file,    *)
(* every limit of the three queues and any number of seeks.                *)
(***************************************************************************)
EXTENDS MediaDispatcher, FiniteSetTheorems, SequenceTheorems, TLAPS

USE DEF hostVars, commandVars, deliveryVars, presentVars, timerVars, frameVars,
        decoderVars, queueVars, historyVars

(* Some of the first n indices are n at most. *)
LEMMA SubsetCount ==
    ASSUME NEW n \in Nat, NEW T \in SUBSET (1 .. n)
    PROVE  Cardinality(T) \in Nat /\ Cardinality(T) <= n
  <1>1. IsFiniteSet(1 .. n) /\ Cardinality(1 .. n) = n
    BY FS_Interval
  <1>2. IsFiniteSet(T) /\ Cardinality(T) <= Cardinality(1 .. n)
    BY <1>1, FS_Subset
  <1> QED BY <1>1, <1>2, FS_CardinalityType

(* Dropping old video frames leaves a part of the video queue. *)
LEMMA FreshVideoPart ==
    ASSUME TypeFrames
    PROVE  /\ FreshVideo \in Seq(Frames)
           /\ Len(FreshVideo) <= Len(videoQueue)
           /\ \A i \in DOMAIN FreshVideo :
                  \E j \in DOMAIN videoQueue : FreshVideo[i] = videoQueue[j]
  <1> DEFINE old == {k \in DOMAIN videoQueue : \A i \in 1 .. k : Pts(videoQueue[i]) < lastPts}
             n == Cardinality(old)
  <1>1. videoQueue \in Seq(Frames)
    BY DEF TypeFrames
  <1>2. n \in Nat /\ n <= Len(videoQueue)
    <2>1. Len(videoQueue) \in Nat /\ DOMAIN videoQueue = 1 .. Len(videoQueue)
      BY <1>1
    <2>2. old \in SUBSET (1 .. Len(videoQueue))
      BY <2>1
    <2> QED BY <2>1, <2>2, SubsetCount
  <1>3. FreshVideo = SubSeq(videoQueue, n + 1, Len(videoQueue))
    BY DEF FreshVideo
  <1> HIDE DEF n
  <1>4. /\ SubSeq(videoQueue, n + 1, Len(videoQueue)) \in Seq(Frames)
        /\ Len(SubSeq(videoQueue, n + 1, Len(videoQueue))) <= Len(videoQueue)
        /\ \A i \in DOMAIN SubSeq(videoQueue, n + 1, Len(videoQueue)) :
               \E j \in DOMAIN videoQueue :
                   SubSeq(videoQueue, n + 1, Len(videoQueue))[i] = videoQueue[j]
    <2> DEFINE rest == SubSeq(videoQueue, n + 1, Len(videoQueue))
    <2>1. Len(rest) = Len(videoQueue) - n
      BY <1>1, <1>2
    <2>2. \A i \in 1 .. Len(rest) : rest[i] = videoQueue[n + i]
      BY <1>1, <1>2
    <2>3. rest \in Seq(Frames)
      BY <1>1, <1>2
    <2>4. \A i \in 1 .. Len(rest) : n + i \in 1 .. Len(videoQueue)
      BY <1>1, <1>2, <2>1
    <2> HIDE DEF rest
    <2>5. DOMAIN rest = 1 .. Len(rest) /\ DOMAIN videoQueue = 1 .. Len(videoQueue)
      BY <1>1, <2>3
    <2>6. Len(rest) <= Len(videoQueue)
      BY <1>1, <1>2, <2>1
    <2>7. rest \in Seq(Frames) /\ Len(rest) <= Len(videoQueue)
          /\ \A i \in DOMAIN rest : \E j \in DOMAIN videoQueue : rest[i] = videoQueue[j]
      BY <2>2, <2>3, <2>4, <2>5, <2>6
    <2> QED BY <2>7 DEF rest
  <1> QED BY <1>3, <1>4

(* The constructor's state satisfies the invariant. *)
LEMMA InitHolds == Init => IndInv /\ BlockedWhileFull
  <1> SUFFICES ASSUME Init PROVE IndInv /\ BlockedWhileFull
    OBVIOUS
  <1> USE DEF Init
  <1>1. TypeControl
    BY DEF TypeControl
  <1>2. TypeFlags
    BY DEF TypeFlags
  <1>3. TypeFrames
    BY MediaConstants DEF TypeFrames, MediaConstants
  <1>4. FramesHeld /\ RoomKept /\ NoStaleFrame /\ BlockedWhileFull
    BY DEF FramesHeld, RoomKept, NoStaleFrame, BlockedWhileFull
  <1>5. QueueBounds
    BY MediaConstants DEF QueueBounds, MediaConstants
  <1> QED BY <1>1, <1>2, <1>3, <1>4, <1>5 DEF IndInv, TypeOK

(* Every step keeps the program counters and the command. *)
LEMMA ControlStep ==
    ASSUME TypeControl, [Next]_vars
    PROVE  TypeControl'
  <1> USE DEF TypeControl, Verbs
  <1>1. CASE DecoderCheck
    BY <1>1 DEF DecoderCheck
  <1>2. CASE DecoderDecode
    BY <1>2 DEF DecoderDecode, FramesLeft
  <1>3. CASE DecoderEnd
    BY <1>3 DEF DecoderEnd
  <1>4. CASE DecoderPush
    BY <1>4 DEF DecoderPush
  <1>5. CASE TimerExpires
    BY <1>5 DEF TimerExpires
  <1>6. CASE SendBlocked
    BY <1>6 DEF SendBlocked
  <1>7. CASE SendFrame
    BY <1>7 DEF SendFrame
  <1>8. CASE Compensate
    BY <1>8 DEF Compensate
  <1>9. CASE TakeEnd
    BY <1>9 DEF TakeEnd
  <1>10. CASE TakeVideo
    BY <1>10 DEF TakeVideo, TakeAndRearm, WokenDecoder
  <1>11. CASE TakeAudio
    BY <1>11 DEF TakeAudio, TakeAndRearm, WokenDecoder
  <1>12. CASE TakeNothing
    BY <1>12 DEF TakeNothing, TakeAndRearm, WokenDecoder
  <1>13. CASE HandlePlay
    BY <1>13 DEF HandlePlay, HandleCommand
  <1>14. CASE HandlePause
    BY <1>14 DEF HandlePause, HandleCommand
  <1>15. CASE HandleTerminate
    BY <1>15 DEF HandleTerminate, HandleCommand, WokenDecoder
  <1>16. CASE HandleSeek
    BY <1>16 DEF HandleSeek, HandleCommand, WokenDecoder
  <1>17. CASE SeekSucceeds
    BY <1>17 DEF SeekSucceeds, SeekClears, DecoderJoined
  <1>18. CASE SeekFails
    BY <1>18 DEF SeekFails, SeekClears, DecoderJoined
  <1>19. CASE PresenterLeaves
    BY <1>19 DEF PresenterLeaves
  <1>20. CASE CommandReturns
    BY <1>20 DEF CommandReturns, SendCommand
  <1>21. CASE DisposeJoins
    BY <1>21 DEF DisposeJoins
  <1>22. CASE HostDrain
    BY <1>22 DEF HostDrain, StillFull
  <1>23. CASE HostDeliver
    BY <1>23 DEF HostDeliver
  <1>24. CASE Play
    BY <1>24 DEF Play, SendCommand, HostRuns
  <1>25. CASE Pause
    BY <1>25 DEF Pause, SendCommand, HostRuns
  <1>26. CASE SeekTo
    BY <1>26 DEF SeekTo, SendCommand, HostRuns
  <1>27. CASE Dispose
    BY <1>27 DEF Dispose, SendCommand, HostRuns
  <1>28. CASE UNCHANGED vars
    BY <1>28 DEF vars
  <1> QED
    BY <1>1, <1>2, <1>3, <1>4, <1>5, <1>6, <1>7, <1>8, <1>9, <1>10,
       <1>11, <1>12, <1>13, <1>14, <1>15, <1>16, <1>17, <1>18, <1>19, <1>20,
       <1>21, <1>22, <1>23, <1>24, <1>25, <1>26, <1>27, <1>28
       DEF Next, DecoderStep, PresenterStep, HostStep

(* Every step keeps the flags. *)
LEMMA FlagsStep ==
    ASSUME TypeFlags, [Next]_vars
    PROVE  TypeFlags'
  <1> USE DEF TypeFlags
  <1>1. CASE DecoderCheck
    BY <1>1 DEF DecoderCheck
  <1>2. CASE DecoderDecode
    BY <1>2 DEF DecoderDecode, FramesLeft
  <1>3. CASE DecoderEnd
    BY <1>3 DEF DecoderEnd
  <1>4. CASE DecoderPush
    BY <1>4 DEF DecoderPush
  <1>5. CASE TimerExpires
    BY <1>5 DEF TimerExpires
  <1>6. CASE SendBlocked
    BY <1>6 DEF SendBlocked
  <1>7. CASE SendFrame
    BY <1>7 DEF SendFrame
  <1>8. CASE Compensate
    BY <1>8 DEF Compensate
  <1>9. CASE TakeEnd
    BY <1>9 DEF TakeEnd
  <1>10. CASE TakeVideo
    BY <1>10 DEF TakeVideo, TakeAndRearm, WokenDecoder
  <1>11. CASE TakeAudio
    BY <1>11 DEF TakeAudio, TakeAndRearm, WokenDecoder
  <1>12. CASE TakeNothing
    BY <1>12 DEF TakeNothing, TakeAndRearm, WokenDecoder
  <1>13. CASE HandlePlay
    BY <1>13 DEF HandlePlay, HandleCommand
  <1>14. CASE HandlePause
    BY <1>14 DEF HandlePause, HandleCommand
  <1>15. CASE HandleTerminate
    BY <1>15 DEF HandleTerminate, HandleCommand, WokenDecoder
  <1>16. CASE HandleSeek
    BY <1>16 DEF HandleSeek, HandleCommand, WokenDecoder
  <1>17. CASE SeekSucceeds
    BY <1>17 DEF SeekSucceeds, SeekClears, DecoderJoined
  <1>18. CASE SeekFails
    BY <1>18 DEF SeekFails, SeekClears, DecoderJoined
  <1>19. CASE PresenterLeaves
    BY <1>19 DEF PresenterLeaves
  <1>20. CASE CommandReturns
    BY <1>20 DEF CommandReturns, SendCommand
  <1>21. CASE DisposeJoins
    BY <1>21 DEF DisposeJoins
  <1>22. CASE HostDrain
    BY <1>22 DEF HostDrain, StillFull
  <1>23. CASE HostDeliver
    BY <1>23 DEF HostDeliver
  <1>24. CASE Play
    BY <1>24 DEF Play, SendCommand, HostRuns
  <1>25. CASE Pause
    BY <1>25 DEF Pause, SendCommand, HostRuns
  <1>26. CASE SeekTo
    BY <1>26 DEF SeekTo, SendCommand, HostRuns
  <1>27. CASE Dispose
    BY <1>27 DEF Dispose, SendCommand, HostRuns
  <1>28. CASE UNCHANGED vars
    BY <1>28 DEF vars
  <1> QED
    BY <1>1, <1>2, <1>3, <1>4, <1>5, <1>6, <1>7, <1>8, <1>9, <1>10,
       <1>11, <1>12, <1>13, <1>14, <1>15, <1>16, <1>17, <1>18, <1>19, <1>20,
       <1>21, <1>22, <1>23, <1>24, <1>25, <1>26, <1>27, <1>28
       DEF Next, DecoderStep, PresenterStep, HostStep

(* A frame of the file has a time. *)
LEMMA PtsType == \A f \in Frames : Pts(f) \in Nat
  <1> SUFFICES ASSUME NEW f \in Frames PROVE Pts(f) \in Nat
    OBVIOUS
  <1>1. f.at \in 1 .. Len(Media)
    BY DEF Frames
  <1>2. Media \in Seq([kind : {"audio", "video"}, pts : Nat])
    BY MediaConstants DEF MediaConstants
  <1>3. Media[f.at] \in [kind : {"audio", "video"}, pts : Nat]
    BY <1>1, <1>2, ElementOfSeq
  <1>4. Media[f.at].pts \in Nat
    BY <1>3
  <1> QED BY <1>4 DEF Pts

(* The host takes a part of the present queue, up to the first error_or_eof. *)
LEMMA TakenCountType ==
    ASSUME TypeFrames
    PROVE  TakenCount \in Nat /\ TakenCount <= Len(presentQueue)
  <1>1. Len(presentQueue) \in Nat /\ DOMAIN presentQueue = 1 .. Len(presentQueue)
    BY DEF TypeFrames
  <1>2. {i \in DOMAIN presentQueue : \A j \in 1 .. i - 1 : presentQueue[j] # EndRequest}
            \in SUBSET (1 .. Len(presentQueue))
    BY <1>1
  <1> QED BY <1>1, <1>2, SubsetCount DEF TakenCount

(* Every step keeps the types of the frames, queues and counters. *)
LEMMA FramesStep ==
    ASSUME TypeControl, TypeFrames, FramesHeld, [Next]_vars
    PROVE  TypeFrames'
  <1> USE DEF TypeFrames
  <1>1. CASE DecoderCheck
    BY <1>1 DEF DecoderCheck
  <1>2. CASE DecoderDecode
    <2>1. decoded' \in Frames
      BY <1>2 DEF DecoderDecode, FramesLeft, Frames
    <2> QED BY <1>2, <2>1 DEF DecoderDecode, FramesLeft
  <1>3. CASE DecoderEnd
    BY <1>3 DEF DecoderEnd
  <1>4. CASE DecoderPush
    <2>1. decoded \in Frames
      BY <1>4 DEF DecoderPush, FramesHeld
    <2>2. Append(audioQueue, decoded) \in Seq(Frames) /\ Append(videoQueue, decoded) \in Seq(Frames)
      BY <2>1
    <2> QED BY <1>4, <2>2 DEF DecoderPush
  <1>5. CASE TimerExpires
    BY <1>5 DEF TimerExpires
  <1>6. CASE SendBlocked
    BY <1>6 DEF SendBlocked
  <1>7. CASE SendFrame
    <2>1. Append(presentQueue, lastFrame) \in Seq(Frames \cup {EndRequest})
      BY DEF EndRequest
    <2> QED BY <1>7, <2>1 DEF SendFrame
  <1>8. CASE Compensate
    BY <1>8 DEF Compensate
  <1>9. CASE TakeEnd
    <2>1. Append(presentQueue, EndRequest) \in Seq(Frames \cup {EndRequest})
      OBVIOUS
    <2> QED BY <1>9, <2>1 DEF TakeEnd
  <1>10. CASE TakeVideo
    <2>1. FreshVideo \in Seq(Frames) /\ FreshVideo # <<>>
      BY <1>10, FreshVideoPart DEF TakeVideo, VideoFirst
    <2>2. Head(FreshVideo) \in Frames /\ Tail(FreshVideo) \in Seq(Frames)
      BY <2>1
    <2>3. Pts(Head(FreshVideo)) \in Nat
      BY <2>2, PtsType
    <2> QED BY <1>10, <2>2, <2>3 DEF TakeVideo, TakeAndRearm, WokenDecoder
  <1>11. CASE TakeAudio
    <2>1. FreshVideo \in Seq(Frames)
      BY FreshVideoPart
    <2>2. Head(audioQueue) \in Frames /\ Tail(audioQueue) \in Seq(Frames)
      BY <1>11 DEF TakeAudio
    <2>3. Pts(Head(audioQueue)) \in Nat
      BY <2>2, PtsType
    <2> QED BY <1>11, <2>1, <2>2, <2>3 DEF TakeAudio, TakeAndRearm, WokenDecoder
  <1>12. CASE TakeNothing
    BY <1>12 DEF TakeNothing, TakeAndRearm, WokenDecoder
  <1>13. CASE HandlePlay
    BY <1>13 DEF HandlePlay, HandleCommand
  <1>14. CASE HandlePause
    BY <1>14 DEF HandlePause, HandleCommand
  <1>15. CASE HandleTerminate
    BY <1>15 DEF HandleTerminate, HandleCommand, WokenDecoder
  <1>16. CASE HandleSeek
    BY <1>16 DEF HandleSeek, HandleCommand, WokenDecoder
  <1>17. CASE SeekSucceeds
    BY <1>17 DEF SeekSucceeds, SeekClears, DecoderJoined
  <1>18. CASE SeekFails
    <2>1. Append(presentQueue, EndRequest) \in Seq(Frames \cup {EndRequest})
      OBVIOUS
    <2> QED BY <1>18, <2>1 DEF SeekFails, SeekClears, DecoderJoined
  <1>19. CASE PresenterLeaves
    BY <1>19 DEF PresenterLeaves
  <1>20. CASE CommandReturns
    BY <1>20 DEF CommandReturns, SendCommand
  <1>21. CASE DisposeJoins
    BY <1>21 DEF DisposeJoins
  <1>22. CASE HostDrain
    <2>1. TakenCount \in Nat /\ TakenCount <= Len(presentQueue)
      BY TakenCountType
    <2>2. SubSeq(presentQueue, 1, TakenCount) \in Seq(Frames \cup {EndRequest})
      BY <2>1
    <2> QED BY <1>22, <2>2 DEF HostDrain, StillFull
  <1>23. CASE HostDeliver
    BY <1>23 DEF HostDeliver
  <1>24. CASE Play
    BY <1>24 DEF Play, SendCommand, HostRuns
  <1>25. CASE Pause
    BY <1>25 DEF Pause, SendCommand, HostRuns
  <1>26. CASE SeekTo
    BY <1>26 DEF SeekTo, SendCommand, HostRuns
  <1>27. CASE Dispose
    BY <1>27 DEF Dispose, SendCommand, HostRuns
  <1>28. CASE UNCHANGED vars
    BY <1>28 DEF vars
  <1> QED
    BY <1>1, <1>2, <1>3, <1>4, <1>5, <1>6, <1>7, <1>8, <1>9, <1>10,
       <1>11, <1>12, <1>13, <1>14, <1>15, <1>16, <1>17, <1>18, <1>19, <1>20,
       <1>21, <1>22, <1>23, <1>24, <1>25, <1>26, <1>27, <1>28
       DEF Next, DecoderStep, PresenterStep, HostStep

(* Every step keeps FramesHeld: a thread holds a frame exactly where its counter says so. *)
LEMMA FramesHeldStep ==
    ASSUME TypeControl, TypeFrames, FramesHeld, [Next]_vars
    PROVE  FramesHeld'
  <1> USE DEF FramesHeld
  <1>1. CASE DecoderCheck
    BY <1>1 DEF DecoderCheck
  <1>2. CASE DecoderDecode
    <2>1. position # 0
      BY DEF TypeFrames
    <2>2. [at |-> position, epoch |-> epoch] # NoFrame
      BY <2>1 DEF NoFrame
    <2> QED BY <1>2, <2>2 DEF DecoderDecode, FramesLeft
  <1>3. CASE DecoderEnd
    BY <1>3 DEF DecoderEnd
  <1>4. CASE DecoderPush
    BY <1>4 DEF DecoderPush
  <1>5. CASE TimerExpires
    BY <1>5 DEF TimerExpires
  <1>6. CASE SendBlocked
    BY <1>6 DEF SendBlocked
  <1>7. CASE SendFrame
    BY <1>7 DEF SendFrame
  <1>8. CASE Compensate
    BY <1>8 DEF Compensate
  <1>9. CASE TakeEnd
    BY <1>9 DEF TakeEnd
  <1>10. CASE TakeVideo
    BY <1>10 DEF TakeVideo, TakeAndRearm, WokenDecoder
  <1>11. CASE TakeAudio
    BY <1>11 DEF TakeAudio, TakeAndRearm, WokenDecoder
  <1>12. CASE TakeNothing
    BY <1>12 DEF TakeNothing, TakeAndRearm, WokenDecoder
  <1>13. CASE HandlePlay
    BY <1>13 DEF HandlePlay, HandleCommand
  <1>14. CASE HandlePause
    BY <1>14 DEF HandlePause, HandleCommand
  <1>15. CASE HandleTerminate
    BY <1>15 DEF HandleTerminate, HandleCommand, WokenDecoder
  <1>16. CASE HandleSeek
    BY <1>16 DEF HandleSeek, HandleCommand, WokenDecoder
  <1>17. CASE SeekSucceeds
    BY <1>17 DEF SeekSucceeds, SeekClears, DecoderJoined
  <1>18. CASE SeekFails
    BY <1>18 DEF SeekFails, SeekClears, DecoderJoined
  <1>19. CASE PresenterLeaves
    BY <1>19 DEF PresenterLeaves
  <1>20. CASE CommandReturns
    BY <1>20 DEF CommandReturns
  <1>21. CASE DisposeJoins
    BY <1>21 DEF DisposeJoins
  <1>22. CASE HostDrain
    BY <1>22 DEF HostDrain, StillFull
  <1>23. CASE HostDeliver
    BY <1>23 DEF HostDeliver
  <1>24. CASE Play
    BY <1>24 DEF Play
  <1>25. CASE Pause
    BY <1>25 DEF Pause
  <1>26. CASE SeekTo
    BY <1>26 DEF SeekTo
  <1>27. CASE Dispose
    BY <1>27 DEF Dispose
  <1>28. CASE UNCHANGED vars
    BY <1>28 DEF vars
  <1> QED
    BY <1>1, <1>2, <1>3, <1>4, <1>5, <1>6, <1>7, <1>8, <1>9, <1>10,
       <1>11, <1>12, <1>13, <1>14, <1>15, <1>16, <1>17, <1>18, <1>19, <1>20,
       <1>21, <1>22, <1>23, <1>24, <1>25, <1>26, <1>27, <1>28
       DEF Next, DecoderStep, PresenterStep, HostStep

(* Every step keeps RoomKept: only its own thread fills a queue after its test. *)
LEMMA RoomKeptStep ==
    ASSUME TypeControl, TypeFrames, TypeFrames', FramesHeld, RoomKept, [Next]_vars
    PROVE  RoomKept'
  <1> USE DEF RoomKept, Room
  <1>1. CASE DecoderCheck
    BY <1>1 DEF DecoderCheck
  <1>2. CASE DecoderDecode
    BY <1>2 DEF DecoderDecode, FramesLeft
  <1>3. CASE DecoderEnd
    BY <1>3 DEF DecoderEnd
  <1>4. CASE DecoderPush
    BY <1>4 DEF DecoderPush
  <1>5. CASE TimerExpires
    BY <1>5 DEF TimerExpires
  <1>6. CASE SendBlocked
    BY <1>6 DEF SendBlocked
  <1>7. CASE SendFrame
    BY <1>7 DEF SendFrame
  <1>8. CASE Compensate
    BY <1>8 DEF Compensate
  <1>9. CASE TakeEnd
    BY <1>9 DEF TakeEnd
  <1>10. CASE TakeVideo
    <2>1. /\ FreshVideo \in Seq(Frames) /\ Len(FreshVideo) <= Len(videoQueue)
          /\ Len(videoQueue) \in Nat /\ Len(audioQueue) \in Nat
      BY FreshVideoPart DEF TypeFrames
    <2>2. FreshVideo # <<>>
      BY <1>10 DEF TakeVideo, VideoFirst
    <2>3. Len(videoQueue') <= Len(videoQueue) /\ Len(audioQueue') = Len(audioQueue)
      BY <1>10, <2>1, <2>2 DEF TakeVideo
    <2>4. Len(videoQueue') \in Nat /\ Len(audioQueue') \in Nat
      BY DEF TypeFrames
    <2> QED BY <1>10, <2>1, <2>3, <2>4, MediaConstants DEF TakeVideo, TakeAndRearm, WokenDecoder, MediaConstants
  <1>11. CASE TakeAudio
    <2>1. /\ FreshVideo \in Seq(Frames) /\ Len(FreshVideo) <= Len(videoQueue)
          /\ Len(videoQueue) \in Nat /\ Len(audioQueue) \in Nat
      BY FreshVideoPart DEF TypeFrames
    <2>2. audioQueue \in Seq(Frames) /\ audioQueue # <<>>
      BY <1>11 DEF TakeAudio, TypeFrames
    <2>3. Len(videoQueue') <= Len(videoQueue) /\ Len(audioQueue') <= Len(audioQueue)
      BY <1>11, <2>1, <2>2 DEF TakeAudio
    <2>4. Len(videoQueue') \in Nat /\ Len(audioQueue') \in Nat
      BY DEF TypeFrames
    <2> QED BY <1>11, <2>1, <2>3, <2>4, MediaConstants DEF TakeAudio, TakeAndRearm, WokenDecoder, MediaConstants
  <1>12. CASE TakeNothing
    <2>1. /\ FreshVideo \in Seq(Frames) /\ Len(FreshVideo) <= Len(videoQueue)
          /\ Len(videoQueue) \in Nat /\ Len(audioQueue) \in Nat
      BY FreshVideoPart DEF TypeFrames
    <2>3. Len(videoQueue') <= Len(videoQueue) /\ Len(audioQueue') = Len(audioQueue)
      BY <1>12, <2>1 DEF TakeNothing
    <2>4. Len(videoQueue') \in Nat /\ Len(audioQueue') \in Nat
      BY DEF TypeFrames
    <2> QED BY <1>12, <2>1, <2>3, <2>4, MediaConstants DEF TakeNothing, TakeAndRearm, WokenDecoder, MediaConstants
  <1>13. CASE HandlePlay
    BY <1>13 DEF HandlePlay, HandleCommand
  <1>14. CASE HandlePause
    BY <1>14 DEF HandlePause, HandleCommand
  <1>15. CASE HandleTerminate
    BY <1>15 DEF HandleTerminate, HandleCommand, WokenDecoder
  <1>16. CASE HandleSeek
    BY <1>16 DEF HandleSeek, HandleCommand, WokenDecoder
  <1>17. CASE SeekSucceeds
    BY <1>17 DEF SeekSucceeds, SeekClears, DecoderJoined
  <1>18. CASE SeekFails
    BY <1>18 DEF SeekFails, SeekClears, DecoderJoined
  <1>19. CASE PresenterLeaves
    BY <1>19 DEF PresenterLeaves
  <1>20. CASE CommandReturns
    BY <1>20 DEF CommandReturns
  <1>21. CASE DisposeJoins
    BY <1>21 DEF DisposeJoins
  <1>22. CASE HostDrain
    <2>1. Len(presentQueue') <= PresentMax
      BY <1>22, MediaConstants DEF HostDrain, StillFull, MediaConstants
    <2> QED BY <1>22, <2>1 DEF HostDrain, StillFull
  <1>23. CASE HostDeliver
    BY <1>23 DEF HostDeliver
  <1>24. CASE Play
    BY <1>24 DEF Play
  <1>25. CASE Pause
    BY <1>25 DEF Pause
  <1>26. CASE SeekTo
    BY <1>26 DEF SeekTo
  <1>27. CASE Dispose
    BY <1>27 DEF Dispose
  <1>28. CASE UNCHANGED vars
    BY <1>28 DEF vars
  <1> QED
    BY <1>1, <1>2, <1>3, <1>4, <1>5, <1>6, <1>7, <1>8, <1>9, <1>10,
       <1>11, <1>12, <1>13, <1>14, <1>15, <1>16, <1>17, <1>18, <1>19, <1>20,
       <1>21, <1>22, <1>23, <1>24, <1>25, <1>26, <1>27, <1>28
       DEF Next, DecoderStep, PresenterStep, HostStep

(* An error_or_eof request may stand anywhere in the present queue. *)
LEMMA AppendEndBounded ==
    ASSUME TypeFrames, QueueBounds
    PROVE  \A i \in DOMAIN Append(presentQueue, EndRequest) :
               Append(presentQueue, EndRequest)[i] # EndRequest => i <= PresentMax + 1
  <1>1. presentQueue \in Seq(Frames \cup {EndRequest})
    BY DEF TypeFrames
  <1>2. \A i \in DOMAIN Append(presentQueue, EndRequest) :
            \/ i \in DOMAIN presentQueue /\ Append(presentQueue, EndRequest)[i] = presentQueue[i]
            \/ Append(presentQueue, EndRequest)[i] = EndRequest
    BY <1>1
  <1> QED BY <1>2 DEF QueueBounds

(* Every step keeps QueueBounds. *)
LEMMA QueueBoundsStep ==
    ASSUME TypeControl, TypeFrames, TypeFrames', FramesHeld, RoomKept, QueueBounds, [Next]_vars
    PROVE  QueueBounds'
  <1> USE DEF QueueBounds
  <1>1. CASE DecoderCheck
    BY <1>1 DEF DecoderCheck
  <1>2. CASE DecoderDecode
    BY <1>2 DEF DecoderDecode, FramesLeft
  <1>3. CASE DecoderEnd
    BY <1>3 DEF DecoderEnd
  <1>4. CASE DecoderPush
    <2>1. /\ Len(audioQueue) < AudioMax /\ Len(videoQueue) < VideoMax
          /\ audioQueue \in Seq(Frames) /\ videoQueue \in Seq(Frames)
      BY <1>4 DEF DecoderPush, RoomKept, Room, TypeFrames
    <2>2. /\ Len(Append(audioQueue, decoded)) = Len(audioQueue) + 1
          /\ Len(Append(videoQueue, decoded)) = Len(videoQueue) + 1
          /\ Len(audioQueue) \in Nat /\ Len(videoQueue) \in Nat
      BY <2>1
    <2>3. Len(audioQueue) + 1 <= AudioMax /\ Len(videoQueue) + 1 <= VideoMax
      BY <2>1, <2>2, MediaConstants DEF MediaConstants
    <2> QED BY <1>4, <2>1, <2>2, <2>3 DEF DecoderPush
  <1>5. CASE TimerExpires
    BY <1>5 DEF TimerExpires
  <1>6. CASE SendBlocked
    BY <1>6 DEF SendBlocked
  <1>7. CASE SendFrame
    <2>1. Len(presentQueue) \in Nat /\ Len(presentQueue) <= PresentMax
      BY <1>7 DEF SendFrame, RoomKept, TypeFrames
    <2>2. presentQueue \in Seq(Frames \cup {EndRequest})
      BY DEF TypeFrames
    <2>3. DOMAIN Append(presentQueue, lastFrame) = 1 .. Len(presentQueue) + 1
      BY <2>2
    <2>4. \A i \in 1 .. Len(presentQueue) + 1 : i <= PresentMax + 1
      BY <2>1, MediaConstants DEF MediaConstants
    <2> QED BY <1>7, <2>3, <2>4 DEF SendFrame
  <1>8. CASE Compensate
    BY <1>8 DEF Compensate
  <1>9. CASE TakeEnd
    <2>1. \A i \in DOMAIN Append(presentQueue, EndRequest) :
              Append(presentQueue, EndRequest)[i] # EndRequest => i <= PresentMax + 1
      BY AppendEndBounded
    <2> QED BY <1>9, <2>1 DEF TakeEnd
  <1>10. CASE TakeVideo
    <2>1. /\ FreshVideo \in Seq(Frames) /\ Len(FreshVideo) <= Len(videoQueue)
          /\ Len(videoQueue) \in Nat /\ Len(audioQueue) \in Nat
      BY FreshVideoPart DEF TypeFrames
    <2>2. FreshVideo # <<>>
      BY <1>10 DEF TakeVideo, VideoFirst
    <2>3. Len(videoQueue') <= Len(videoQueue) /\ Len(audioQueue') = Len(audioQueue)
      BY <1>10, <2>1, <2>2 DEF TakeVideo
    <2>4. presentQueue' = presentQueue /\ Len(videoQueue') \in Nat /\ Len(audioQueue') \in Nat
      BY <1>10 DEF TakeVideo, TakeAndRearm, TypeFrames
    <2> QED BY <2>1, <2>3, <2>4, MediaConstants DEF MediaConstants
  <1>11. CASE TakeAudio
    <2>1. /\ FreshVideo \in Seq(Frames) /\ Len(FreshVideo) <= Len(videoQueue)
          /\ Len(videoQueue) \in Nat /\ Len(audioQueue) \in Nat
      BY FreshVideoPart DEF TypeFrames
    <2>2. audioQueue \in Seq(Frames) /\ audioQueue # <<>>
      BY <1>11 DEF TakeAudio, TypeFrames
    <2>3. Len(videoQueue') <= Len(videoQueue) /\ Len(audioQueue') <= Len(audioQueue)
      BY <1>11, <2>1, <2>2 DEF TakeAudio
    <2>4. presentQueue' = presentQueue /\ Len(videoQueue') \in Nat /\ Len(audioQueue') \in Nat
      BY <1>11 DEF TakeAudio, TakeAndRearm, TypeFrames
    <2> QED BY <2>1, <2>3, <2>4, MediaConstants DEF MediaConstants
  <1>12. CASE TakeNothing
    <2>1. /\ FreshVideo \in Seq(Frames) /\ Len(FreshVideo) <= Len(videoQueue)
          /\ Len(videoQueue) \in Nat /\ Len(audioQueue) \in Nat
      BY FreshVideoPart DEF TypeFrames
    <2>3. Len(videoQueue') <= Len(videoQueue) /\ Len(audioQueue') = Len(audioQueue)
      BY <1>12, <2>1 DEF TakeNothing
    <2>4. presentQueue' = presentQueue /\ Len(videoQueue') \in Nat /\ Len(audioQueue') \in Nat
      BY <1>12 DEF TakeNothing, TakeAndRearm, TypeFrames
    <2> QED BY <2>1, <2>3, <2>4, MediaConstants DEF MediaConstants
  <1>13. CASE HandlePlay
    BY <1>13 DEF HandlePlay, HandleCommand
  <1>14. CASE HandlePause
    BY <1>14 DEF HandlePause, HandleCommand
  <1>15. CASE HandleTerminate
    BY <1>15 DEF HandleTerminate, HandleCommand, WokenDecoder
  <1>16. CASE HandleSeek
    BY <1>16 DEF HandleSeek, HandleCommand, WokenDecoder
  <1>17. CASE SeekSucceeds
    <2>1. audioQueue' = <<>> /\ videoQueue' = <<>> /\ presentQueue' = presentQueue
      BY <1>17 DEF SeekSucceeds, SeekClears, DecoderJoined
    <2> QED BY <2>1, MediaConstants DEF MediaConstants
  <1>18. CASE SeekFails
    <2>1. \A i \in DOMAIN Append(presentQueue, EndRequest) :
              Append(presentQueue, EndRequest)[i] # EndRequest => i <= PresentMax + 1
      BY AppendEndBounded
    <2>2. /\ audioQueue' = <<>> /\ videoQueue' = <<>>
          /\ presentQueue' = Append(presentQueue, EndRequest)
      BY <1>18 DEF SeekFails, SeekClears, DecoderJoined
    <2>3. 0 <= AudioMax /\ 0 <= VideoMax
      BY MediaConstants DEF MediaConstants
    <2> QED BY <2>1, <2>2, <2>3
  <1>19. CASE PresenterLeaves
    BY <1>19 DEF PresenterLeaves
  <1>20. CASE CommandReturns
    BY <1>20 DEF CommandReturns
  <1>21. CASE DisposeJoins
    BY <1>21 DEF DisposeJoins
  <1>22. CASE HostDrain
    <2>1. presentQueue' = <<>> /\ audioQueue' = audioQueue /\ videoQueue' = videoQueue
      BY <1>22 DEF HostDrain, StillFull
    <2> QED BY <2>1
  <1>23. CASE HostDeliver
    BY <1>23 DEF HostDeliver
  <1>24. CASE Play
    BY <1>24 DEF Play
  <1>25. CASE Pause
    BY <1>25 DEF Pause
  <1>26. CASE SeekTo
    BY <1>26 DEF SeekTo
  <1>27. CASE Dispose
    BY <1>27 DEF Dispose
  <1>28. CASE UNCHANGED vars
    BY <1>28 DEF vars
  <1> QED
    BY <1>1, <1>2, <1>3, <1>4, <1>5, <1>6, <1>7, <1>8, <1>9, <1>10,
       <1>11, <1>12, <1>13, <1>14, <1>15, <1>16, <1>17, <1>18, <1>19, <1>20,
       <1>21, <1>22, <1>23, <1>24, <1>25, <1>26, <1>27, <1>28
       DEF Next, DecoderStep, PresenterStep, HostStep

(* Every step keeps NoStaleFrame: a seek waits for the decoding thread and clears what it left. *)
LEMMA NoStaleFrameStep ==
    ASSUME TypeControl, TypeFrames, FramesHeld, NoStaleFrame, [Next]_vars
    PROVE  NoStaleFrame'
  <1> USE DEF NoStaleFrame
  <1>1. CASE DecoderCheck
    BY <1>1 DEF DecoderCheck
  <1>2. CASE DecoderDecode
    BY <1>2 DEF DecoderDecode, FramesLeft
  <1>3. CASE DecoderEnd
    BY <1>3 DEF DecoderEnd
  <1>4. CASE DecoderPush
    <2>1. decoded.epoch = epoch
      BY <1>4 DEF DecoderPush, FramesHeld
    <2>2. /\ \A i \in DOMAIN Append(audioQueue, decoded) : Append(audioQueue, decoded)[i].epoch = epoch
          /\ \A i \in DOMAIN Append(videoQueue, decoded) : Append(videoQueue, decoded)[i].epoch = epoch
      BY <2>1 DEF TypeFrames
    <2> QED BY <1>4, <2>2 DEF DecoderPush
  <1>5. CASE TimerExpires
    BY <1>5 DEF TimerExpires
  <1>6. CASE SendBlocked
    BY <1>6 DEF SendBlocked
  <1>7. CASE SendFrame
    BY <1>7 DEF SendFrame
  <1>8. CASE Compensate
    BY <1>8 DEF Compensate
  <1>9. CASE TakeEnd
    BY <1>9 DEF TakeEnd
  <1>10. CASE TakeVideo
    <2>1. /\ FreshVideo \in Seq(Frames)
          /\ \A i \in DOMAIN FreshVideo : FreshVideo[i].epoch = epoch
      BY FreshVideoPart
    <2>2. FreshVideo # <<>>
      BY <1>10 DEF TakeVideo, VideoFirst
    <2>3. Head(FreshVideo).epoch = epoch
      BY <2>1, <2>2
    <2>4. \A i \in DOMAIN Tail(FreshVideo) : Tail(FreshVideo)[i].epoch = epoch
      BY <2>1, <2>2
    <2> QED BY <1>10, <2>3, <2>4 DEF TakeVideo, TakeAndRearm
  <1>11. CASE TakeAudio
    <2>1. /\ FreshVideo \in Seq(Frames)
          /\ \A i \in DOMAIN FreshVideo : FreshVideo[i].epoch = epoch
      BY FreshVideoPart
    <2>2. audioQueue \in Seq(Frames) /\ audioQueue # <<>>
      BY <1>11 DEF TakeAudio, TypeFrames
    <2>3. Head(audioQueue).epoch = epoch
      BY <2>2
    <2>4. \A i \in DOMAIN Tail(audioQueue) : Tail(audioQueue)[i].epoch = epoch
      BY <2>2
    <2> QED BY <1>11, <2>1, <2>3, <2>4 DEF TakeAudio, TakeAndRearm
  <1>12. CASE TakeNothing
    BY <1>12 DEF TakeNothing, TakeAndRearm, WokenDecoder
  <1>13. CASE HandlePlay
    BY <1>13 DEF HandlePlay, HandleCommand
  <1>14. CASE HandlePause
    BY <1>14 DEF HandlePause, HandleCommand
  <1>15. CASE HandleTerminate
    BY <1>15 DEF HandleTerminate, HandleCommand, WokenDecoder
  <1>16. CASE HandleSeek
    BY <1>16 DEF HandleSeek, HandleCommand, WokenDecoder
  <1>17. CASE SeekSucceeds
    <2>1. decoded = NoFrame
      BY <1>17 DEF SeekSucceeds, SeekClears, DecoderJoined, FramesHeld
    <2> QED BY <1>17, <2>1 DEF SeekSucceeds, SeekClears, DecoderJoined
  <1>18. CASE SeekFails
    <2>1. decoded = NoFrame
      BY <1>18 DEF SeekFails, SeekClears, DecoderJoined, FramesHeld
    <2> QED BY <1>18, <2>1 DEF SeekFails, SeekClears, DecoderJoined
  <1>19. CASE PresenterLeaves
    BY <1>19 DEF PresenterLeaves
  <1>20. CASE CommandReturns
    BY <1>20 DEF CommandReturns
  <1>21. CASE DisposeJoins
    BY <1>21 DEF DisposeJoins
  <1>22. CASE HostDrain
    BY <1>22 DEF HostDrain, StillFull
  <1>23. CASE HostDeliver
    BY <1>23 DEF HostDeliver
  <1>24. CASE Play
    BY <1>24 DEF Play
  <1>25. CASE Pause
    BY <1>25 DEF Pause
  <1>26. CASE SeekTo
    BY <1>26 DEF SeekTo
  <1>27. CASE Dispose
    BY <1>27 DEF Dispose
  <1>28. CASE UNCHANGED vars
    BY <1>28 DEF vars
  <1> QED
    BY <1>1, <1>2, <1>3, <1>4, <1>5, <1>6, <1>7, <1>8, <1>9, <1>10,
       <1>11, <1>12, <1>13, <1>14, <1>15, <1>16, <1>17, <1>18, <1>19, <1>20,
       <1>21, <1>22, <1>23, <1>24, <1>25, <1>26, <1>27, <1>28
       DEF Next, DecoderStep, PresenterStep, HostStep

(* Every step keeps BlockedWhileFull: whoever empties the present queue passes the checkpoint. *)
LEMMA BlockedStep ==
    ASSUME TypeControl, TypeFlags, TypeFrames, BlockedWhileFull, [Next]_vars
    PROVE  BlockedWhileFull'
  <1> USE DEF BlockedWhileFull
  <1>1. CASE DecoderCheck
    BY <1>1 DEF DecoderCheck
  <1>2. CASE DecoderDecode
    BY <1>2 DEF DecoderDecode, FramesLeft
  <1>3. CASE DecoderEnd
    BY <1>3 DEF DecoderEnd
  <1>4. CASE DecoderPush
    BY <1>4 DEF DecoderPush
  <1>5. CASE TimerExpires
    BY <1>5 DEF TimerExpires
  <1>6. CASE SendBlocked
    BY <1>6 DEF SendBlocked
  <1>7. CASE SendFrame
    BY <1>7 DEF SendFrame
  <1>8. CASE Compensate
    BY <1>8 DEF Compensate
  <1>9. CASE TakeEnd
    BY <1>9 DEF TakeEnd
  <1>10. CASE TakeVideo
    BY <1>10 DEF TakeVideo, TakeAndRearm, WokenDecoder
  <1>11. CASE TakeAudio
    BY <1>11 DEF TakeAudio, TakeAndRearm, WokenDecoder
  <1>12. CASE TakeNothing
    BY <1>12 DEF TakeNothing, TakeAndRearm, WokenDecoder
  <1>13. CASE HandlePlay
    BY <1>13 DEF HandlePlay, HandleCommand
  <1>14. CASE HandlePause
    BY <1>14 DEF HandlePause, HandleCommand
  <1>15. CASE HandleTerminate
    BY <1>15 DEF HandleTerminate, HandleCommand, WokenDecoder
  <1>16. CASE HandleSeek
    BY <1>16 DEF HandleSeek, HandleCommand, WokenDecoder
  <1>17. CASE SeekSucceeds
    BY <1>17 DEF SeekSucceeds, SeekClears, DecoderJoined
  <1>18. CASE SeekFails
    BY <1>18 DEF SeekFails, SeekClears, DecoderJoined
  <1>19. CASE PresenterLeaves
    BY <1>19 DEF PresenterLeaves
  <1>20. CASE CommandReturns
    BY <1>20 DEF CommandReturns
  <1>21. CASE DisposeJoins
    BY <1>21 DEF DisposeJoins
  <1>22. CASE HostDrain
    <2>1. CASE Len(presentQueue) - TakenCount > PresentMax
      BY <1>22, <2>1 DEF HostDrain, StillFull
    <2>2. CASE ~(Len(presentQueue) - TakenCount > PresentMax)
      BY <1>22, <2>2 DEF HostDrain, StillFull
    <2> QED BY <2>1, <2>2
  <1>23. CASE HostDeliver
    BY <1>23 DEF HostDeliver
  <1>24. CASE Play
    BY <1>24 DEF Play
  <1>25. CASE Pause
    BY <1>25 DEF Pause
  <1>26. CASE SeekTo
    BY <1>26 DEF SeekTo
  <1>27. CASE Dispose
    BY <1>27 DEF Dispose
  <1>28. CASE UNCHANGED vars
    BY <1>28 DEF vars
  <1> QED
    BY <1>1, <1>2, <1>3, <1>4, <1>5, <1>6, <1>7, <1>8, <1>9, <1>10,
       <1>11, <1>12, <1>13, <1>14, <1>15, <1>16, <1>17, <1>18, <1>19, <1>20,
       <1>21, <1>22, <1>23, <1>24, <1>25, <1>26, <1>27, <1>28
       DEF Next, DecoderStep, PresenterStep, HostStep

(* The initial state and every step keep the inductive invariant and         *)
(* BlockedWhileFull with it.                                                 *)
LEMMA MediaInductive == Spec => [](IndInv /\ BlockedWhileFull)
  <1>1. Init => IndInv /\ BlockedWhileFull
    BY InitHolds
  <1>2. IndInv /\ BlockedWhileFull /\ [Next]_vars => (IndInv /\ BlockedWhileFull)'
    <2> SUFFICES ASSUME IndInv, BlockedWhileFull, [Next]_vars
                 PROVE  IndInv' /\ BlockedWhileFull'
      OBVIOUS
    <2>1. /\ TypeControl /\ TypeFlags /\ TypeFrames
          /\ FramesHeld /\ RoomKept /\ QueueBounds /\ NoStaleFrame
      BY DEF IndInv, TypeOK
    <2>2. TypeControl'
      BY <2>1, ControlStep
    <2>3. TypeFlags'
      BY <2>1, FlagsStep
    <2>4. TypeFrames'
      BY <2>1, FramesStep
    <2>5. FramesHeld'
      BY <2>1, FramesHeldStep
    <2>6. RoomKept'
      BY <2>1, <2>4, RoomKeptStep
    <2>7. QueueBounds'
      BY <2>1, <2>4, QueueBoundsStep
    <2>8. NoStaleFrame'
      BY <2>1, NoStaleFrameStep
    <2>9. BlockedWhileFull'
      BY <2>1, BlockedStep
    <2> QED BY <2>2, <2>3, <2>4, <2>5, <2>6, <2>7, <2>8, <2>9 DEF IndInv, TypeOK
  <1> QED BY <1>1, <1>2, PTL DEF Spec

(* Every behaviour of the dispatcher keeps its type invariant. *)
THEOREM MediaTypeCorrect == Spec => []TypeOK
  <1>1. IndInv => TypeOK
    BY DEF IndInv
  <1> QED BY <1>1, MediaInductive, PTL

(* No queue outgrows its limit: the decoding thread tests both queues, works *)
(* without the lock and pushes, the presentation thread waits and appends.   *)
THEOREM MediaQueuesBounded == Spec => []QueueBounds
  <1>1. IndInv => QueueBounds
    BY DEF IndInv
  <1> QED BY <1>1, MediaInductive, PTL

(* After a seek, nothing decoded before it is left in a queue or in a        *)
(* thread's hands, whatever the decoding thread was doing.                   *)
THEOREM MediaNothingStale == Spec => []NoStaleFrame
  <1>1. IndInv => NoStaleFrame
    BY DEF IndInv
  <1> QED BY <1>1, MediaInductive, PTL

(* The presentation thread's sleep in its checkpoint ends with the queue's   *)
(* excess, unless failed seeks fill the queue behind an error_or_eof.        *)
THEOREM MediaNoLostWakeup == Spec => []BlockedWhileFull
  <1> QED BY MediaInductive, PTL

-------------------------------------------------------------------------------
(* The audio frames between the decoder and the sink.                        *)

(* Each queue holds its kind, a frame is taken when none waits to be sent,   *)
(* and no seek has been handled before its time.                             *)
KindsApart ==
    /\ \A i \in DOMAIN audioQueue : IsAudio(audioQueue[i])
    /\ \A i \in DOMAIN videoQueue : Kind(videoQueue[i]) = "video"
    /\ presenterPC = "take" => lastFrame = NoFrame
    /\ lastSunk.epoch <= epoch

(* The audio frames of the epoch, without and with the one not yet pushed.   *)
Queued == {audioQueue[i] : i \in DOMAIN audioQueue}
Pushed == {f \in {lastSunk, lastFrame} \cup Queued : InFlow(f)}
Flow == Pushed \cup {f \in {decoded} : InFlow(f)}

(* They rise from the sink to the decoder's place in the file.               *)
FlowOrder ==
    /\ \A i, j \in DOMAIN audioQueue : i < j => audioQueue[i].at < audioQueue[j].at
    /\ \A f \in {lastSunk, lastFrame}, g \in Queued : InFlow(f) => f.at < g.at
    /\ InFlow(lastSunk) /\ InFlow(lastFrame) => lastSunk.at < lastFrame.at
    /\ decoded # NoFrame => decoded.at + 1 = position /\ \A f \in Pushed : f.at < decoded.at
    /\ \A f \in Pushed : f.at < position

(* Behind each of them, every audio frame that has been decoded is one too.  *)
FlowWhole ==
    \A f \in Flow, n \in 1 .. Len(Media) :
        f.at < n /\ n < position /\ Media[n].kind = "audio" => \E g \in Flow : g.at = n

(* The types of the frames that the sequences hold. *)
LEMMA QueueTypes ==
    ASSUME TypeFrames
    PROVE  /\ audioQueue \in Seq(Frames) /\ videoQueue \in Seq(Frames)
           /\ Len(audioQueue) \in Nat /\ DOMAIN audioQueue = 1 .. Len(audioQueue)
           /\ \A i \in DOMAIN audioQueue : audioQueue[i] \in Frames
           /\ \A i \in DOMAIN videoQueue : videoQueue[i] \in Frames
  BY DEF TypeFrames

(* The frames of the flow are frames of the file. *)
LEMMA FlowTypes ==
    ASSUME TypeFrames
    PROVE  /\ \A f \in Flow : f \in Frames /\ f.at \in Nat /\ f.epoch \in Nat
           /\ \A f \in Queued : f \in Frames /\ f.at \in Nat /\ f.epoch \in Nat
           /\ Len(Media) \in Nat /\ position \in Nat /\ epoch \in Nat
  <1>1. /\ Len(Media) \in Nat /\ epoch \in Nat
        /\ position \in 1 .. Len(Media) + 1
    BY MediaConstants DEF MediaConstants, TypeFrames
  <1>2. \A f \in Queued : f \in Frames
    BY QueueTypes DEF Queued
  <1>3. \A f \in Flow : f \in Frames
    BY <1>2 DEF Flow, Pushed, InFlow, IsAudio, TypeFrames
  <1>4. \A f \in Frames : f.at \in Nat /\ f.epoch \in Nat
    BY <1>1 DEF Frames
  <1> QED BY <1>1, <1>2, <1>3, <1>4

(* A set of the first indices that contains what precedes a member is an     *)
(* initial segment.                                                          *)
LEMMA InitialSegment ==
    ASSUME NEW m \in Nat, NEW T \in SUBSET (1 .. m), \A k \in T : 1 .. k \subseteq T
    PROVE  /\ Cardinality(T) \in Nat /\ Cardinality(T) <= m
           /\ T = 1 .. Cardinality(T)
  <1> DEFINE c == Cardinality(T)
  <1>1. c \in Nat /\ c <= m
    BY SubsetCount
  <1>2. ASSUME NEW k \in T PROVE k <= c
    <2>1. k \in Nat /\ IsFiniteSet(T) /\ 1 .. k \in SUBSET T
      <3>1. IsFiniteSet(1 .. m)
        BY FS_Interval
      <3>2. IsFiniteSet(T)
        BY <3>1, FS_Subset
      <3>3. k \in Nat /\ 1 .. k \subseteq T
        OBVIOUS
      <3> QED BY <3>2, <3>3
    <2>2. Cardinality(1 .. k) <= c
      BY <2>1, FS_Subset
    <2>3. Cardinality(1 .. k) = k
      BY <2>1, FS_Interval
    <2> QED BY <2>2, <2>3
  <1>3. ASSUME NEW k \in 1 .. c PROVE k \in T
    <2>1. SUFFICES ASSUME k \notin T PROVE FALSE
      OBVIOUS
    <2>2. k - 1 \in Nat /\ \A x \in T : x <= k - 1
      <3>1. ASSUME NEW x \in T PROVE x <= k - 1
        <4>1. x \in Nat /\ ~(k \in 1 .. x)
          BY <2>1
        <4> QED BY <1>1, <4>1
      <3> QED BY <1>1, <3>1
    <2>3. T \in SUBSET (1 .. (k - 1))
      BY <2>2
    <2>4. c <= k - 1
      BY <2>2, <2>3, SubsetCount
    <2> QED BY <1>1, <2>4
  <1>4. T = 1 .. c
    <2>1. \A k \in T : k \in 1 .. c
      <3>1. \A k \in T : k \in Nat /\ 1 <= k
        OBVIOUS
      <3> HIDE DEF c
      <3> QED BY <1>1, <1>2, <3>1
    <2>2. \A k \in 1 .. c : k \in T
      BY <1>3
    <2> HIDE DEF c
    <2> QED BY <2>1, <2>2
  <1> QED BY <1>1, <1>4

(* What is left of the video queue are video frames that begin with one that *)
(* is not older than the last frame.                                         *)
LEMMA FreshHead ==
    ASSUME TypeFrames, KindsApart, FreshVideo # <<>>
    PROVE  /\ Head(FreshVideo) \in Frames /\ Kind(Head(FreshVideo)) = "video"
           /\ lastPts <= Pts(Head(FreshVideo))
  <1> DEFINE old == {k \in DOMAIN videoQueue : \A i \in 1 .. k : Pts(videoQueue[i]) < lastPts}
             n == Cardinality(old)
             m == Len(videoQueue)
  <1>1. /\ videoQueue \in Seq(Frames) /\ m \in Nat /\ DOMAIN videoQueue = 1 .. m
        /\ lastPts \in Nat
    BY DEF TypeFrames
  <1>2. n \in Nat /\ n <= m /\ old = 1 .. n
    <2>1. old \in SUBSET (1 .. m)
      BY <1>1
    <2>2. \A k \in old : 1 .. k \subseteq old
      BY <1>1
    <2> HIDE DEF old, m
    <2> QED BY <1>1, <2>1, <2>2, InitialSegment
  <1>3. FreshVideo = SubSeq(videoQueue, n + 1, m)
    BY DEF FreshVideo
  <1>4. n + 1 \in 1 .. m /\ n + 1 \notin old
    <2> HIDE DEF old, n
    <2>1. n < m
      BY <1>1, <1>2, <1>3
    <2> QED BY <1>1, <1>2, <2>1
  <1>5. Head(FreshVideo) = videoQueue[n + 1]
    <2> HIDE DEF n
    <2> QED BY <1>1, <1>2, <1>3, <1>4
  <1>6. ~(Pts(videoQueue[n + 1]) < lastPts)
    <2>1. \A i \in 1 .. n : Pts(videoQueue[i]) < lastPts
      BY <1>2
    <2>2. PICK i \in 1 .. n + 1 : ~(Pts(videoQueue[i]) < lastPts)
      BY <1>1, <1>4
    <2> HIDE DEF n
    <2>3. i = n + 1
      BY <1>2, <2>1, <2>2
    <2> QED BY <2>2, <2>3
  <1> HIDE DEF n
  <1>7. videoQueue[n + 1] \in Frames /\ Kind(videoQueue[n + 1]) = "video"
    BY <1>1, <1>4 DEF KindsApart
  <1>8. Pts(videoQueue[n + 1]) \in Nat
    BY <1>7, PtsType
  <1> QED BY <1>1, <1>5, <1>6, <1>7, <1>8

(* Only these variables matter to the flow. *)
LEMMA FlowKept ==
    ASSUME FlowOrder, FlowWhole,
           UNCHANGED <<lastSunk, lastFrame, audioQueue, decoded, position, epoch>>
    PROVE  FlowOrder' /\ FlowWhole'
  BY DEF FlowOrder, FlowWhole, Flow, Pushed, Queued, InFlow

(* A step that only moves the frames of the flow. *)
LEMMA FlowMoves ==
    ASSUME FlowWhole, Flow' = Flow, UNCHANGED position
    PROVE  FlowWhole'
  BY DEF FlowWhole

(* The decoder's next frame follows all the others. *)
LEMMA FlowDecode ==
    ASSUME TypeFrames, FramesHeld, FlowOrder, FlowWhole, DecoderDecode
    PROVE  FlowOrder' /\ FlowWhole'
  <1>1. /\ decoded = NoFrame
        /\ UNCHANGED <<lastSunk, lastFrame, audioQueue, epoch>>
        /\ decoded' = [at |-> position, epoch |-> epoch] /\ position' = position + 1
    BY DEF DecoderDecode, FramesHeld
  <1>2. Queued' = Queued /\ Pushed' = Pushed /\ Flow = Pushed
    BY <1>1 DEF Queued, Pushed, Flow, InFlow, IsAudio
  <1>3. /\ \A f \in Pushed : f.at \in Nat /\ f.at < position
        /\ position \in Nat /\ decoded'.at = position /\ decoded'.epoch = epoch'
    BY <1>1, <1>2, FlowTypes DEF FlowOrder
  <1>4. FlowOrder'
    <2>1. \A i, j \in DOMAIN audioQueue' : i < j => audioQueue'[i].at < audioQueue'[j].at
      BY <1>1 DEF FlowOrder
    <2>2. \A f \in {lastSunk', lastFrame'}, g \in Queued' : InFlow(f)' => f.at < g.at
      BY <1>1, <1>2 DEF FlowOrder, InFlow
    <2>3. InFlow(lastSunk)' /\ InFlow(lastFrame)' => lastSunk'.at < lastFrame'.at
      BY <1>1 DEF FlowOrder, InFlow
    <2>4. decoded'.at + 1 = position' /\ \A f \in Pushed' : f.at < decoded'.at /\ f.at < position'
      BY <1>1, <1>2, <1>3
    <2> QED BY <2>1, <2>2, <2>3, <2>4 DEF FlowOrder
  <1>5. FlowWhole'
    <2> SUFFICES ASSUME NEW f \in Flow', NEW n \in 1 .. Len(Media), f.at < n, n < position',
                        Media[n].kind = "audio"
                 PROVE  \E g \in Flow' : g.at = n
      BY DEF FlowWhole
    <2>1. CASE n = position
      <3>1. InFlow(decoded)'
        <4>1. decoded'.at # NoFrame.at
          BY <1>3, <2>1 DEF NoFrame
        <4> QED BY <1>3, <2>1, <4>1 DEF InFlow, IsAudio, Kind
      <3> QED BY <1>3, <2>1, <3>1 DEF Flow
    <2>2. CASE n # position
      <3>1. n < position
        BY <1>1, <1>3, <2>2
      <3>2. f \in Flow
        <4>1. f # decoded'
          BY <1>3, <3>1
        <4> QED BY <1>2, <4>1 DEF Flow
      <3>3. PICK g \in Flow : g.at = n
        BY <3>1, <3>2 DEF FlowWhole
      <3> QED BY <1>2, <3>3 DEF Flow
    <2> QED BY <2>1, <2>2
  <1> QED BY <1>4, <1>5

(* Pushing moves an audio frame to the end of its queue. *)
LEMMA FlowPush ==
    ASSUME TypeFrames, FramesHeld, NoStaleFrame, KindsApart, FlowOrder, FlowWhole, DecoderPush
    PROVE  FlowOrder' /\ FlowWhole'
  <1>1. /\ decoded # NoFrame /\ decoded \in Frames /\ decoded' = NoFrame
        /\ UNCHANGED <<lastSunk, lastFrame, position, epoch>>
    BY DEF DecoderPush, FramesHeld, TypeFrames
  <1>2. CASE Kind(decoded) = "audio"
    <2>1. audioQueue' = Append(audioQueue, decoded) /\ InFlow(decoded)
      BY <1>1, <1>2 DEF DecoderPush, InFlow, IsAudio, NoStaleFrame
    <2>2. /\ DOMAIN audioQueue' = DOMAIN audioQueue \cup {Len(audioQueue) + 1}
          /\ \A i \in DOMAIN audioQueue : audioQueue'[i] = audioQueue[i]
          /\ audioQueue'[Len(audioQueue) + 1] = decoded
          /\ Len(audioQueue) \in Nat /\ DOMAIN audioQueue = 1 .. Len(audioQueue)
      BY <1>1, <2>1, QueueTypes
    <2>3. Queued' = Queued \cup {decoded}
      BY <2>2 DEF Queued
    <2>4. Pushed' = Pushed \cup {decoded}
      BY <1>1, <2>1, <2>3 DEF Pushed, InFlow
    <2>5. Flow = Pushed \cup {decoded} /\ Flow' = Pushed'
      BY <1>1, <2>1 DEF Flow, InFlow, IsAudio
    <2>6. /\ \A f \in Pushed : f.at < decoded.at /\ f.at < position
          /\ decoded.at + 1 = position /\ decoded.at \in Nat
      BY <1>1, <2>5, FlowTypes DEF FlowOrder
    <2>7. \A i \in DOMAIN audioQueue : audioQueue[i] \in Pushed
      BY DEF Pushed, Queued, InFlow, KindsApart, NoStaleFrame
    <2>8. FlowOrder'
      <3>1. ASSUME NEW i \in DOMAIN audioQueue', NEW j \in DOMAIN audioQueue', i < j
            PROVE  audioQueue'[i].at < audioQueue'[j].at
        <4>1. i \in DOMAIN audioQueue
          BY <2>2, <3>1
        <4>2. CASE j \in DOMAIN audioQueue
          BY <2>2, <3>1, <4>1, <4>2 DEF FlowOrder
        <4>3. CASE j = Len(audioQueue) + 1
          BY <2>2, <2>6, <2>7, <4>1, <4>3
        <4> QED BY <2>2, <4>2, <4>3
      <3>2. ASSUME NEW f \in {lastSunk', lastFrame'}, NEW g \in Queued', InFlow(f)'
            PROVE  f.at < g.at
        <4>1. f \in Pushed /\ InFlow(f)
          BY <1>1, <3>2 DEF Pushed, InFlow
        <4> QED BY <1>1, <2>3, <2>6, <4>1 DEF FlowOrder
      <3>3. InFlow(lastSunk)' /\ InFlow(lastFrame)' => lastSunk'.at < lastFrame'.at
        BY <1>1 DEF FlowOrder, InFlow
      <3>4. \A f \in Pushed' : f.at < position'
        BY <1>1, <2>4, <2>6
      <3> QED BY <1>1, <3>1, <3>2, <3>3, <3>4 DEF FlowOrder
    <2> QED BY <1>1, <2>4, <2>5, <2>8, FlowMoves
  <1>3. CASE Kind(decoded) # "audio"
    <2>1. UNCHANGED audioQueue /\ ~InFlow(decoded)
      BY <1>3 DEF DecoderPush, InFlow, IsAudio
    <2>2. Queued' = Queued /\ Pushed' = Pushed
      BY <1>1, <2>1 DEF Queued, Pushed, InFlow
    <2>3. Flow' = Flow
      BY <1>1, <2>1, <2>2 DEF Flow, InFlow, IsAudio
    <2>4. FlowOrder'
      BY <1>1, <2>1, <2>2 DEF FlowOrder, InFlow
    <2> QED BY <1>1, <2>3, <2>4, FlowMoves
  <1> QED BY <1>2, <1>3

(* Sending hands the first frame of the flow to the sink. *)
LEMMA FlowSend ==
    ASSUME TypeFrames, FramesHeld, NoStaleFrame, KindsApart, FlowOrder, FlowWhole, SendFrame
    PROVE  FlowOrder' /\ FlowWhole'
  <1>1. /\ lastFrame # NoFrame /\ lastFrame' = NoFrame
        /\ UNCHANGED <<audioQueue, decoded, position, epoch>>
        /\ lastSunk' = IF Kind(lastFrame) = "audio" THEN lastFrame ELSE lastSunk
    BY DEF SendFrame, FramesHeld
  <1>2. Queued' = Queued /\ ~InFlow(lastFrame)'
    BY <1>1 DEF Queued, InFlow, IsAudio
  <1>3. CASE Kind(lastFrame) = "audio"
    <2>1. lastSunk' = lastFrame /\ InFlow(lastFrame)
      BY <1>1, <1>3 DEF InFlow, IsAudio, NoStaleFrame
    <2>2. Pushed' = Pushed \ {f \in {lastSunk} : f # lastFrame /\ f \notin Queued}
      BY <1>1, <1>2, <2>1 DEF Pushed, InFlow, IsAudio
    <2>3. \A f \in Pushed' : f \in Pushed
      BY <2>2
    <2>4. FlowOrder'
      <3>1. \A f \in {lastSunk', lastFrame'}, g \in Queued' : InFlow(f)' => f.at < g.at
        BY <1>1, <1>2, <2>1 DEF FlowOrder, InFlow
      <3> QED BY <1>1, <1>2, <2>3, <3>1 DEF FlowOrder
    <2>5. FlowWhole'
      <3> SUFFICES ASSUME NEW f \in Flow', NEW n \in 1 .. Len(Media), f.at < n, n < position',
                          Media[n].kind = "audio"
                   PROVE  \E g \in Flow' : g.at = n
        BY DEF FlowWhole
      <3>1. f \in Flow
        BY <1>1, <2>3 DEF Flow, InFlow
      <3>2. lastFrame.at \in Nat /\ f.at \in Nat /\ lastFrame \in Pushed
        BY <2>1, <3>1, FlowTypes DEF Pushed, Flow
      <3>3. lastFrame.at <= f.at
        <4>1. CASE f = decoded
          <5>1. decoded # NoFrame
            BY <3>1, <4>1 DEF Flow, Pushed, InFlow, IsAudio
          <5>2. lastFrame.at < decoded.at
            BY <3>2, <5>1 DEF FlowOrder
          <5> QED BY <3>2, <4>1, <5>2
        <4>2. CASE f \in Queued
          BY <2>1, <3>2, <4>2 DEF FlowOrder
        <4>3. CASE f = lastFrame
          BY <3>2, <4>3
        <4>4. f \in {lastSunk', lastFrame', decoded'} \cup Queued' /\ f # NoFrame
          BY DEF Flow, Pushed, InFlow, IsAudio
        <4> QED BY <1>1, <1>2, <2>1, <4>1, <4>2, <4>3, <4>4
      <3>4. PICK g \in Flow : g.at = n
        BY <1>1, <3>1 DEF FlowWhole
      <3>5. g # lastSunk
        <4>1. CASE InFlow(lastSunk)
          <5>1. lastSunk.at < lastFrame.at /\ lastSunk.at \in Nat
            BY <2>1, <4>1, FlowTypes DEF FlowOrder, Flow, Pushed
          <5> QED BY <3>2, <3>3, <3>4, <5>1
        <4>2. CASE ~InFlow(lastSunk)
          BY <3>4, <4>2 DEF Flow, Pushed
        <4> QED BY <4>1, <4>2
      <3>6. g \in Flow'
        BY <1>1, <2>2, <3>4, <3>5 DEF Flow, InFlow
      <3> QED BY <3>4, <3>6
    <2> QED BY <2>4, <2>5
  <1>4. CASE Kind(lastFrame) # "audio"
    <2>1. lastSunk' = lastSunk /\ ~InFlow(lastFrame)
      BY <1>1, <1>4 DEF InFlow, IsAudio
    <2>2. Pushed' = Pushed
      BY <1>1, <1>2, <2>1 DEF Pushed, InFlow, IsAudio
    <2>3. Flow' = Flow
      BY <1>1, <2>2 DEF Flow, InFlow
    <2>4. FlowOrder'
      <3>1. \A f \in {lastSunk', lastFrame'}, g \in Queued' : InFlow(f)' => f.at < g.at
        BY <1>1, <1>2, <2>1 DEF FlowOrder, InFlow
      <3> QED BY <1>1, <1>2, <2>2, <3>1 DEF FlowOrder
    <2> QED BY <1>1, <2>3, <2>4, FlowMoves
  <1> QED BY <1>3, <1>4

(* Taking moves the head of the audio queue. *)
LEMMA FlowTakeAudio ==
    ASSUME TypeFrames, NoStaleFrame, KindsApart, FlowOrder, FlowWhole, TakeAudio
    PROVE  FlowOrder' /\ FlowWhole'
  <1>1. /\ lastFrame = NoFrame /\ audioQueue # <<>>
        /\ lastFrame' = Head(audioQueue) /\ audioQueue' = Tail(audioQueue)
        /\ UNCHANGED <<lastSunk, decoded, position, epoch>>
    BY DEF TakeAudio, TakeAndRearm, KindsApart
  <1>2. /\ Len(audioQueue) \in Nat /\ DOMAIN audioQueue = 1 .. Len(audioQueue)
        /\ 1 \in DOMAIN audioQueue /\ Head(audioQueue) = audioQueue[1]
        /\ DOMAIN Tail(audioQueue) = 1 .. Len(audioQueue) - 1
        /\ \A i \in 1 .. Len(audioQueue) - 1 : Tail(audioQueue)[i] = audioQueue[i + 1]
    BY <1>1, QueueTypes
  <1>3. Queued = {Head(audioQueue)} \cup Queued'
    <2>1. \A i \in DOMAIN audioQueue : i = 1 \/ (i - 1 \in 1 .. Len(audioQueue) - 1 /\ i = (i - 1) + 1)
      BY <1>2
    <2>2. \A i \in 1 .. Len(audioQueue) - 1 : i + 1 \in DOMAIN audioQueue
      BY <1>2
    <2> QED BY <1>1, <1>2, <2>1, <2>2 DEF Queued
  <1>4. Pushed' = Pushed
    <2>1. InFlow(Head(audioQueue)) /\ ~InFlow(NoFrame)
      BY <1>2 DEF InFlow, IsAudio, KindsApart, NoStaleFrame
    <2> QED BY <1>1, <1>3, <2>1 DEF Pushed, InFlow
  <1>5. Flow' = Flow
    BY <1>1, <1>4 DEF Flow, InFlow
  <1>6. FlowOrder'
    <2>1. ASSUME NEW i \in DOMAIN audioQueue', NEW j \in DOMAIN audioQueue', i < j
          PROVE  audioQueue'[i].at < audioQueue'[j].at
      <3>1. /\ i + 1 \in DOMAIN audioQueue /\ j + 1 \in DOMAIN audioQueue /\ i + 1 < j + 1
            /\ audioQueue'[i] = audioQueue[i + 1] /\ audioQueue'[j] = audioQueue[j + 1]
        BY <1>1, <1>2, <2>1
      <3> QED BY <3>1 DEF FlowOrder
    <2>2. \A g \in Queued' : Head(audioQueue).at < g.at
      <3>1. ASSUME NEW i \in DOMAIN audioQueue' PROVE Head(audioQueue).at < audioQueue'[i].at
        <4>1. /\ i + 1 \in DOMAIN audioQueue /\ 1 < i + 1
              /\ audioQueue'[i] = audioQueue[i + 1]
          BY <1>1, <1>2, <3>1
        <4> QED BY <1>2, <4>1 DEF FlowOrder
      <3> QED BY <3>1 DEF Queued
    <2>3. \A f \in {lastSunk', lastFrame'}, g \in Queued' : InFlow(f)' => f.at < g.at
      BY <1>1, <1>3, <2>2 DEF FlowOrder, InFlow
    <2>4. InFlow(lastSunk)' => lastSunk'.at < lastFrame'.at
      <3>1. Head(audioQueue) \in Queued
        BY <1>3
      <3> QED BY <1>1, <3>1 DEF FlowOrder, InFlow
    <2>5. /\ decoded' # NoFrame => decoded'.at + 1 = position' /\ \A f \in Pushed' : f.at < decoded'.at
          /\ \A f \in Pushed' : f.at < position'
      BY <1>1, <1>4 DEF FlowOrder
    <2> QED BY <2>1, <2>3, <2>4, <2>5 DEF FlowOrder
  <1> QED BY <1>1, <1>5, <1>6, FlowMoves

(* A video frame taken is no part of the flow. *)
LEMMA FlowTakeVideo ==
    ASSUME TypeFrames, KindsApart, FlowOrder, FlowWhole, TakeVideo
    PROVE  FlowOrder' /\ FlowWhole'
  <1>1. /\ lastFrame = NoFrame /\ lastFrame' = Head(FreshVideo) /\ FreshVideo # <<>>
        /\ UNCHANGED <<lastSunk, audioQueue, decoded, position, epoch>>
    BY DEF TakeVideo, TakeAndRearm, KindsApart, VideoFirst
  <1>2. ~InFlow(lastFrame) /\ ~InFlow(lastFrame)'
    BY <1>1, FreshHead DEF InFlow, IsAudio
  <1>3. Queued' = Queued /\ Pushed' = Pushed
    BY <1>1, <1>2 DEF Queued, Pushed, InFlow
  <1>4. Flow' = Flow
    BY <1>1, <1>3 DEF Flow, InFlow
  <1>5. FlowOrder'
    <2>1. \A f \in {lastSunk', lastFrame'}, g \in Queued' : InFlow(f)' => f.at < g.at
      BY <1>1, <1>2, <1>3 DEF FlowOrder, InFlow
    <2>2. ~(InFlow(lastSunk)' /\ InFlow(lastFrame)')
      BY <1>2
    <2> QED BY <1>1, <1>3, <2>1, <2>2 DEF FlowOrder
  <1> QED BY <1>1, <1>4, <1>5, FlowMoves

(* A seek begins a new flow. *)
LEMMA FlowSeek ==
    ASSUME TypeFrames, FramesHeld, KindsApart, SeekClears, UNCHANGED <<decoded, lastSunk>>
    PROVE  FlowOrder' /\ FlowWhole'
  <1>1. /\ decoded' = NoFrame /\ lastFrame' = NoFrame /\ audioQueue' = <<>>
        /\ UNCHANGED lastSunk /\ epoch' = epoch + 1
    BY DEF SeekClears, DecoderJoined, FramesHeld
  <1>2. lastSunk.epoch # epoch'
    <2>1. epoch \in Nat /\ lastSunk.epoch \in Nat /\ lastSunk.epoch <= epoch
      BY DEF TypeFrames, Frames, NoFrame, KindsApart
    <2> QED BY <1>1, <2>1
  <1>3. Queued' = {} /\ Pushed' = {} /\ Flow' = {}
    BY <1>1, <1>2 DEF Queued, Pushed, Flow, InFlow, IsAudio
  <1> QED BY <1>1, <1>2, <1>3 DEF FlowOrder, FlowWhole, InFlow, IsAudio

(* Every step keeps the kinds of the queues apart.                           *)
LEMMA KindsStep ==
    ASSUME TypeFrames, FramesHeld, NoStaleFrame, KindsApart, [Next]_vars
    PROVE  KindsApart'
  <1> USE DEF KindsApart
  <1>1. CASE DecoderCheck
    BY <1>1 DEF DecoderCheck
  <1>2. CASE DecoderDecode
    BY <1>2 DEF DecoderDecode
  <1>3. CASE DecoderEnd
    BY <1>3 DEF DecoderEnd
  <1>4. CASE DecoderPush
    <2>1. decoded \in Frames /\ decoded # NoFrame
      BY <1>4 DEF DecoderPush, FramesHeld, TypeFrames
    <2>2. CASE Kind(decoded) = "audio"
      <3>1. audioQueue' = Append(audioQueue, decoded) /\ UNCHANGED videoQueue
        BY <1>4, <2>2 DEF DecoderPush
      <3>2. \A i \in DOMAIN audioQueue' :
               \/ i \in DOMAIN audioQueue /\ audioQueue'[i] = audioQueue[i]
               \/ audioQueue'[i] = decoded
        BY <2>1, <3>1, QueueTypes
      <3>3. \A i \in DOMAIN audioQueue' : IsAudio(audioQueue'[i])
        BY <2>1, <2>2, <3>2 DEF IsAudio
      <3> QED BY <1>4, <3>1, <3>3 DEF DecoderPush
    <2>3. CASE Kind(decoded) # "audio"
      <3>1. videoQueue' = Append(videoQueue, decoded) /\ UNCHANGED audioQueue
            /\ Kind(decoded) = "video"
        BY <1>4, <2>3 DEF DecoderPush
      <3>2. \A i \in DOMAIN videoQueue' :
               \/ i \in DOMAIN videoQueue /\ videoQueue'[i] = videoQueue[i]
               \/ videoQueue'[i] = decoded
        BY <2>1, <3>1, QueueTypes
      <3> QED BY <1>4, <3>1, <3>2 DEF DecoderPush
    <2> QED BY <2>2, <2>3
  <1>5. CASE TimerExpires
    BY <1>5 DEF TimerExpires
  <1>6. CASE SendBlocked
    BY <1>6 DEF SendBlocked
  <1>7. CASE SendFrame
    <2>1. lastFrame'= NoFrame /\ lastSunk' \in {lastSunk, lastFrame} /\ lastFrame.epoch <= epoch
      BY <1>7 DEF SendFrame, FramesHeld, NoStaleFrame, TypeFrames
    <2> QED BY <1>7, <2>1 DEF SendFrame
  <1>8. CASE Compensate
    BY <1>8 DEF Compensate
  <1>9. CASE TakeEnd
    BY <1>9 DEF TakeEnd
  <1>10. CASE TakeVideo
    <2>1. \A i \in DOMAIN FreshVideo : Kind(FreshVideo[i]) = "video"
      BY FreshVideoPart DEF KindsApart
    <2>2. FreshVideo \in Seq(Frames) /\ FreshVideo # <<>>
      BY <1>10, FreshVideoPart DEF TakeVideo, VideoFirst
    <2>3. \A i \in DOMAIN Tail(FreshVideo) : Kind(Tail(FreshVideo)[i]) = "video"
      BY <2>1, <2>2
    <2> QED BY <1>10, <2>3 DEF TakeVideo, TakeAndRearm
  <1>11. CASE TakeAudio
    <2>1. \A i \in DOMAIN FreshVideo : Kind(FreshVideo[i]) = "video"
      BY FreshVideoPart DEF KindsApart
    <2>2. audioQueue \in Seq(Frames) /\ audioQueue # <<>>
      BY <1>11, QueueTypes DEF TakeAudio
    <2>3. \A i \in DOMAIN Tail(audioQueue) : IsAudio(Tail(audioQueue)[i])
      BY <2>2
    <2> QED BY <1>11, <2>1, <2>3 DEF TakeAudio, TakeAndRearm
  <1>12. CASE TakeNothing
    BY <1>12 DEF TakeNothing, TakeAndRearm
  <1>13. CASE HandlePlay
    BY <1>13 DEF HandlePlay, HandleCommand
  <1>14. CASE HandlePause
    BY <1>14 DEF HandlePause, HandleCommand
  <1>15. CASE HandleTerminate
    BY <1>15 DEF HandleTerminate, HandleCommand
  <1>16. CASE HandleSeek
    BY <1>16 DEF HandleSeek, HandleCommand
  <1>17. CASE SeekSucceeds
    <2>1. epoch' = epoch + 1 /\ lastSunk.epoch \in Nat /\ epoch \in Nat
      BY <1>17 DEF SeekSucceeds, SeekClears, TypeFrames, Frames, NoFrame
    <2> QED BY <1>17, <2>1 DEF SeekSucceeds, SeekClears
  <1>18. CASE SeekFails
    <2>1. epoch' = epoch + 1 /\ lastSunk.epoch \in Nat /\ epoch \in Nat
      BY <1>18 DEF SeekFails, SeekClears, TypeFrames, Frames, NoFrame
    <2> QED BY <1>18, <2>1 DEF SeekFails, SeekClears
  <1>19. CASE PresenterLeaves
    BY <1>19 DEF PresenterLeaves
  <1>20. CASE CommandReturns
    BY <1>20 DEF CommandReturns
  <1>21. CASE DisposeJoins
    BY <1>21 DEF DisposeJoins
  <1>22. CASE HostDrain
    BY <1>22 DEF HostDrain
  <1>23. CASE HostDeliver
    BY <1>23 DEF HostDeliver
  <1>24. CASE Play
    BY <1>24 DEF Play
  <1>25. CASE Pause
    BY <1>25 DEF Pause
  <1>26. CASE SeekTo
    BY <1>26 DEF SeekTo
  <1>27. CASE Dispose
    BY <1>27 DEF Dispose
  <1>28. CASE UNCHANGED vars
    BY <1>28 DEF vars
  <1> QED
    BY <1>1, <1>2, <1>3, <1>4, <1>5, <1>6, <1>7, <1>8, <1>9, <1>10, <1>11,
       <1>12, <1>13, <1>14, <1>15, <1>16, <1>17, <1>18, <1>19, <1>20, <1>21,
       <1>22, <1>23, <1>24, <1>25, <1>26, <1>27, <1>28
       DEF Next, DecoderStep, PresenterStep, HostStep

(* Every step keeps the flow in order and whole.                             *)
LEMMA FlowStep ==
    ASSUME TypeFrames, FramesHeld, NoStaleFrame, KindsApart, FlowOrder,
           FlowWhole, [Next]_vars
    PROVE  FlowOrder' /\ FlowWhole'
  <1>1. CASE DecoderCheck
    BY <1>1, FlowKept DEF DecoderCheck
  <1>2. CASE DecoderDecode
    BY <1>2, FlowDecode
  <1>3. CASE DecoderEnd
    BY <1>3, FlowKept DEF DecoderEnd
  <1>4. CASE DecoderPush
    BY <1>4, FlowPush
  <1>5. CASE TimerExpires
    BY <1>5, FlowKept DEF TimerExpires
  <1>6. CASE SendBlocked
    BY <1>6, FlowKept DEF SendBlocked
  <1>7. CASE SendFrame
    BY <1>7, FlowSend
  <1>8. CASE Compensate
    BY <1>8, FlowKept DEF Compensate
  <1>9. CASE TakeEnd
    BY <1>9, FlowKept DEF TakeEnd
  <1>10. CASE TakeVideo
    BY <1>10, FlowTakeVideo
  <1>11. CASE TakeAudio
    BY <1>11, FlowTakeAudio
  <1>12. CASE TakeNothing
    BY <1>12, FlowKept DEF TakeNothing, TakeAndRearm
  <1>13. CASE HandlePlay
    BY <1>13, FlowKept DEF HandlePlay, HandleCommand
  <1>14. CASE HandlePause
    BY <1>14, FlowKept DEF HandlePause, HandleCommand
  <1>15. CASE HandleTerminate
    BY <1>15, FlowKept DEF HandleTerminate, HandleCommand
  <1>16. CASE HandleSeek
    BY <1>16, FlowKept DEF HandleSeek, HandleCommand
  <1>17. CASE SeekSucceeds
    BY <1>17, FlowSeek DEF SeekSucceeds, SeekClears
  <1>18. CASE SeekFails
    BY <1>18, FlowSeek DEF SeekFails, SeekClears
  <1>19. CASE PresenterLeaves
    BY <1>19, FlowKept DEF PresenterLeaves
  <1>20. CASE CommandReturns
    BY <1>20, FlowKept DEF CommandReturns
  <1>21. CASE DisposeJoins
    BY <1>21, FlowKept DEF DisposeJoins
  <1>22. CASE HostDrain
    BY <1>22, FlowKept DEF HostDrain
  <1>23. CASE HostDeliver
    BY <1>23, FlowKept DEF HostDeliver
  <1>24. CASE Play
    BY <1>24, FlowKept DEF Play
  <1>25. CASE Pause
    BY <1>25, FlowKept DEF Pause
  <1>26. CASE SeekTo
    BY <1>26, FlowKept DEF SeekTo
  <1>27. CASE Dispose
    BY <1>27, FlowKept DEF Dispose
  <1>28. CASE UNCHANGED vars
    BY <1>28, FlowKept DEF vars
  <1> QED
    BY <1>1, <1>2, <1>3, <1>4, <1>5, <1>6, <1>7, <1>8, <1>9, <1>10, <1>11,
       <1>12, <1>13, <1>14, <1>15, <1>16, <1>17, <1>18, <1>19, <1>20, <1>21,
       <1>22, <1>23, <1>24, <1>25, <1>26, <1>27, <1>28
       DEF Next, DecoderStep, PresenterStep, HostStep

(* Where the frames of the pipe stand in it. *)
LEMMA PipePlaces ==
    ASSUME TypeFrames
    PROVE  /\ Len(audioQueue) \in Nat
           /\ DOMAIN AudioPipe = 1 .. Len(audioQueue) + 3
           /\ AudioPipe[1] = lastSunk /\ AudioPipe[2] = lastFrame
           /\ \A k \in 1 .. Len(audioQueue) : AudioPipe[k + 2] = audioQueue[k]
           /\ AudioPipe[Len(audioQueue) + 3] = decoded
  <1> DEFINE F == Frames \cup {NoFrame}
  <1>1. /\ <<lastSunk, lastFrame>> \in Seq(F) /\ Len(<<lastSunk, lastFrame>>) = 2
        /\ audioQueue \in Seq(F) /\ <<decoded>> \in Seq(F)
    BY DEF TypeFrames
  <1> QED BY <1>1 DEF AudioPipe

(* An ordered flow without gaps is what AudioGapless says of the pipe. *)
LEMMA FlowIsGapless ==
    ASSUME TypeFrames, KindsApart, NoStaleFrame, FlowOrder, FlowWhole
    PROVE  AudioGapless
  <1> DEFINE n == Len(audioQueue)
  <1>1. n \in Nat /\ DOMAIN AudioPipe = 1 .. n + 3
    BY PipePlaces
  <1>2. ASSUME NEW i \in DOMAIN AudioPipe, i < n + 3
        PROVE  \/ AudioPipe[i] \in {lastSunk, lastFrame}
               \/ i - 2 \in 1 .. n /\ AudioPipe[i] = audioQueue[i - 2]
    <2>1. i = 1 \/ i = 2 \/ (i - 2 \in 1 .. n /\ i = (i - 2) + 2)
      BY <1>1, <1>2
    <2> QED BY <2>1, PipePlaces
  <1>3. ASSUME NEW i \in DOMAIN AudioPipe, InFlow(AudioPipe[i])
        PROVE  /\ AudioPipe[i] \in Flow
               /\ i < n + 3 => AudioPipe[i] \in Pushed
    <2>1. CASE i = n + 3
      BY <1>3, <2>1, PipePlaces DEF Flow
    <2>2. CASE i < n + 3
      <3>1. AudioPipe[i] \in {lastSunk, lastFrame} \cup Queued
        BY <1>1, <1>2, <2>2, PipePlaces, QueueTypes DEF Queued
      <3> QED BY <1>3, <3>1 DEF Pushed, Flow
    <2> QED BY <1>1, <2>1, <2>2
  <1>4. ASSUME NEW i \in DOMAIN AudioPipe, NEW j \in DOMAIN AudioPipe, i < j,
               InFlow(AudioPipe[i]), InFlow(AudioPipe[j])
        PROVE  AudioPipe[i].at < AudioPipe[j].at
    <2>1. i < n + 3 /\ AudioPipe[i] \in Pushed
      BY <1>1, <1>3, <1>4
    <2>2. CASE j = n + 3
      BY <1>4, <2>1, <2>2, PipePlaces DEF FlowOrder, InFlow, IsAudio
    <2>3. CASE j - 2 \in 1 .. n
      <3>1. AudioPipe[j] = audioQueue[j - 2] /\ j - 2 \in DOMAIN audioQueue
        <4>1. j = (j - 2) + 2
          BY <1>1
        <4> QED BY <2>3, <4>1, PipePlaces, QueueTypes
      <3>2. CASE AudioPipe[i] \in {lastSunk, lastFrame}
        BY <1>4, <3>1, <3>2 DEF FlowOrder, Queued
      <3>3. CASE i - 2 \in 1 .. n /\ AudioPipe[i] = audioQueue[i - 2]
        <4>1. i - 2 \in DOMAIN audioQueue /\ i - 2 < j - 2
          BY <1>1, <1>4, <3>3, QueueTypes
        <4> QED BY <3>1, <3>3, <4>1 DEF FlowOrder
      <3> QED BY <1>2, <2>1, <3>2, <3>3
    <2>4. CASE j = 2
      <3>1. i = 1
        BY <1>1, <1>4, <2>4
      <3> QED BY <1>4, <2>4, <3>1, PipePlaces DEF FlowOrder
    <2>5. j = n + 3 \/ j - 2 \in 1 .. n \/ j = 2
      BY <1>1, <1>4
    <2> QED BY <2>2, <2>3, <2>4, <2>5
  <1>5. ASSUME NEW g \in Flow PROVE \E k \in DOMAIN AudioPipe : AudioPipe[k] = g /\ InFlow(AudioPipe[k])
    <2>1. CASE g = decoded
      BY <1>1, <1>5, <2>1, PipePlaces DEF Flow, Pushed
    <2>2. CASE g \in {lastSunk, lastFrame}
      BY <1>1, <1>5, <2>2, PipePlaces DEF Flow, Pushed
    <2>3. CASE g \in Queued
      <3>1. PICK k \in 1 .. n : audioQueue[k] = g
        BY <2>3, QueueTypes DEF Queued
      <3>2. k + 2 \in DOMAIN AudioPipe
        BY <1>1
      <3> QED BY <1>5, <3>1, <3>2, PipePlaces DEF Flow, Pushed
    <2> QED BY <2>1, <2>2, <2>3 DEF Flow, Pushed
  <1>6. ASSUME NEW i \in DOMAIN AudioPipe, NEW j \in DOMAIN AudioPipe, i < j,
               InFlow(AudioPipe[i]), InFlow(AudioPipe[j]),
               NEW a \in AudioPipe[i].at + 1 .. AudioPipe[j].at - 1, Media[a].kind = "audio"
        PROVE  \E k \in i + 1 .. j - 1 : InFlow(AudioPipe[k]) /\ AudioPipe[k].at = a
    <2>1. /\ AudioPipe[i] \in Flow /\ AudioPipe[j] \in Flow
          /\ AudioPipe[i].at \in Nat /\ AudioPipe[j].at \in Nat /\ AudioPipe[j] \in Frames
      BY <1>3, <1>6, FlowTypes
    <2>2. AudioPipe[j].at < position /\ position \in Nat /\ AudioPipe[j].at <= Len(Media)
      <3>1. \A f \in Flow : f.at < position
        BY FlowTypes DEF FlowOrder, Flow, InFlow, IsAudio
      <3>2. AudioPipe[j].at \in 1 .. Len(Media) /\ Len(Media) \in Nat
        BY <2>1, FlowTypes DEF Frames
      <3> QED BY <2>1, <3>1, <3>2, FlowTypes
    <2>3. a \in 1 .. Len(Media) /\ AudioPipe[i].at < a /\ a < position /\ a < AudioPipe[j].at
      BY <1>6, <2>1, <2>2, FlowTypes
    <2>4. PICK g \in Flow : g.at = a
      BY <1>6, <2>1, <2>3 DEF FlowWhole
    <2>5. PICK k \in DOMAIN AudioPipe : AudioPipe[k] = g /\ InFlow(AudioPipe[k])
      BY <1>5
    <2>6. ~(k < i) /\ k # i
      <3>1. k < i => AudioPipe[k].at < AudioPipe[i].at
        BY <1>4, <1>6, <2>5
      <3> QED BY <2>1, <2>3, <2>4, <2>5, <3>1
    <2>7. ~(j < k) /\ k # j
      <3>1. j < k => AudioPipe[j].at < AudioPipe[k].at
        BY <1>4, <1>6, <2>5
      <3> QED BY <2>1, <2>3, <2>4, <2>5, <3>1
    <2>8. k \in i + 1 .. j - 1
      BY <1>1, <2>6, <2>7
    <2> QED BY <2>4, <2>5, <2>8
  <1> QED BY <1>4, <1>6 DEF AudioGapless

-------------------------------------------------------------------------------
(* The frames sent and the one about to be.                                  *)

(* No frame of the sequence is late after the one before it.                 *)
NeverLate(q) == \A i \in 2 .. Len(q) : NotLate(q[i - 1], q[i])

(* No video frame sent was late, and the next one will not be: it is         *)
(* compared with lastPts.                                                    *)
SentInv ==
    /\ \A i \in DOMAIN Sent : Sent[i].epoch <= epoch
    /\ NeverLate(Sent)
    /\ lastFrame # NoFrame => lastPts = Pts(lastFrame)
    /\ Sent # <<>> =>
           LET f == Sent[Len(Sent)]
           IN /\ NotLate(f, lastFrame)
              /\ lastFrame = NoFrame /\ f # NoFrame /\ f.epoch = epoch => Pts(f) <= lastPts

(* What the host is sent.                                                    *)
Requests == Frames \cup {EndRequest}

(* What is sent are requests. *)
LEMMA SentType ==
    ASSUME TypeFrames
    PROVE  /\ Sent \in Seq(Requests) /\ Len(Sent) \in Nat /\ DOMAIN Sent = 1 .. Len(Sent)
           /\ epoch \in Nat /\ lastFrame \in Requests
           /\ \A f \in Requests : f.epoch \in Nat
  <1>1. Sent \in Seq(Requests)
    BY DEF TypeFrames, Sent, Requests
  <1>2. \A f \in Requests : f.epoch \in Nat
    BY DEF Requests, Frames, EndRequest, NoFrame
  <1> QED BY <1>1, <1>2 DEF TypeFrames, Requests, EndRequest

(* A request that is not late keeps the sequence so. *)
LEMMA NeverLateMore ==
    ASSUME NEW q \in Seq(Requests), NEW f \in Requests, NeverLate(q),
           q # <<>> => NotLate(q[Len(q)], f)
    PROVE  NeverLate(Append(q, f))
  <1>1. /\ Len(q) \in Nat /\ Len(Append(q, f)) = Len(q) + 1
        /\ \A i \in 1 .. Len(q) : Append(q, f)[i] = q[i]
        /\ Append(q, f)[Len(q) + 1] = f
    OBVIOUS
  <1>2. ASSUME NEW i \in 2 .. Len(Append(q, f))
        PROVE  NotLate(Append(q, f)[i - 1], Append(q, f)[i])
    <2>1. CASE i = Len(q) + 1
      <3>1. q # <<>> /\ i - 1 = Len(q) /\ Len(q) \in 1 .. Len(q)
        BY <1>1, <2>1
      <3> QED BY <1>1, <2>1, <3>1
    <2>2. CASE i # Len(q) + 1
      <3>1. i \in 2 .. Len(q) /\ i - 1 \in 1 .. Len(q) /\ i \in 1 .. Len(q)
        BY <1>1, <2>2
      <3> QED BY <1>1, <3>1 DEF NeverLate
    <2> QED BY <2>1, <2>2
  <1> QED BY <1>2 DEF NeverLate

(* What is left when the host takes some of it was not late either. *)
LEMMA NeverLateLess ==
    ASSUME NEW q \in Seq(Requests), NeverLate(q)
    PROVE  /\ q # <<>> => NeverLate(Tail(q))
           /\ \A k \in 0 .. Len(q) : NeverLate(SubSeq(q, 1, k))
  <1>1. ASSUME q # <<>> PROVE NeverLate(Tail(q))
    <2>1. /\ Len(q) \in Nat /\ Len(Tail(q)) = Len(q) - 1
          /\ \A i \in 1 .. Len(q) - 1 : Tail(q)[i] = q[i + 1]
      BY <1>1
    <2>2. ASSUME NEW i \in 2 .. Len(Tail(q)) PROVE NotLate(Tail(q)[i - 1], Tail(q)[i])
      <3>1. /\ i + 1 \in 2 .. Len(q) /\ (i + 1) - 1 = i /\ (i - 1) + 1 = i
            /\ i \in 1 .. Len(q) - 1 /\ i - 1 \in 1 .. Len(q) - 1
        BY <2>1
      <3>2. NotLate(q[i], q[i + 1])
        BY <3>1 DEF NeverLate
      <3> QED BY <2>1, <3>1, <3>2
    <2> QED BY <2>2 DEF NeverLate
  <1>2. ASSUME NEW k \in 0 .. Len(q) PROVE NeverLate(SubSeq(q, 1, k))
    <2>1. /\ Len(q) \in Nat /\ Len(SubSeq(q, 1, k)) = k
          /\ \A i \in 1 .. k : SubSeq(q, 1, k)[i] = q[i]
      OBVIOUS
    <2>2. \A i \in 2 .. k : i \in 2 .. Len(q) /\ i \in 1 .. k /\ i - 1 \in 1 .. k
      BY <2>1
    <2> QED BY <2>1, <2>2 DEF NeverLate
  <1> QED BY <1>1, <1>2

(* What a step changes that does not touch them. *)
LEMMA SentKept ==
    ASSUME SentInv, UNCHANGED <<hostBatch, presentQueue, lastFrame, lastPts, epoch>>
    PROVE  SentInv'
  <1>1. Sent' = Sent
    BY DEF Sent
  <1> QED BY <1>1 DEF SentInv

(* A request is sent while the thread holds no frame afterwards. *)
LEMMA SentMore ==
    ASSUME TypeFrames, SentInv, NEW f \in Requests, UNCHANGED hostBatch,
           presentQueue' = Append(presentQueue, f), lastFrame' = NoFrame,
           epoch' \in {epoch, epoch + 1}, f.epoch <= epoch',
           Sent # <<>> => NotLate(Sent[Len(Sent)], f),
           f # NoFrame => Pts(f) <= lastPts'
    PROVE  SentInv'
  <1>1. Sent' = Append(Sent, f)
    <2>1. hostBatch \in Seq(Requests) /\ presentQueue \in Seq(Requests)
      BY DEF TypeFrames, Requests
    <2> QED BY <2>1 DEF Sent
  <1>2. /\ Sent \in Seq(Requests) /\ Len(Sent) \in Nat /\ DOMAIN Sent = 1 .. Len(Sent)
        /\ epoch \in Nat /\ \A i \in 1 .. Len(Sent) : Sent[i].epoch \in Nat
    BY SentType
  <1>3. /\ DOMAIN Append(Sent, f) = 1 .. Len(Sent) + 1 /\ Len(Append(Sent, f)) = Len(Sent) + 1
        /\ \A i \in 1 .. Len(Sent) : Append(Sent, f)[i] = Sent[i]
        /\ Append(Sent, f)[Len(Sent) + 1] = f
    BY <1>2
  <1>4. \A i \in 1 .. Len(Sent) + 1 : Append(Sent, f)[i].epoch <= epoch'
    <2>1. \A i \in 1 .. Len(Sent) : Sent[i].epoch <= epoch'
      BY <1>2 DEF SentInv
    <2>2. \A i \in 1 .. Len(Sent) + 1 : i \in 1 .. Len(Sent) \/ i = Len(Sent) + 1
      BY <1>2
    <2> QED BY <1>3, <2>1, <2>2
  <1>5. NeverLate(Append(Sent, f))
    BY <1>2, NeverLateMore DEF SentInv
  <1>6. NotLate(f, NoFrame)
    BY DEF NotLate
  <1>7. NeverLate(Sent)' /\ Sent'[Len(Sent')] = f /\ DOMAIN Sent' = 1 .. Len(Sent) + 1
    BY <1>1, <1>3, <1>5 DEF NeverLate, NotLate, Kind, Pts
  <1>8. \A i \in DOMAIN Sent' : Sent'[i].epoch <= epoch'
    BY <1>1, <1>4, <1>7
  <1>9. NotLate(f, lastFrame)'
    BY <1>6 DEF NotLate
  <1> QED BY <1>7, <1>8, <1>9 DEF SentInv, NotLate, Kind, Pts

(* The frame about to be sent is chosen. *)
LEMMA SentChosen ==
    ASSUME TypeFrames, SentInv, lastFrame = NoFrame, lastFrame' \in Frames,
           UNCHANGED <<hostBatch, presentQueue, epoch>>, lastPts' = Pts(lastFrame'),
           lastFrame'.epoch = epoch,
           Kind(lastFrame') = "video" => lastPts <= Pts(lastFrame')
    PROVE  SentInv'
  <1>1. Sent' = Sent
    BY DEF Sent
  <1>2. lastFrame' # NoFrame /\ lastPts \in Nat /\ Pts(lastFrame') \in Nat
    <2>1. lastFrame' # NoFrame
      BY MediaConstants DEF Frames, NoFrame, MediaConstants
    <2> QED BY <2>1, PtsType DEF TypeFrames
  <1>3. ASSUME Sent # <<>> PROVE NotLate(Sent[Len(Sent)], lastFrame')
    <2> SUFFICES ASSUME Sent[Len(Sent)] # NoFrame, Sent[Len(Sent)].epoch = epoch,
                        Kind(lastFrame') = "video"
                 PROVE  Pts(Sent[Len(Sent)]) <= Pts(lastFrame')
      BY <1>2 DEF NotLate
    <2>1. Pts(Sent[Len(Sent)]) <= lastPts
      BY <1>3 DEF SentInv
    <2>2. Pts(Sent[Len(Sent)]) \in Nat
      <3>1. Len(Sent) \in DOMAIN Sent /\ Sent[Len(Sent)] \in Frames
        BY <1>3, SentType DEF Requests, EndRequest
      <3> QED BY <3>1, PtsType
    <2> QED BY <1>2, <2>1, <2>2
  <1> QED BY <1>1, <1>2, <1>3 DEF SentInv

(* A seek makes all frames sent frames of an earlier epoch. *)
LEMMA SentSeek ==
    ASSUME TypeFrames, SentInv, UNCHANGED <<hostBatch, presentQueue>>,
           epoch' = epoch + 1, lastFrame' = NoFrame
    PROVE  SentInv'
  <1>1. Sent' = Sent
    BY DEF Sent
  <1>2. \A i \in DOMAIN Sent : Sent[i].epoch <= epoch' /\ Sent[i].epoch # epoch'
    BY SentType DEF SentInv
  <1>3. Sent # <<>> => Len(Sent) \in DOMAIN Sent
    BY SentType
  <1> QED BY <1>1, <1>2, <1>3 DEF SentInv, NotLate

(* The host takes all requests or stops behind an error_or_eof. *)
LEMMA TakenLast ==
    ASSUME TypeFrames, presentQueue # <<>>
    PROVE  /\ TakenCount \in 1 .. Len(presentQueue)
           /\ TakenCount = Len(presentQueue) \/ presentQueue[TakenCount] = EndRequest
  <1> DEFINE m == Len(presentQueue)
             T == {i \in DOMAIN presentQueue : \A j \in 1 .. i - 1 : presentQueue[j] # EndRequest}
             c == TakenCount
  <1>1. m \in Nat /\ 1 <= m /\ DOMAIN presentQueue = 1 .. m
    BY DEF TypeFrames
  <1>2. c \in Nat /\ c <= m /\ T = 1 .. c
    <2>1. T \in SUBSET (1 .. m)
      BY <1>1
    <2>2. ASSUME NEW k \in T, NEW i \in 1 .. k PROVE i \in T
      <3>1. i \in 1 .. m /\ \A j \in 1 .. i - 1 : j \in 1 .. k - 1
        BY <1>1, <2>2
      <3> QED BY <1>1, <3>1
    <2>3. \A k \in T : 1 .. k \subseteq T
      BY <2>2
    <2> HIDE DEF T, m
    <2>4. Cardinality(T) \in Nat /\ Cardinality(T) <= m /\ T = 1 .. Cardinality(T)
      BY <1>1, <2>1, <2>3, InitialSegment
    <2> QED BY <2>4 DEF TakenCount, T
  <1>3. 1 \in T
    BY <1>1
  <1>4. c \in 1 .. m
    <2> HIDE DEF T, c
    <2> QED BY <1>1, <1>2, <1>3
  <1>5. ASSUME c # m PROVE presentQueue[c] = EndRequest
    <2>1. c + 1 \in 1 .. m /\ c + 1 \notin T /\ c \in T
      <3> HIDE DEF T, c, m
      <3>1. c \in Nat /\ c + 1 \in 1 .. m /\ c + 1 \notin 1 .. c /\ c \in 1 .. c
        BY <1>1, <1>2, <1>4, <1>5
      <3> QED BY <1>2, <3>1
    <2>2. PICK j \in 1 .. (c + 1) - 1 : presentQueue[j] = EndRequest
      BY <1>1, <2>1
    <2>3. ~(j \in 1 .. c - 1)
      BY <2>1, <2>2
    <2> HIDE DEF T, c
    <2>4. j = c
      BY <1>2, <1>4, <2>2, <2>3
    <2> QED BY <2>2, <2>4
  <1> QED BY <1>4, <1>5

(* The host takes the requests over. *)
LEMMA SentDrained ==
    ASSUME TypeFrames, SentInv, HostDrain
    PROVE  SentInv'
  <1>1. /\ hostBatch = <<>> /\ presentQueue' = <<>>
        /\ hostBatch' = SubSeq(presentQueue, 1, TakenCount)
        /\ UNCHANGED <<lastFrame, lastPts, epoch>>
    BY DEF HostDrain
  <1>2. presentQueue \in Seq(Requests)
    BY DEF TypeFrames, Requests
  <1>3. TakenCount \in Nat /\ TakenCount <= Len(presentQueue) /\ Len(presentQueue) \in Nat
    BY <1>2, TakenCountType
  <1> DEFINE rest == SubSeq(presentQueue, 1, TakenCount)
  <1>4. /\ rest \in Seq(Requests) /\ Len(rest) = TakenCount /\ DOMAIN rest = 1 .. TakenCount
        /\ \A i \in 1 .. TakenCount : rest[i] = presentQueue[i] /\ i \in DOMAIN presentQueue
    BY <1>2, <1>3
  <1>5. Sent = presentQueue /\ Sent' = rest
    BY <1>1, <1>2, <1>4 DEF Sent
  <1>6. NeverLate(rest)
    <2>1. TakenCount \in 0 .. Len(presentQueue)
      BY <1>3
    <2> QED BY <1>2, <1>5, <2>1, NeverLateLess DEF SentInv
  <1>7. \A i \in DOMAIN rest : rest[i].epoch <= epoch
    BY <1>4, <1>5 DEF SentInv
  <1>8. ASSUME rest # <<>>
        PROVE  \/ rest[TakenCount] = NoFrame
               \/ presentQueue # <<>> /\ rest[TakenCount] = presentQueue[Len(presentQueue)]
    <2>1. presentQueue # <<>> /\ TakenCount \in 1 .. TakenCount
      BY <1>2, <1>3, <1>4, <1>8
    <2>2. TakenCount = Len(presentQueue) \/ presentQueue[TakenCount] = EndRequest
      BY <2>1, TakenLast
    <2> QED BY <1>4, <2>1, <2>2 DEF EndRequest
  <1> HIDE DEF rest
  <1>9. ASSUME rest # <<>>
        PROVE  /\ NotLate(rest[Len(rest)], lastFrame)
               /\ lastFrame = NoFrame /\ rest[Len(rest)] # NoFrame /\ rest[Len(rest)].epoch = epoch
                      => Pts(rest[Len(rest)]) <= lastPts
    BY <1>4, <1>5, <1>8, <1>9 DEF SentInv, NotLate
  <1>10. NeverLate(Sent)'
    BY <1>5, <1>6 DEF NeverLate, NotLate, Kind, Pts
  <1> QED BY <1>1, <1>5, <1>7, <1>9, <1>10 DEF SentInv, NotLate, Kind, Pts

(* The host delivers a request. *)
LEMMA SentDelivered ==
    ASSUME TypeFrames, SentInv, HostDeliver
    PROVE  SentInv'
  <1>1. /\ hostBatch # <<>> /\ hostBatch' = Tail(hostBatch)
        /\ UNCHANGED <<presentQueue, lastFrame, lastPts, epoch>>
    BY DEF HostDeliver
  <1>2. presentQueue \in Seq(Requests) /\ hostBatch \in Seq(Requests)
    BY DEF TypeFrames, Requests
  <1>3. Sent # <<>> /\ Sent' = Tail(Sent)
    BY <1>1, <1>2 DEF Sent
  <1>4. /\ Sent \in Seq(Requests) /\ Len(Sent) \in Nat /\ DOMAIN Sent = 1 .. Len(Sent)
        /\ Len(Tail(Sent)) = Len(Sent) - 1 /\ DOMAIN Tail(Sent) = 1 .. Len(Sent) - 1
        /\ \A i \in 1 .. Len(Sent) - 1 : Tail(Sent)[i] = Sent[i + 1] /\ i + 1 \in DOMAIN Sent
    BY <1>3, SentType
  <1>5. NeverLate(Tail(Sent))
    BY <1>3, <1>4, NeverLateLess DEF SentInv
  <1>6. \A i \in DOMAIN Tail(Sent) : Tail(Sent)[i].epoch <= epoch
    BY <1>4 DEF SentInv
  <1>7. Tail(Sent) # <<>> => Tail(Sent)[Len(Tail(Sent))] = Sent[Len(Sent)]
    <2>1. ASSUME Tail(Sent) # <<>> PROVE Len(Sent) - 1 \in 1 .. Len(Sent) - 1 /\ (Len(Sent) - 1) + 1 = Len(Sent)
      BY <1>3, <1>4, <2>1
    <2> QED BY <1>4, <2>1
  <1>8. NeverLate(Sent)'
    BY <1>3, <1>5 DEF NeverLate, NotLate, Kind, Pts
  <1> QED BY <1>1, <1>3, <1>6, <1>7, <1>8 DEF SentInv, NotLate, Kind, Pts

(* Every step sends in order.                                                *)
LEMMA SentStep ==
    ASSUME TypeFrames, FramesHeld, NoStaleFrame, KindsApart, SentInv,
           [Next]_vars
    PROVE  SentInv'
  <1>1. CASE DecoderCheck
    BY <1>1, SentKept DEF DecoderCheck
  <1>2. CASE DecoderDecode
    BY <1>2, SentKept DEF DecoderDecode
  <1>3. CASE DecoderEnd
    BY <1>3, SentKept DEF DecoderEnd
  <1>4. CASE DecoderPush
    BY <1>4, SentKept DEF DecoderPush
  <1>5. CASE TimerExpires
    BY <1>5, SentKept DEF TimerExpires
  <1>6. CASE SendBlocked
    BY <1>6, SentKept DEF SendBlocked
  <1>7. CASE SendFrame
    <2>1. lastFrame # NoFrame /\ lastFrame \in Frames /\ lastFrame.epoch = epoch
      BY <1>7 DEF SendFrame, FramesHeld, NoStaleFrame, TypeFrames
    <2>2. lastPts = Pts(lastFrame) /\ Pts(lastFrame) \in Nat /\ epoch \in Nat
      BY <2>1, PtsType, SentType DEF SentInv
    <2>3. Sent # <<>> => NotLate(Sent[Len(Sent)], lastFrame)
      BY DEF SentInv
    <2>4. /\ presentQueue' = Append(presentQueue, lastFrame) /\ lastFrame' = NoFrame
          /\ UNCHANGED <<hostBatch, lastPts, epoch>>
      BY <1>7 DEF SendFrame
    <2> QED BY <2>1, <2>2, <2>3, <2>4, SentMore DEF Requests
  <1>8. CASE Compensate
    BY <1>8, SentKept DEF Compensate
  <1>9. CASE TakeEnd
    <2>1. EndRequest \in Requests /\ EndRequest = NoFrame /\ EndRequest.epoch = 0
      BY DEF Requests, EndRequest, NoFrame
    <2>2. epoch \in Nat /\ NoFrame.epoch = 0
      BY SentType, <2>1
    <2>3. Sent # <<>> => NotLate(Sent[Len(Sent)], EndRequest)
      BY <2>1 DEF NotLate
    <2>4. /\ presentQueue' = Append(presentQueue, EndRequest) /\ lastFrame' = NoFrame
          /\ UNCHANGED <<hostBatch, epoch>>
      BY <1>9 DEF TakeEnd, KindsApart
    <2> QED BY <2>1, <2>2, <2>3, <2>4, SentMore
  <1>10. CASE TakeVideo
    <2>1. /\ FreshVideo # <<>> /\ lastFrame = NoFrame
          /\ UNCHANGED <<hostBatch, presentQueue, epoch>>
          /\ lastFrame' = Head(FreshVideo) /\ lastPts' = Pts(Head(FreshVideo))
      BY <1>10 DEF TakeVideo, TakeAndRearm, VideoFirst, KindsApart
    <2>2. Head(FreshVideo) \in Frames /\ lastPts <= Pts(Head(FreshVideo))
      BY <2>1, FreshHead
    <2>3. Head(FreshVideo).epoch = epoch
      <3>1. FreshVideo \in Seq(Frames) /\ 1 \in DOMAIN FreshVideo /\ Head(FreshVideo) = FreshVideo[1]
        BY <2>1, FreshVideoPart
      <3> QED BY <3>1, FreshVideoPart DEF NoStaleFrame
    <2> QED BY <2>1, <2>2, <2>3, SentChosen
  <1>11. CASE TakeAudio
    <2>1. /\ audioQueue # <<>> /\ lastFrame = NoFrame
          /\ UNCHANGED <<hostBatch, presentQueue, epoch>>
          /\ lastFrame' = Head(audioQueue) /\ lastPts' = Pts(Head(audioQueue))
      BY <1>11 DEF TakeAudio, TakeAndRearm, KindsApart
    <2>2. 1 \in DOMAIN audioQueue /\ Head(audioQueue) = audioQueue[1] /\ audioQueue[1] \in Frames
      BY <2>1, QueueTypes
    <2>3. Head(audioQueue).epoch = epoch /\ Kind(Head(audioQueue)) # "video"
      BY <2>2 DEF NoStaleFrame, KindsApart, IsAudio
    <2> QED BY <2>1, <2>2, <2>3, SentChosen
  <1>12. CASE TakeNothing
    BY <1>12, SentKept DEF TakeNothing, TakeAndRearm
  <1>13. CASE HandlePlay
    BY <1>13, SentKept DEF HandlePlay, HandleCommand
  <1>14. CASE HandlePause
    BY <1>14, SentKept DEF HandlePause, HandleCommand
  <1>15. CASE HandleTerminate
    BY <1>15, SentKept DEF HandleTerminate, HandleCommand
  <1>16. CASE HandleSeek
    BY <1>16, SentKept DEF HandleSeek, HandleCommand
  <1>17. CASE SeekSucceeds
    BY <1>17, SentSeek DEF SeekSucceeds, SeekClears
  <1>18. CASE SeekFails
    <2>1. EndRequest \in Requests /\ EndRequest = NoFrame /\ EndRequest.epoch = 0
      BY DEF Requests, EndRequest, NoFrame
    <2>2. epoch \in Nat /\ NoFrame.epoch = 0
      BY SentType, <2>1
    <2>3. Sent # <<>> => NotLate(Sent[Len(Sent)], EndRequest)
      BY <2>1 DEF NotLate
    <2>4. /\ presentQueue' = Append(presentQueue, EndRequest) /\ lastFrame' = NoFrame
          /\ epoch' = epoch + 1 /\ UNCHANGED hostBatch
      BY <1>18 DEF SeekFails, SeekClears
    <2> QED BY <2>1, <2>2, <2>3, <2>4, SentMore
  <1>19. CASE PresenterLeaves
    BY <1>19, SentKept DEF PresenterLeaves
  <1>20. CASE CommandReturns
    BY <1>20, SentKept DEF CommandReturns
  <1>21. CASE DisposeJoins
    BY <1>21, SentKept DEF DisposeJoins
  <1>22. CASE HostDrain
    BY <1>22, SentDrained
  <1>23. CASE HostDeliver
    BY <1>23, SentDelivered
  <1>24. CASE Play
    BY <1>24, SentKept DEF Play
  <1>25. CASE Pause
    BY <1>25, SentKept DEF Pause
  <1>26. CASE SeekTo
    BY <1>26, SentKept DEF SeekTo
  <1>27. CASE Dispose
    BY <1>27, SentKept DEF Dispose
  <1>28. CASE UNCHANGED vars
    BY <1>28, SentKept DEF vars
  <1> QED
    BY <1>1, <1>2, <1>3, <1>4, <1>5, <1>6, <1>7, <1>8, <1>9, <1>10, <1>11,
       <1>12, <1>13, <1>14, <1>15, <1>16, <1>17, <1>18, <1>19, <1>20, <1>21,
       <1>22, <1>23, <1>24, <1>25, <1>26, <1>27, <1>28
       DEF Next, DecoderStep, PresenterStep, HostStep

(* What was sent in order, with the next frame. *)
LEMMA SentIsNotLate ==
    ASSUME TypeFrames, SentInv
    PROVE  VideoNotLate
  <1>1. NeverLate(Append(Sent, lastFrame))
    BY SentType, NeverLateMore DEF SentInv
  <1> QED BY <1>1 DEF VideoNotLate, Outgoing, NeverLate

(* The invariants of the two streams hold initially and in every step.       *)
LEMMA StreamsInductive == Spec => [](KindsApart /\ FlowOrder /\ FlowWhole /\ SentInv)
  <1>1. Init => KindsApart /\ FlowOrder /\ FlowWhole /\ SentInv
    <2> SUFFICES ASSUME Init PROVE KindsApart /\ FlowOrder /\ FlowWhole /\ SentInv
      OBVIOUS
    <2>1. /\ audioQueue = <<>> /\ videoQueue = <<>> /\ hostBatch = <<>> /\ presentQueue = <<>>
          /\ lastFrame = NoFrame /\ lastSunk = NoFrame /\ decoded = NoFrame
          /\ presenterPC = "loop" /\ epoch = 0 /\ NoFrame.epoch = 0
      BY DEF Init, NoFrame
    <2>2. Queued = {} /\ Pushed = {} /\ Flow = {}
      BY <2>1 DEF Queued, Pushed, Flow, InFlow, IsAudio
    <2>3. KindsApart
      BY <2>1 DEF KindsApart
    <2>4. FlowOrder /\ FlowWhole
      BY <2>1, <2>2 DEF FlowOrder, FlowWhole, InFlow, IsAudio
    <2>5. Sent = <<>>
      BY <2>1 DEF Sent
    <2>6. SentInv
      BY <2>1, <2>5 DEF SentInv, NeverLate
    <2> QED BY <2>3, <2>4, <2>6
  <1>2. IndInv /\ KindsApart /\ FlowOrder /\ FlowWhole /\ SentInv /\ [Next]_vars
            => (KindsApart /\ FlowOrder /\ FlowWhole /\ SentInv)'
    <2> SUFFICES ASSUME IndInv, KindsApart, FlowOrder, FlowWhole, SentInv, [Next]_vars
                 PROVE  KindsApart' /\ FlowOrder' /\ FlowWhole' /\ SentInv'
      OBVIOUS
    <2>1. TypeFrames /\ FramesHeld /\ NoStaleFrame
      BY DEF IndInv, TypeOK
    <2>2. KindsApart'
      BY <2>1, KindsStep
    <2>3. FlowOrder' /\ FlowWhole'
      BY <2>1, FlowStep
    <2>4. SentInv'
      BY <2>1, SentStep
    <2> QED BY <2>2, <2>3, <2>4
  <1> QED BY <1>1, <1>2, MediaInductive, PTL DEF Spec

(* Between two seeks the audio sink is given every audio frame in order,     *)
(* however long the file and the queues and however the threads interleave.  *)
THEOREM MediaAudioGapless == Spec => []AudioGapless
  <1>1. IndInv /\ KindsApart /\ FlowOrder /\ FlowWhole => AudioGapless
    BY FlowIsGapless DEF IndInv, TypeOK
  <1> QED BY <1>1, MediaInductive, StreamsInductive, PTL

(* A video frame is never handed out directly after a younger frame of its   *)
(* epoch, although audio frames that overtake it move lastPts.               *)
THEOREM MediaVideoNotLate == Spec => []VideoNotLate
  <1>1. IndInv /\ SentInv => VideoNotLate
    BY SentIsNotLate DEF IndInv, TypeOK
  <1> QED BY <1>1, MediaInductive, StreamsInductive, PTL

===============================================================================
