-------------------------- MODULE MCMediaDispatcher --------------------------
(* A short file.                                                             *)
EXTENDS MediaDispatcher

Audio(t) == [kind |-> "audio", pts |-> t]
Video(t) == [kind |-> "video", pts |-> t]

(* One more audio frame than the audio queue of two holds, and a video frame *)
(* behind a later audio frame.                                               *)
LongerMedia == <<Audio(2), Video(1), Audio(4), Audio(5)>>

==============================================================================
