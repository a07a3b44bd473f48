--------------------------- MODULE InspectorSession ---------------------------
(***************************************************************************)
(* The JavaScript debugger's two threads: the io thread serves WebSocket   *)
(* connections of frontends, the main thread dispatches what they send to  *)
(* V8's inspector, from its event loop or, while the program is paused,    *)
(* from a nested loop that blocks on the same queue                        *)
(* (src/src/Gallium/InspectorThread.cc, Inspector.cc and                   *)
(* Core/AsyncMessageQueue.h).                                              *)
(*                                                                         *)
(* What V8 does with a frontend's message is left open: it may answer,     *)
(* run the program's code, stop at a breakpoint, or resume.                *)
(***************************************************************************)
EXTENDS Sequences, Naturals, Functions

CONSTANTS
    MaxSessions,    \* bound on the connections of frontends
    MaxReceived,    \* bound on the messages of the io thread to the main one
    MaxSent,        \* bound on the answers and notifications
    MaxScripts      \* bound on the other handlers of the main loop that run

ASSUME BoundsAssumption ==
    {MaxSessions, MaxReceived, MaxSent, MaxScripts} \subseteq Nat

VARIABLES
    \* the io thread and its WsContext
    io,             \* "serving", "stopping" (kExit was handled) or "exited"
    conn,           \* current_ws_conn: number of the connection, or 0
    writable,       \* lws owes the connection a SERVER_WRITEABLE callback
    writeQueue,
    \* the two AsyncMessageQueues and the notifier of the first
    recvQueue, recvSignal, nonBlocking, sendQueue,
    \* the main thread
    main, batch, paused, shouldQuit, hasActive,
    \* history: sessions opened, messages of the io thread in the order of
    \* their arrival and those handled, answers sent and written
    sessions, received, handled, sent, written, scripts

ioVars == <<io, conn, writable, writeQueue>>
recvVars == <<recvQueue, recvSignal>>
mainVars == <<main, batch, paused, shouldQuit, hasActive, nonBlocking>>
countVars == <<sessions, received, handled, sent, written, scripts>>
vars == <<ioVars, recvVars, sendQueue, mainVars, countVars>>

(* kExit; answers are numbered from 1.                                     *)
Exit == 0

(* The inspector is constructed and its thread started                     *)
(* (Runtime::RunWithMainLoop).                                             *)
Init ==
    /\ io = "serving" /\ conn = 0 /\ writable = FALSE /\ writeQueue = <<>>
    /\ recvQueue = <<>> /\ recvSignal = FALSE /\ nonBlocking = FALSE
    /\ sendQueue = <<>>
    /\ main = "loop" /\ batch = <<>> /\ paused = FALSE /\ shouldQuit = FALSE
    /\ hasActive = FALSE
    /\ sessions = 0 /\ received = 0 /\ handled = {} /\ sent = 0
    /\ written = <<>> /\ scripts = 0

-----------------------------------------------------------------------------
(* The io thread: ws_protocol_callback and the handler of send_queue_      *)

(* Enqueue of recv_queue_, with the arrival's number                       *)
EnqueueRecv(type) ==
    /\ received' = received + 1
    /\ recvQueue' = Append(recvQueue, [type |-> type, id |-> received + 1])
    /\ recvSignal' = TRUE

(* A second frontend is rejected; for an accepted one the callback asks to *)
(* write what is waiting.                                                  *)
Established ==
    /\ io = "serving" /\ conn = 0
    /\ sessions < MaxSessions /\ received < MaxReceived
    /\ sessions' = sessions + 1
    /\ conn' = sessions + 1
    /\ writable' = (writeQueue # <<>>)
    /\ EnqueueRecv("connect")
    /\ UNCHANGED <<io, writeQueue, sendQueue, mainVars, handled, sent, written,
                   scripts>>

Receive ==
    /\ io = "serving" /\ conn # 0 /\ received < MaxReceived
    /\ EnqueueRecv("payload")
    /\ UNCHANGED <<ioVars, sendQueue, mainVars, sessions, handled, sent, written,
                   scripts>>

(* LWS_CALLBACK_CLOSED                                                     *)
ConnectionCloses ==
    /\ conn' = 0 /\ writable' = FALSE
    /\ EnqueueRecv("disconnect")

Closed ==
    /\ io = "serving" /\ conn # 0
    /\ ConnectionCloses
    /\ UNCHANGED <<io, writeQueue, sendQueue, mainVars, sessions, handled, sent,
                   written, scripts>>

Writeable ==
    /\ conn # 0 /\ writable
    /\ writable' = FALSE
    /\ written' = written \o writeQueue
    /\ writeQueue' = <<>>
    /\ UNCHANGED <<io, conn, recvVars, sendQueue, mainVars, sessions, received,
                   handled, sent, scripts>>

(* The handler of send_queue_ for an answer; the messages of a batch are   *)
(* taken one at a time                                                     *)
TakeAnswer ==
    /\ io # "exited" /\ sendQueue # <<>> /\ Head(sendQueue) # Exit
    /\ sendQueue' = Tail(sendQueue)
    /\ writeQueue' = Append(writeQueue, Head(sendQueue))
    /\ writable' = (writable \/ conn # 0)
    /\ UNCHANGED <<io, conn, recvVars, mainVars, countVars>>

(* ... and for kExit: lws_context_destroy closes the connection.           *)
TakeExit ==
    /\ io = "serving" /\ sendQueue # <<>> /\ Head(sendQueue) = Exit
    /\ sendQueue' = Tail(sendQueue)
    /\ io' = "stopping"
    /\ IF conn # 0 THEN ConnectionCloses
       ELSE UNCHANGED <<conn, writable, recvVars, received>>
    /\ UNCHANGED <<writeQueue, mainVars, sessions, handled, sent, written, scripts>>

(* lws_service returns; the thread drops its queue and ends.               *)
IoThreadExits ==
    /\ io = "stopping"
    /\ io' = "exited"
    /\ sendQueue' = <<>>
    /\ UNCHANGED <<conn, writable, writeQueue, recvVars, mainVars, countVars>>

-----------------------------------------------------------------------------
(* The main thread: OnMessageComing, WaitOnce and OnMainThreadRecvMessage  *)

(* Mutant: one message is taken for every wake-up.                         *)
TakeFirst ==
    /\ batch' = SubSeq(recvQueue, 1, 1)
    /\ recvQueue' = <<>>

TakeAll ==
    /\ batch' = recvQueue
    /\ recvQueue' = <<>>

OnMessageComing ==
    /\ main = "loop" /\ batch = <<>> /\ recvSignal
    /\ recvSignal' = FALSE
    /\ TakeAll
    /\ UNCHANGED <<ioVars, sendQueue, main, paused, shouldQuit, hasActive,
                   nonBlocking, countVars>>

SetNonBlocking(b) == nonBlocking' = b

(* OnMainThreadRecvMessage; dispatching a payload runs V8.                 *)
OnMainThreadRecvMessage(msg) ==
    /\ handled' = handled \cup {msg.id}
    /\ IF msg.type = "payload"
       THEN /\ main' = "running"
            /\ UNCHANGED <<hasActive, nonBlocking, shouldQuit>>
       ELSE /\ hasActive' = (msg.type = "connect")
            /\ SetNonBlocking(msg.type = "disconnect")
            /\ shouldQuit' = (shouldQuit \/ msg.type = "disconnect")
            /\ UNCHANGED main

HandleNext ==
    /\ main = "loop" /\ batch # <<>>
    /\ OnMainThreadRecvMessage(Head(batch))
    /\ batch' = Tail(batch)
    /\ UNCHANGED <<ioVars, recvVars, sendQueue, paused, sessions,
                   received, sent, written, scripts>>

(* Mutant: the wake-up is taken back with the message.                     *)
ClearSignal == recvSignal' = FALSE

KeepSignal == UNCHANGED recvSignal

(* One round of runMessageLoopOnPause: WaitOnce blocks until the queue has *)
(* a message; the notifier keeps its flag, and the batch under the paused  *)
(* frame stays where it is.                                                *)
WaitOnce ==
    /\ main = "waiting" /\ ~shouldQuit /\ recvQueue # <<>>
    /\ OnMainThreadRecvMessage(Head(recvQueue))
    /\ recvQueue' = Tail(recvQueue)
    /\ KeepSignal
    /\ UNCHANGED <<ioVars, sendQueue, batch, paused,
                   sessions, received, sent, written, scripts>>

(* Any other handler of the loop enters JavaScript.                        *)
RunScript ==
    /\ main = "loop" /\ batch = <<>> /\ scripts < MaxScripts
    /\ main' = "running"
    /\ scripts' = scripts + 1
    /\ UNCHANGED <<ioVars, recvVars, sendQueue, batch, paused, shouldQuit,
                   hasActive, nonBlocking, sessions, received,
                   handled, sent, written>>

(* InspectorThread::Send: nothing is sent without a session.               *)
Send ==
    /\ main = "running" /\ hasActive /\ sent < MaxSent
    /\ sent' = sent + 1
    /\ sendQueue' = Append(sendQueue, sent + 1)
    /\ UNCHANGED <<ioVars, recvVars, mainVars, sessions, received, handled,
                   written, scripts>>

(* Mutant: the nested loop is not marked as one.                           *)
MarkNothing == UNCHANGED paused

MarkNested == paused' = TRUE

(* runMessageLoopOnPause; a nested call returns at once.                   *)
RunMessageLoopOnPause ==
    /\ main = "running" /\ ~paused
    /\ main' = "waiting" /\ MarkNested /\ shouldQuit' = FALSE
    /\ UNCHANGED <<ioVars, recvVars, sendQueue, batch, hasActive, nonBlocking, countVars>>

QuitMessageLoopOnPause ==
    /\ main = "running" /\ paused /\ ~shouldQuit
    /\ shouldQuit' = TRUE
    /\ UNCHANGED <<ioVars, recvVars, sendQueue, main, batch, paused, hasActive,
                   nonBlocking, countVars>>

(* V8 returns to the loop it was called from, ...                          *)
V8Returns ==
    /\ main = "running"
    /\ main' = IF paused THEN "waiting" ELSE "loop"
    /\ UNCHANGED <<ioVars, recvVars, sendQueue, batch, paused, shouldQuit,
                   hasActive, nonBlocking, countVars>>

(* ... and the nested loop to the paused program.                          *)
PauseEnds ==
    /\ main = "waiting" /\ shouldQuit
    /\ main' = "running" /\ paused' = FALSE
    /\ UNCHANGED <<ioVars, recvVars, sendQueue, batch, shouldQuit, hasActive,
                   nonBlocking, countVars>>

(* SpinRun leaves a loop the queue does not keep alive, and the inspector  *)
(* is destroyed: InspectorThread::Dispose.                                 *)
Dispose ==
    /\ main = "loop" /\ batch = <<>> /\ nonBlocking
    /\ main' = "joining"
    /\ sendQueue' = Append(sendQueue, Exit)
    /\ SetNonBlocking(TRUE)
    /\ UNCHANGED <<ioVars, recvVars, batch, paused, shouldQuit, hasActive, countVars>>

Joined ==
    /\ main = "joining" /\ io = "exited"
    /\ main' = "gone"
    /\ UNCHANGED <<ioVars, recvVars, sendQueue, batch, paused, shouldQuit,
                   hasActive, nonBlocking, countVars>>

-----------------------------------------------------------------------------
Frontend == Established \/ Receive \/ Closed

IoThread == Writeable \/ TakeAnswer \/ TakeExit \/ IoThreadExits

Program ==
    \/ RunScript \/ Send
    \/ RunMessageLoopOnPause \/ QuitMessageLoopOnPause

MainThread ==
    \/ OnMessageComing \/ HandleNext \/ WaitOnce
    \/ V8Returns \/ PauseEnds \/ Joined

Next == Frontend \/ IoThread \/ Program \/ MainThread \/ Dispose

(* Both loops serve their handles and V8 returns from what it runs; what   *)
(* frontends and the program do is left open.                              *)
Fairness == WF_vars(IoThread) /\ WF_vars(MainThread)

Spec == Init /\ [][Next]_vars /\ Fairness

-----------------------------------------------------------------------------
(* Correctness.                                                            *)

Arrivals == [type : {"connect", "disconnect", "payload"}, id : Nat]

TypeControl ==
    /\ io \in {"serving", "stopping", "exited"}
    /\ main \in {"loop", "running", "waiting", "joining", "gone"}
    /\ writable \in BOOLEAN /\ recvSignal \in BOOLEAN /\ nonBlocking \in BOOLEAN
    /\ paused \in BOOLEAN /\ shouldQuit \in BOOLEAN /\ hasActive \in BOOLEAN
    /\ main = "waiting" => paused

TypeCounts ==
    /\ sessions \in 0 .. MaxSessions /\ conn \in 0 .. sessions
    /\ received \in Nat /\ handled \subseteq 1 .. received
    /\ sent \in 0 .. MaxSent /\ scripts \in 0 .. MaxScripts

TypeQueues ==
    /\ recvQueue \in Seq(Arrivals) /\ batch \in Seq(Arrivals)
    /\ sendQueue \in Seq(Nat) /\ writeQueue \in Seq(Nat) /\ written \in Seq(Nat)

(* The type invariant; the main thread waits on the queue only while it is *)
(* paused.                                                                 *)
TypeOK == TypeControl /\ TypeCounts /\ TypeQueues

Rising(s) == \A i, j \in DOMAIN s : i < j => s[i].id < s[j].id

(* What has arrived and was not handled is in the batch or the queue, each *)
(* in the order of arrival, with the batch older, ...                      *)
ArrivalsKept ==
    /\ Rising(batch) /\ Rising(recvQueue)
    /\ \A old \in Range(batch), new \in Range(recvQueue) : old.id < new.id
    /\ {msg.id : msg \in Range(batch) \cup Range(recvQueue)}
          = (1 .. received) \ handled

Numbers(n) == [i \in 1 .. n |-> i]

ExitOnItsWay ==
    IF main = "joining" /\ io = "serving" THEN <<Exit>> ELSE <<>>

(* ... and every answer is written, waiting to be, or on its way, in the   *)
(* order of Send and before kExit.                                         *)
AnswersKept ==
    io # "exited" =>
        written \o writeQueue \o sendQueue = Numbers(sent) \o ExitOnItsWay

(* A message of either direction is at one place, through any pause and    *)
(* any change of session.                                                  *)
NothingLost == ArrivalsKept /\ AnswersKept

(* The io thread stops for the main thread's join only.                    *)
Phases ==
    /\ main \notin {"joining", "gone"} => io = "serving"
    /\ main = "gone" => io = "exited"

(* The inductive invariant of the proofs                                   *)
IndInv == TypeOK /\ Phases /\ NothingLost

(* The comment on the nested loop (Inspector.cc:82-86): "These methods     *)
(* will set `should_quit_loop_` to exit this loop properly."  A disconnect *)
(* the main thread has yet to handle ends the pause, if no frontend        *)
(* connects again.                                                         *)
DisconnectEndsPause ==
    (/\ paused /\ conn = 0
     /\ \E msg \in Range(batch) \cup Range(recvQueue) : msg.type = "disconnect")
    ~> (~paused \/ conn # 0)

(* Whatever arrives is handled while the main thread runs, by the loop or  *)
(* by a pause: wake-ups that a pause makes superfluous, and those left to  *)
(* the loop after it, neither lose nor strand a message.  Only the rest    *)
(* of the batch a pause interrupted waits for its end.                     *)
ArrivalsHandled ==
    \A n \in 1 .. MaxReceived :
       received >= n ~> \/ n \in handled \/ main \in {"joining", "gone"}
                        \/ paused /\ \E msg \in Range(batch) : msg.id = n

=============================================================================
