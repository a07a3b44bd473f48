----------------------------- MODULE MessagePorts -----------------------------
(***************************************************************************)
(* Message ports between a runtime and the worker it started: posting,     *)
(* transferring a port inside a message, receiving, listening and closing, *)
(* the worker's end and the parent's two ways of joining it                *)
(* (src/src/Gallium/bindings/workers/: MessagePort.cc, MessagePortWrap.cc, *)
(* Worker.cc; Gallium/bindings/EventEmitter.cc).                           *)
(*                                                                         *)
(* A port is a C++ object shared by the JavaScript wrappers made for it,   *)
(* by a message that carries it and, for WorkerPort, by the worker thread. *)
(* Of a message only its place in the receiver's order and the port it     *)
(* carries are kept.  A handler that calls no function of a port is a step *)
(* that changes nothing; every other call is an action of its thread,      *)
(* also while the thread is inside a message callback.                     *)
(***************************************************************************)
EXTENDS Sequences, Naturals, Functions

CONSTANTS
    Main, Worker,           \* the parent's thread and the worker's
    Ports, Peer,            \* Peer[p] is the port p is connected to
    ParentPort, WorkerPort, \* the pair MakeFromURL creates
    MaxPosts,               \* bound on the messages posted
    MaxChanges,             \* bound on the listeners set or removed and the
                            \* ports closed or collected
    None

Threads == {Main, Worker}

ASSUME PeerAssumption ==
    /\ Peer \in [Ports -> Ports]
    /\ \A p \in Ports : Peer[p] # p /\ Peer[Peer[p]] = p
ASSUME WorkerPortAssumption ==
    ParentPort \in Ports /\ WorkerPort = Peer[ParentPort]
ASSUME NamesAssumption ==
    /\ Main # Worker /\ None \notin Threads /\ None \notin Ports
    /\ None \notin [to : Ports, carries : Ports \cup {None}]
ASSUME BoundAssumption == MaxPosts \in Nat /\ MaxChanges \in Nat

VARIABLES
    \* MessagePort
    loop,       \* thread whose event loop the port is attached to, or None
    callback,   \* thread whose wrapper installed receive_callback_, or None
    queue,      \* recv_queue_
    signal,     \* message_notifier_ has been sent
    \* MessagePortWrap: state of thread t's latest wrapper of port p, and the
    \* ports on whose wrapper t has "message" listeners
    wrapper, hears,
    \* threads
    posting,    \* message between Finalize and PostSerializedMessage
    current, batch, inCallback,     \* OnMessageReceive in progress
    life, exitHook, checkHook, joins,
    \* history
    posts, changes, sent, got

portVars == <<loop, callback, queue, signal>>
wrapVars == <<wrapper, hears>>
receiveVars == <<current, batch, inCallback>>
lifeVars == <<life, exitHook, checkHook, joins>>
countVars == <<posts, changes, sent, got>>
vars == <<portVars, wrapVars, posting, receiveVars, lifeVars, countVars>>

Message(id, q) == [id |-> id, carries |-> q]

(* Messages no listener has been given yet.                                *)
InFlight ==
    UNION {Range(queue[p]) : p \in Ports}
    \cup UNION {Range(batch[t]) : t \in Threads}
    \cup {Message(0, posting[t].carries) : t \in {u \in Threads : posting[u] # None}}

Exists(p) ==
    \/ \E t \in Threads : wrapper[t][p] # "none"
    \/ \E msg \in InFlight : msg.carries = p
    \/ p = WorkerPort /\ life[Worker] # "exited"

(* The worker runs, its pair is attached; the parent has made the others   *)
(* with MessagePort.MakeConnectedPair().                                   *)
Init ==
    /\ loop = [p \in Ports |-> IF p = WorkerPort THEN Worker ELSE Main]
    /\ callback = [p \in Ports |-> None]
    /\ queue = [p \in Ports |-> <<>>]
    /\ signal = [p \in Ports |-> FALSE]
    /\ wrapper = [t \in Threads |-> [p \in Ports |->
                    IF (t = Worker) = (p = WorkerPort) THEN "open" ELSE "none"]]
    /\ hears = [t \in Threads |-> {}]
    /\ posting = [t \in Threads |-> None]
    /\ current = [t \in Threads |-> None]
    /\ batch = [t \in Threads |-> <<>>]
    /\ inCallback = [t \in Threads |-> FALSE]
    /\ life = [t \in Threads |-> "running"]
    /\ exitHook = TRUE /\ checkHook = TRUE /\ joins = 0
    /\ posts = 0 /\ changes = 0
    /\ sent = [p \in Ports |-> 0]
    /\ got = [t \in Threads |-> [p \in Ports |-> 0]]

(* JavaScript of thread t may be running: in a message callback, or in any *)
(* other handler of its loop.                                              *)
JavaScript(t) ==
    /\ life[t] = "running" /\ posting[t] = None
    /\ current[t] # None => inCallback[t]

-----------------------------------------------------------------------------
(* MessagePort and MessagePortWrap                                         *)

Change == changes < MaxChanges /\ changes' = changes + 1

DetachFromEventLoop(p) ==
    /\ loop' = [loop EXCEPT ![p] = None]
    /\ queue' = [queue EXCEPT ![p] = <<>>]
    /\ signal' = [signal EXCEPT ![p] = FALSE]

SetReceiveCallback(p, t) == callback' = [callback EXCEPT ![p] = t]

(* The port goes, or is closed: nothing is left of it on a loop.           *)
Detached(p) == DetachFromEventLoop(p) /\ SetReceiveCallback(p, None)

EmitterDispose(t, p) == wrapper' = [wrapper EXCEPT ![t][p] = "disposed"]

(* MessagePortWrap::close; CheckClosedPort throws for a detached port.     *)
Close(t, p) ==
    /\ Change
    /\ JavaScript(t) /\ wrapper[t][p] # "none" /\ loop[p] # None
    /\ Detached(p) /\ EmitterDispose(t, p)
    /\ UNCHANGED <<hears, posting, receiveVars, lifeVars, posts, sent, got>>

(* Mutant: a transferred port stays attached where it was.                 *)
CloseNothing(t, q) == UNCHANGED <<portVars, wrapper>>

(* MessagePortWrapFlattenedData::Transfer closes the port the message takes *)
CloseTransferred(t, q) ==
    IF q = None THEN UNCHANGED <<portVars, wrapper>>
    ELSE Detached(q) /\ EmitterDispose(t, q)

(* postMessage up to the peer's lock.  The call is refused on a closed     *)
(* port, for a carried port that is the sender or the receiver, and for a  *)
(* closed one; it returns without effect when the peer is gone.            *)
PostMessage(t, p, q) ==
    /\ JavaScript(t) /\ posts < MaxPosts
    /\ wrapper[t][p] # "none" /\ loop[p] # None /\ Exists(Peer[p])
    /\ q # None =>
          q \notin {p, Peer[p]} /\ wrapper[t][q] # "none" /\ loop[q] # None
    /\ posts' = posts + 1
    /\ posting' = [posting EXCEPT ![t] = [to |-> Peer[p], carries |-> q]]
    /\ CloseTransferred(t, q)
    /\ UNCHANGED <<hears, receiveVars, lifeVars, changes, sent, got>>

(* PostSerializedMessage finds the peer detached: the message and the port *)
(* it carries are destroyed, and postMessage throws.                       *)
PostFails(t) ==
    /\ posting[t] # None /\ loop[posting[t].to] = None
    /\ posting' = [posting EXCEPT ![t] = None]
    /\ UNCHANGED <<portVars, wrapVars, receiveVars, lifeVars, countVars>>

(* Mutant: the loop is not woken.                                          *)
NoSend(p) == UNCHANGED signal

Send(p) == signal' = [signal EXCEPT ![p] = TRUE]

PostSerializedMessage(t) ==
    LET p == posting[t].to IN
    /\ posting[t] # None /\ loop[p] # None
    /\ queue' = [queue EXCEPT ![p] =
                    Append(@, Message(sent[p] + 1, posting[t].carries))]
    /\ Send(p)
    /\ sent' = [sent EXCEPT ![p] = @ + 1]
    /\ posting' = [posting EXCEPT ![t] = None]
    /\ UNCHANGED <<loop, callback, wrapVars, receiveVars, lifeVars, posts, changes,
                   got>>

(* The first "message" listener; EmitterSetListener throws when the wrapper *)
(* has been closed.                                                        *)
Listen(t, p) ==
    /\ Change
    /\ JavaScript(t) /\ wrapper[t][p] = "open" /\ p \notin hears[t]
    /\ hears' = [hears EXCEPT ![t] = @ \cup {p}]
    /\ SetReceiveCallback(p, t)
    /\ UNCHANGED <<loop, queue, signal, wrapper, posting, receiveVars, lifeVars,
                   posts, sent, got>>

(* The last listener goes, by removeListener or after a once-listener ran; *)
(* nothing asks whether the wrapper still is the port's.                   *)
Unlisten(t, p) ==
    /\ Change
    /\ JavaScript(t) /\ p \in hears[t]
    /\ hears' = [hears EXCEPT ![t] = @ \ {p}]
    /\ SetReceiveCallback(p, None)
    /\ UNCHANGED <<loop, queue, signal, wrapper, posting, receiveVars, lifeVars,
                   posts, sent, got>>

(* A wrapper nothing refers to is collected, and ~MessagePort runs when it *)
(* was the port's last holder.                                             *)
Collect(t, p) ==
    /\ Change
    /\ life[t] = "running" /\ wrapper[t][p] # "none"
    /\ p \notin hears[t] /\ current[t] # p
    /\ wrapper' = [wrapper EXCEPT ![t][p] = "none"]
    /\ IF \/ \E u \in Threads \ {t} : wrapper[u][p] # "none"
          \/ p = WorkerPort
          \/ loop[p] = None
       THEN UNCHANGED portVars
       ELSE Detached(p)
    /\ UNCHANGED <<hears, posting, receiveVars, lifeVars, posts, sent, got>>

-----------------------------------------------------------------------------
(* MessagePort::OnMessageReceive on the loop the port is attached to       *)

(* Mutant: the queue keeps what the batch has taken.                       *)
KeepQueue(p) == queue[p]

Emptied(p) == <<>>

(* All waiting messages are taken; without a callback they are dropped.    *)
OnMessageReceive(t, p) ==
    /\ life[t] = "running" /\ posting[t] = None /\ current[t] = None
    /\ loop[p] = t /\ signal[p]
    /\ signal' = [signal EXCEPT ![p] = FALSE]
    /\ queue' = [queue EXCEPT ![p] = Emptied(p)]
    /\ IF callback[p] = None \/ queue[p] = <<>>
       THEN UNCHANGED <<current, batch>>
       ELSE /\ current' = [current EXCEPT ![t] = p]
            /\ batch' = [batch EXCEPT ![t] = queue[p]]
    /\ UNCHANGED <<loop, callback, wrapVars, posting, inCallback, lifeVars,
                   countVars>>

(* MessagePortWrapFlattenedData::Deserialize attaches the carried port and *)
(* makes a wrapper of it for the receiving thread.                         *)
Received(t, q) ==
    IF q = None THEN UNCHANGED <<loop, wrapVars>>
    ELSE /\ loop' = [loop EXCEPT ![q] = t]
         /\ wrapper' = [wrapper EXCEPT ![t][q] = "open"]
         /\ hears' = [hears EXCEPT ![t] = @ \ {q}]

(* ReceiveSerializedMessage up to the listener's first instruction         *)
Deliver(t) ==
    LET p == current[t] IN
    /\ p # None /\ ~inCallback[t] /\ batch[t] # <<>> /\ callback[p] # None
    /\ Received(t, Head(batch[t]).carries)
    /\ got' = [got EXCEPT ![t][p] = Head(batch[t]).id]
    /\ batch' = [batch EXCEPT ![t] = Tail(@)]
    /\ inCallback' = [inCallback EXCEPT ![t] = TRUE]
    /\ UNCHANGED <<callback, queue, signal, posting, current, lifeVars, posts, changes,
                   sent>>

(* Mutant: what is left of the batch is kept for later.                    *)
KeepBatch(t) == UNCHANGED batch

DropBatch(t) == batch' = [batch EXCEPT ![t] = <<>>]

(* The batch ends early when the port was detached; if another thread has  *)
(* attached it again since, it goes on.                                    *)
AfterMessage(t, rest) ==
    IF loop[current[t]] = None \/ rest = <<>>
    THEN current' = [current EXCEPT ![t] = None] /\ DropBatch(t)
    ELSE /\ batch' = [batch EXCEPT ![t] = rest]
         /\ UNCHANGED current

(* ReceiveSerializedMessage returns at once when the callback is gone.     *)
Skip(t) ==
    /\ current[t] # None /\ ~inCallback[t] /\ callback[current[t]] = None
    /\ AfterMessage(t, Tail(batch[t]))
    /\ UNCHANGED <<portVars, wrapVars, posting, inCallback, lifeVars, countVars>>

CallbackReturns(t) ==
    /\ inCallback[t] /\ posting[t] = None
    /\ inCallback' = [inCallback EXCEPT ![t] = FALSE]
    /\ AfterMessage(t, batch[t])
    /\ UNCHANGED <<portVars, wrapVars, posting, lifeVars, countVars>>

-----------------------------------------------------------------------------
(* The worker's end and its parent                                         *)

(* Only listened ports are referenced on a loop.                           *)
LoopEmpty(t) ==
    /\ posting[t] = None /\ current[t] = None
    /\ \A p \in Ports : loop[p] = t => callback[p] = None

(* SpinRun returns and WorkerRuntime is disposed: its wrappers go, with    *)
(* the ports no one else holds.                                            *)
DisposeRuntime ==
    /\ life[Worker] = "running" /\ LoopEmpty(Worker)
    /\ life' = [life EXCEPT ![Worker] = "disposed"]
    /\ wrapper' = [wrapper EXCEPT ![Worker] = [p \in Ports |-> "none"]]
    /\ hears' = [hears EXCEPT ![Worker] = {}]
    /\ LET Dies(p) == /\ loop[p] = Worker /\ p # WorkerPort
                      /\ wrapper[Main][p] = "none"
       IN /\ loop' = [p \in Ports |-> IF Dies(p) THEN None ELSE loop[p]]
          /\ queue' = [p \in Ports |-> IF Dies(p) THEN <<>> ELSE queue[p]]
          /\ signal' = [p \in Ports |-> IF Dies(p) THEN FALSE ELSE signal[p]]
    /\ UNCHANGED <<callback, posting, receiveVars, exitHook, checkHook, joins,
                   countVars>>

(* The end of worker_entrypoint: detach, delete the loop, store the flag.  *)
WorkerExits ==
    /\ life[Worker] = "disposed"
    /\ life' = [life EXCEPT ![Worker] = "exited"]
    /\ DetachFromEventLoop(WorkerPort)
    /\ UNCHANGED <<callback, wrapVars, posting, receiveVars, exitHook, checkHook, joins,
                   countVars>>

(* Mutant: the hook that joins at exit stays behind.                       *)
KeepExitHook == UNCHANGED exitHook

RemoveExitHook == exitHook' = FALSE

(* The kAfterTasksCheckpoint callback, once the worker's flag is down      *)
JoinAtCheckpoint ==
    /\ life[Main] = "running" /\ checkHook /\ life[Worker] = "exited"
    /\ joins' = joins + 1 /\ checkHook' = FALSE /\ RemoveExitHook
    /\ UNCHANGED <<portVars, wrapVars, posting, receiveVars, life, countVars>>

(* The parent's SpinRun leaves its loop ...                                *)
ParentLoopEnds ==
    /\ life[Main] = "running" /\ LoopEmpty(Main)
    /\ life' = [life EXCEPT ![Main] = "leaving"]
    /\ UNCHANGED <<portVars, wrapVars, posting, receiveVars, exitHook, checkHook,
                   joins, countVars>>

(* ... and blocks in the kBeforeSpinRunExit callback, if it is still there *)
JoinAtExit ==
    /\ life[Main] = "leaving"
    /\ exitHook => life[Worker] = "exited"
    /\ life' = [life EXCEPT ![Main] = "left"]
    /\ joins' = IF exitHook THEN joins + 1 ELSE joins
    /\ exitHook' = FALSE
    /\ UNCHANGED <<portVars, wrapVars, posting, receiveVars, checkHook, countVars>>

-----------------------------------------------------------------------------
Program(t) ==
    \E p \in Ports :
       \/ Close(t, p) \/ Listen(t, p) \/ Unlisten(t, p) \/ Collect(t, p)
       \/ \E q \in Ports \cup {None} : PostMessage(t, p, q)

Runtime(t) ==
    \/ PostFails(t) \/ PostSerializedMessage(t)
    \/ Deliver(t) \/ Skip(t) \/ CallbackReturns(t)

Lifecycle ==
    \/ DisposeRuntime \/ WorkerExits
    \/ JoinAtCheckpoint \/ ParentLoopEnds \/ JoinAtExit

Next ==
    \/ \E t \in Threads : Program(t) \/ Runtime(t)
    \/ \E t \in Threads, p \in Ports : OnMessageReceive(t, p)
    \/ Lifecycle

(* Calls and callbacks return, and a loop with a signalled handle serves   *)
(* one; that is enough for all of them, because the messages are bounded.  *)
(* What programs do, and when a loop runs empty, is left open.             *)
Fairness ==
    \A t \in Threads :
       WF_vars(Runtime(t) \/ \E p \in Ports : OnMessageReceive(t, p))

Spec == Init /\ [][Next]_vars /\ Fairness

-----------------------------------------------------------------------------
(* Correctness.                                                            *)

Messages == [id : Nat, carries : Ports \cup {None}]

TypePorts ==
    /\ loop \in [Ports -> Threads \cup {None}]
    /\ callback \in [Ports -> Threads \cup {None}]
    /\ queue \in [Ports -> Seq(Messages)] /\ signal \in [Ports -> BOOLEAN]

TypeWraps ==
    /\ wrapper \in [Threads -> [Ports -> {"none", "open", "disposed"}]]
    /\ hears \in [Threads -> SUBSET Ports]

TypePosts ==
    /\ posting \in [Threads -> {None} \cup
                               [to : Ports, carries : Ports \cup {None}]]
    /\ posts \in 0 .. MaxPosts /\ changes \in 0 .. MaxChanges
    /\ sent \in [Ports -> Nat]
    /\ got \in [Threads -> [Ports -> Nat]]

TypeBatches ==
    /\ current \in [Threads -> Ports \cup {None}]
    /\ batch \in [Threads -> Seq(Messages)]
    /\ inCallback \in [Threads -> BOOLEAN]
    /\ \A t \in Threads :
          /\ current[t] = None => batch[t] = <<>> /\ ~inCallback[t]
          /\ current[t] # None /\ ~inCallback[t] => batch[t] # <<>>

TypeLives ==
    /\ life \in [Threads -> {"running", "disposed", "exited", "leaving", "left"}]
    /\ exitHook \in BOOLEAN /\ checkHook \in BOOLEAN /\ joins \in Nat

(* The type invariant; a thread outside OnMessageReceive holds no batch.   *)
TypeOK == TypePorts /\ TypeWraps /\ TypePosts /\ TypeBatches /\ TypeLives

Rising(s) == \A i, j \in DOMAIN s : i < j => s[i].id < s[j].id

QueueInOrder(p) ==
    Rising(queue[p]) /\ \A msg \in Range(queue[p]) : msg.id <= sent[p]

BatchInOrder(t, p) ==
    current[t] = p =>
       Rising(batch[t]) /\ \A msg \in Range(batch[t]) : got[t][p] < msg.id

QueueIsNew(t, p) ==
    loop[p] = t =>
       \A new \in Range(queue[p]) :
          /\ got[t][p] < new.id
          /\ current[t] = p => \A old \in Range(batch[t]) : old.id < new.id

(* A thread is given a port's messages at most once and in the order they  *)
(* were posted, through batches, nested posts, moves of the port to        *)
(* another thread and back (PostSerializedMessage, OnMessageReceive).      *)
InOrder ==
    \A p \in Ports :
       /\ QueueInOrder(p)
       /\ \A t \in Threads : BatchInOrder(t, p) /\ QueueIsNew(t, p)

(* The places of messages, and those whose message carries p.              *)
Places ==
    {<<"queue", q>> : q \in Ports}
    \cup {<<"batch", t>> : t \in Threads} \cup {<<"posting", t>> : t \in Threads}

Contents(l) ==
    CASE l[1] = "queue" -> queue[l[2]]
      [] l[1] = "batch" -> batch[l[2]]
      [] OTHER -> IF posting[l[2]] = None THEN <<>>
                  ELSE <<Message(0, posting[l[2]].carries)>>

Carriers(p) ==
    UNION {{<<l, i>> : i \in {j \in DOMAIN Contents(l) :
                               Contents(l)[j].carries = p}} : l \in Places}

(* A port on its way is in one message only, attached nowhere and holds no *)
(* message, whichever old wrappers of it are still in use (Transfer,       *)
(* Deserialize).                                                           *)
CarriedOnce ==
    \A p \in Ports :
       /\ \A c, d \in Carriers(p) : c = d
       /\ Carriers(p) # {} => loop[p] = None /\ queue[p] = <<>>

(* A worker is joined once, whether the parent notices its end or waits    *)
(* for it, and always before the parent's loop has been left for good      *)
(* (MakeFromURL).                                                          *)
JoinedOnce ==
    joins <= 1 /\ (life[Main] = "left" => joins = 1)

(* The inductive invariant of the proofs: a detached port has no messages, *)
(* none is newer than the last one posted, and one of the parent's two     *)
(* hooks is left until it joins.                                           *)
Bounds ==
    /\ \A p \in Ports : loop[p] = None => queue[p] = <<>>
    /\ \A t \in Threads, p \in Ports :
          /\ got[t][p] <= sent[p]
          /\ current[t] = p => \A msg \in Range(batch[t]) : msg.id <= sent[p]

Once ==
    \A l, m \in Places :
       \A i \in DOMAIN Contents(l), j \in DOMAIN Contents(m) :
          Contents(l)[i].carries = Contents(m)[j].carries =>
             Contents(l)[i].carries = None \/ (l = m /\ i = j)

Away ==
    \A l \in Places : \A i \in DOMAIN Contents(l) :
       LET p == Contents(l)[i].carries IN p # None => loop[p] = None

Joins ==
    /\ joins = IF exitHook THEN 0 ELSE 1
    /\ life[Main] \in {"running", "leaving", "left"}
    /\ IF life[Main] = "left" THEN ~exitHook ELSE checkHook = exitHook

IndInv == TypeOK /\ Bounds /\ InOrder /\ Once /\ Away /\ Joins

Heard(p) == loop[p] # None /\ callback[p] # None

Waiting(p) ==
    Range(queue[p])
    \cup UNION {Range(batch[t]) : t \in {u \in Threads : current[u] = p}}

(* What was posted to a port that is attached and listened to is delivered *)
(* unless the port is closed, moved or no longer listened to: wake-ups     *)
(* coalesce, but none is lost.                                             *)
AcceptedDelivered ==
    \A p \in Ports, n \in 1 .. MaxPosts :
       (Heard(p) /\ \E msg \in Waiting(p) : msg.id = n)
       ~> ((\E t \in Threads : got[t][p] >= n) \/ ~Heard(p))

(* The assertion of the emitter's callable: "Different v8::Isolate".  A    *)
(* listener is called by the thread whose wrapper it was added to.         *)
ListenerOnOwnIsolate ==
    [][ \A t \in Threads : ~inCallback[t] /\ inCallback'[t] =>
           callback[current[t]] = t ]_vars

=============================================================================
