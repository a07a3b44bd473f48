-------------------------- MODULE MessagePortsProofs --------------------------
(***************************************************************************)
(* TLAPS proofs about message ports: for any ports, posts and calls, a     *)
(* thread gets a port's messages once and in order, a port on its way is   *)
(* in one message, and a worker is joined once.                            *)
(***************************************************************************)
EXTENDS MessagePorts, SequenceTheorems, TLAPS

USE DEF portVars, wrapVars, receiveVars, lifeVars, countVars

(* The names of threads and ports that the constants keep apart.             *)
LEMMA Names ==
    /\ WorkerPort \in Ports /\ Main \in Threads /\ Worker \in Threads
    /\ Main # Worker /\ None \notin Threads /\ None \notin Ports
    /\ \A p \in Ports : Peer[p] \in Ports /\ Peer[p] # p
  BY PeerAssumption, WorkerPortAssumption, NamesAssumption DEF Threads

-------------------------------------------------------------------------------
(* Sequences of messages.                                                    *)
LEMMA EmptyMessages ==
    <<>> \in Seq(Messages) /\ Range(<<>>) = {} /\ Rising(<<>>) /\ DOMAIN <<>> = {}
  <1>1. <<>> \in Seq(Messages) /\ DOMAIN <<>> = {}
    OBVIOUS
  <1> QED BY <1>1, Zenon DEF Range, Rising

(* A queue after a message was posted.                                       *)
LEMMA RangeAppend ==
    ASSUME NEW s \in Seq(Messages), NEW m \in Messages
    PROVE  /\ Append(s, m) \in Seq(Messages)
           /\ \A x \in Range(Append(s, m)) : x \in Range(s) \/ x = m
           /\ DOMAIN Append(s, m) = DOMAIN s \cup {Len(s) + 1}
           /\ Append(s, m)[Len(s) + 1] = m /\ Len(s) + 1 \notin DOMAIN s
           /\ \A i \in DOMAIN s : Append(s, m)[i] = s[i]
  <1>1. /\ DOMAIN Append(s, m) = DOMAIN s \cup {Len(s) + 1}
        /\ Append(s, m) \in Seq(Messages) /\ Len(s) + 1 \notin DOMAIN s
    OBVIOUS
  <1>2. Append(s, m)[Len(s) + 1] = m /\ \A i \in DOMAIN s : Append(s, m)[i] = s[i]
    OBVIOUS
  <1> QED BY <1>1, <1>2, Zenon DEF Range

(* A newer message keeps a queue in order.                                   *)
LEMMA RisingAppend ==
    ASSUME NEW s \in Seq(Messages), NEW m \in Messages, Rising(s),
           \A x \in Range(s) : x.id < m.id
    PROVE  Rising(Append(s, m))
  <1> SUFFICES ASSUME NEW i \in DOMAIN Append(s, m), NEW j \in DOMAIN Append(s, m),
                      i < j
               PROVE  Append(s, m)[i].id < Append(s, m)[j].id
    BY DEF Rising
  <1>1. i \in DOMAIN s
    OBVIOUS
  <1>2. CASE j \in DOMAIN s
    BY <1>1, <1>2, RangeAppend DEF Rising
  <1>3. CASE j = Len(s) + 1
    <2>1. s[i] \in Range(s)
      BY <1>1, Zenon DEF Range
    <2> QED BY <1>1, <1>3, <2>1, RangeAppend
  <1> QED BY <1>2, <1>3, RangeAppend

(* A queue after its first message was taken.                                *)
LEMMA TailFacts ==
    ASSUME NEW s \in Seq(Messages), s # <<>>
    PROVE  /\ Tail(s) \in Seq(Messages) /\ Head(s) \in Messages
           /\ Head(s) = s[1] /\ 1 \in DOMAIN s
           /\ \A i \in DOMAIN Tail(s) :
                 i + 1 \in DOMAIN s /\ i + 1 # 1 /\ Tail(s)[i] = s[i + 1]
           /\ Head(s) \in Range(s)
           /\ \A x \in Range(Tail(s)) : x \in Range(s)
  <1>1. /\ Tail(s) \in Seq(Messages) /\ Head(s) \in Messages
        /\ Head(s) = s[1] /\ 1 \in DOMAIN s
    OBVIOUS
  <1>2. \A i \in DOMAIN Tail(s) :
           i + 1 \in DOMAIN s /\ i + 1 # 1 /\ Tail(s)[i] = s[i + 1]
    OBVIOUS
  <1> QED BY <1>1, <1>2, Zenon DEF Range

(* The first message is the oldest.                                          *)
LEMMA RisingTail ==
    ASSUME NEW s \in Seq(Messages), s # <<>>, Rising(s)
    PROVE  Rising(Tail(s)) /\ \A x \in Range(Tail(s)) : Head(s).id < x.id
  <1>1. \A i, j \in DOMAIN Tail(s) : i < j =>
           i + 1 \in DOMAIN s /\ j + 1 \in DOMAIN s /\ i + 1 < j + 1
    OBVIOUS
  <1>2. \A i \in DOMAIN Tail(s) : 1 < i + 1
    OBVIOUS
  <1>3. Rising(Tail(s))
    BY <1>1, TailFacts DEF Rising
  <1>4. ASSUME NEW i \in DOMAIN Tail(s) PROVE Head(s).id < Tail(s)[i].id
    BY <1>2, <1>4, TailFacts DEF Rising
  <1> QED BY <1>3, <1>4, Zenon DEF Range

(* The message a thread is about to post.                                    *)
LEMMA MessageTypes ==
    ASSUME TypePosts, NEW t \in Threads, posting[t] # None, NEW n \in Nat
    PROVE  /\ posting[t].to \in Ports /\ posting[t].carries \in Ports \cup {None}
           /\ Message(n, posting[t].carries) \in Messages
           /\ Message(n, posting[t].carries).id = n
           /\ Message(n, posting[t].carries).carries = posting[t].carries
  BY DEF TypePosts, Message, Messages

(* The fields of the messages in a sequence.                                 *)
LEMMA ElementTypes ==
    ASSUME NEW s \in Seq(Messages)
    PROVE  /\ \A x \in Range(s) : x.id \in Nat /\ x.carries \in Ports \cup {None}
           /\ \A i \in DOMAIN s : s[i] \in Range(s) /\ s[i].carries \in Ports \cup {None}
  <1>1. \A i \in DOMAIN s : s[i] \in Messages
    OBVIOUS
  <1>2. \A i \in DOMAIN s : s[i].id \in Nat /\ s[i].carries \in Ports \cup {None}
    BY <1>1 DEF Messages
  <1> QED BY <1>2, Zenon DEF Range

-------------------------------------------------------------------------------
(* Types.                                                                    *)
LEMMA DetachTypes ==
    ASSUME TypePorts, NEW p \in Ports, DetachFromEventLoop(p)
    PROVE  /\ loop' \in [Ports -> Threads \cup {None}]
           /\ queue' \in [Ports -> Seq(Messages)] /\ signal' \in [Ports -> BOOLEAN]
  <1>1. queue' \in [Ports -> Seq(Messages)]
    BY EmptyMessages DEF TypePorts, DetachFromEventLoop
  <1> QED BY <1>1 DEF TypePorts, DetachFromEventLoop

(* Detaching a port keeps the types.                                         *)
LEMMA DetachedTypes ==
    ASSUME TypePorts, NEW p \in Ports, Detached(p)
    PROVE  TypePorts'
  <1>1. callback' \in [Ports -> Threads \cup {None}]
    BY DEF TypePorts, Detached, SetReceiveCallback
  <1> QED BY <1>1, DetachTypes DEF TypePorts, Detached

(* The ports keep their types.                                               *)
LEMMA PortsStep ==
    ASSUME TypePorts, TypeWraps, TypePosts, TypeBatches, TypeLives,
           [Next]_vars
    PROVE  TypePorts'
  <1>1. ASSUME NEW t \in Threads, NEW p \in Ports, Close(t, p)
        PROVE  TypePorts'
    BY <1>1, DetachedTypes DEF Close
  <1>2. ASSUME NEW t \in Threads, NEW p \in Ports, Listen(t, p)
        PROVE  TypePorts'
    BY <1>2 DEF Listen, Change, TypePorts, SetReceiveCallback
  <1>3. ASSUME NEW t \in Threads, NEW p \in Ports, Unlisten(t, p)
        PROVE  TypePorts'
    BY <1>3 DEF Unlisten, Change, TypePorts, SetReceiveCallback
  <1>4. ASSUME NEW t \in Threads, NEW p \in Ports, Collect(t, p)
        PROVE  TypePorts'
    <2>1. Detached(p) \/ UNCHANGED portVars
      BY <1>4, Zenon DEF Collect
    <2> QED BY <2>1, DetachedTypes DEF TypePorts
  <1>5. ASSUME NEW t \in Threads, NEW p \in Ports, NEW q \in Ports \cup {None}, PostMessage(t, p, q)
        PROVE  TypePorts'
    <2>1. (q \in Ports /\ Detached(q)) \/ UNCHANGED portVars
      BY <1>5, Zenon DEF PostMessage, CloseTransferred
    <2> QED BY <2>1, DetachedTypes DEF TypePorts
  <1>6. ASSUME NEW t \in Threads, PostFails(t) PROVE TypePorts'
    BY <1>6 DEF PostFails, TypePorts, SetReceiveCallback
  <1>7. ASSUME NEW t \in Threads, PostSerializedMessage(t) PROVE TypePorts'
    <2> DEFINE to == posting[t].to
               msg == Message(sent[to] + 1, posting[t].carries)
    <2>1. /\ posting[t] # None /\ queue' = [queue EXCEPT ![to] = Append(@, msg)]
          /\ UNCHANGED <<loop, callback>> /\ signal' = [signal EXCEPT ![to] = TRUE]
      BY <1>7, Zenon DEF PostSerializedMessage, Send
    <2>2. to \in Ports
      BY <2>1, MessageTypes DEF TypePosts
    <2>3. sent[to] + 1 \in Nat
      BY <2>2 DEF TypePosts
    <2>4. msg \in Messages
      BY <2>1, <2>3, MessageTypes, Zenon
    <2>5. queue[to] \in Seq(Messages)
      BY <2>2 DEF TypePorts
    <2>6. Append(queue[to], msg) \in Seq(Messages)
      BY <2>4, <2>5, RangeAppend, Zenon
    <2> HIDE DEF to, msg
    <2>7. queue' \in [Ports -> Seq(Messages)]
      BY <2>1, <2>6 DEF TypePorts
    <2> QED BY <2>1, <2>7 DEF TypePorts
  <1>8. ASSUME NEW t \in Threads, Deliver(t) PROVE TypePorts'
    <2> DEFINE q == Head(batch[t]).carries
    <2>1. /\ UNCHANGED <<callback, queue, signal>> /\ batch[t] # <<>>
          /\ loop' = loop \/ (q # None /\ loop' = [loop EXCEPT ![q] = t])
      BY <1>8, Zenon DEF Deliver, Received
    <2>2. loop' \in [Ports -> Threads \cup {None}]
      BY <2>1 DEF TypePorts
    <2> QED BY <2>1, <2>2 DEF TypePorts
  <1>9. ASSUME NEW t \in Threads, Skip(t) PROVE TypePorts'
    BY <1>9 DEF Skip, AfterMessage, DropBatch, TypePorts, SetReceiveCallback
  <1>10. ASSUME NEW t \in Threads, CallbackReturns(t) PROVE TypePorts'
    BY <1>10 DEF CallbackReturns, AfterMessage, DropBatch, TypePorts,
       SetReceiveCallback
  <1>11. ASSUME NEW t \in Threads, NEW p \in Ports, OnMessageReceive(t, p)
        PROVE  TypePorts'
    <2>1. /\ signal' = [signal EXCEPT ![p] = FALSE] /\ queue' = [queue EXCEPT ![p] = <<>>]
          /\ UNCHANGED <<loop, callback>>
      BY <1>11 DEF OnMessageReceive, Emptied
    <2>2. queue' \in [Ports -> Seq(Messages)]
      BY <2>1, EmptyMessages DEF TypePorts
    <2> QED BY <2>1, <2>2 DEF TypePorts
  <1>12. CASE DisposeRuntime
    <2>1. loop' \in [Ports -> Threads \cup {None}]
      BY <1>12 DEF DisposeRuntime, TypePorts
    <2>2. signal' \in [Ports -> BOOLEAN]
      BY <1>12 DEF DisposeRuntime, TypePorts
    <2>3. queue' \in [Ports -> Seq(Messages)]
      BY <1>12, EmptyMessages DEF DisposeRuntime, TypePorts
    <2> QED BY <1>12, <2>1, <2>2, <2>3 DEF DisposeRuntime, TypePorts
  <1>13. CASE WorkerExits
    BY <1>13, DetachTypes, Names DEF WorkerExits, TypePorts
  <1>14. CASE JoinAtCheckpoint
    BY <1>14 DEF JoinAtCheckpoint, RemoveExitHook, TypePorts,
       SetReceiveCallback
  <1>15. CASE ParentLoopEnds
    BY <1>15 DEF ParentLoopEnds, TypePorts, SetReceiveCallback
  <1>16. CASE JoinAtExit
    BY <1>16 DEF JoinAtExit, TypePorts, SetReceiveCallback
  <1>17. CASE UNCHANGED vars
    BY <1>17 DEF vars, TypePorts
  <1> QED
    BY <1>1, <1>2, <1>3, <1>4, <1>5, <1>6, <1>7, <1>8, <1>9, <1>10, <1>11,
       <1>12, <1>13, <1>14, <1>15, <1>16, <1>17
       DEF Next, Program, Runtime, Lifecycle

(* The wrappers keep their types.                                            *)
LEMMA WrapsStep ==
    ASSUME TypePorts, TypeWraps, TypePosts, TypeBatches, TypeLives,
           [Next]_vars
    PROVE  TypeWraps'
  <1>1. ASSUME NEW t \in Threads, NEW p \in Ports, Close(t, p)
        PROVE  TypeWraps'
    BY <1>1 DEF Close, Change, EmitterDispose, TypeWraps
  <1>2. ASSUME NEW t \in Threads, NEW p \in Ports, Listen(t, p)
        PROVE  TypeWraps'
    BY <1>2 DEF Listen, Change, TypeWraps
  <1>3. ASSUME NEW t \in Threads, NEW p \in Ports, Unlisten(t, p)
        PROVE  TypeWraps'
    BY <1>3 DEF Unlisten, Change, TypeWraps
  <1>4. ASSUME NEW t \in Threads, NEW p \in Ports, Collect(t, p)
        PROVE  TypeWraps'
    BY <1>4 DEF Collect, Change, TypeWraps
  <1>5. ASSUME NEW t \in Threads, NEW p \in Ports, NEW q \in Ports \cup {None}, PostMessage(t, p, q)
        PROVE  TypeWraps'
    BY <1>5 DEF PostMessage, CloseTransferred, EmitterDispose, TypeWraps
  <1>6. ASSUME NEW t \in Threads, PostFails(t) PROVE TypeWraps'
    BY <1>6 DEF PostFails, TypeWraps
  <1>7. ASSUME NEW t \in Threads, PostSerializedMessage(t) PROVE TypeWraps'
    BY <1>7 DEF PostSerializedMessage, TypeWraps
  <1>8. ASSUME NEW t \in Threads, Deliver(t) PROVE TypeWraps'
    <2> DEFINE q == Head(batch[t]).carries
    <2>1. /\ batch[t] # <<>>
          /\ \/ UNCHANGED wrapVars
             \/ /\ q # None /\ wrapper' = [wrapper EXCEPT ![t][q] = "open"]
                /\ hears' = [hears EXCEPT ![t] = @ \ {q}]
      BY <1>8, Zenon DEF Deliver, Received
    <2>2. q \in Ports \cup {None}
      BY <2>1, TailFacts DEF TypeBatches, Messages
    <2> HIDE DEF q
    <2>3. wrapper' \in [Threads -> [Ports -> {"none", "open", "disposed"}]]
      <3>1. CASE wrapper' = [wrapper EXCEPT ![t][q] = "open"]
        <4>1. [wrapper[t] EXCEPT ![q] = "open"] \in [Ports -> {"none", "open", "disposed"}]
          BY DEF TypeWraps
        <4> QED BY <3>1, <4>1 DEF TypeWraps
      <3> QED BY <2>1, <3>1 DEF TypeWraps
    <2>4. hears' \in [Threads -> SUBSET Ports]
      <3>1. CASE hears' = [hears EXCEPT ![t] = @ \ {q}]
        <4>1. hears[t] \ {q} \in SUBSET Ports
          BY DEF TypeWraps
        <4> QED BY <3>1, <4>1 DEF TypeWraps
      <3> QED BY <2>1, <3>1 DEF TypeWraps
    <2> QED BY <2>3, <2>4 DEF TypeWraps
  <1>9. ASSUME NEW t \in Threads, Skip(t) PROVE TypeWraps'
    BY <1>9 DEF Skip, AfterMessage, DropBatch, TypeWraps
  <1>10. ASSUME NEW t \in Threads, CallbackReturns(t) PROVE TypeWraps'
    BY <1>10 DEF CallbackReturns, AfterMessage, DropBatch, TypeWraps
  <1>11. ASSUME NEW t \in Threads, NEW p \in Ports, OnMessageReceive(t, p)
        PROVE  TypeWraps'
    BY <1>11 DEF OnMessageReceive, Emptied, TypeWraps
  <1>12. CASE DisposeRuntime
    BY <1>12 DEF DisposeRuntime, TypeWraps
  <1>13. CASE WorkerExits
    BY <1>13 DEF WorkerExits, DetachFromEventLoop, TypeWraps
  <1>14. CASE JoinAtCheckpoint
    BY <1>14 DEF JoinAtCheckpoint, RemoveExitHook, TypeWraps
  <1>15. CASE ParentLoopEnds
    BY <1>15 DEF ParentLoopEnds, TypeWraps
  <1>16. CASE JoinAtExit
    BY <1>16 DEF JoinAtExit, TypeWraps
  <1>17. CASE UNCHANGED vars
    BY <1>17 DEF vars, TypeWraps
  <1> QED
    BY <1>1, <1>2, <1>3, <1>4, <1>5, <1>6, <1>7, <1>8, <1>9, <1>10, <1>11,
       <1>12, <1>13, <1>14, <1>15, <1>16, <1>17
       DEF Next, Program, Runtime, Lifecycle

(* What was posted keeps its types.                                          *)
LEMMA PostsStep ==
    ASSUME TypePorts, TypeWraps, TypePosts, TypeBatches, TypeLives,
           [Next]_vars
    PROVE  TypePosts'
  <1>1. ASSUME NEW t \in Threads, NEW p \in Ports, Close(t, p)
        PROVE  TypePosts'
    <2>1. changes < MaxChanges /\ changes' = changes + 1 /\ UNCHANGED <<posting, posts, sent, got>>
      BY <1>1, Zenon DEF Close, Change
    <2> QED BY <2>1, BoundAssumption DEF TypePosts
  <1>2. ASSUME NEW t \in Threads, NEW p \in Ports, Listen(t, p)
        PROVE  TypePosts'
    <2>1. changes < MaxChanges /\ changes' = changes + 1 /\ UNCHANGED <<posting, posts, sent, got>>
      BY <1>2, Zenon DEF Listen, Change
    <2> QED BY <2>1, BoundAssumption DEF TypePosts
  <1>3. ASSUME NEW t \in Threads, NEW p \in Ports, Unlisten(t, p)
        PROVE  TypePosts'
    <2>1. changes < MaxChanges /\ changes' = changes + 1 /\ UNCHANGED <<posting, posts, sent, got>>
      BY <1>3, Zenon DEF Unlisten, Change
    <2> QED BY <2>1, BoundAssumption DEF TypePosts
  <1>4. ASSUME NEW t \in Threads, NEW p \in Ports, Collect(t, p)
        PROVE  TypePosts'
    <2>1. changes < MaxChanges /\ changes' = changes + 1 /\ UNCHANGED <<posting, posts, sent, got>>
      BY <1>4, Zenon DEF Collect, Change
    <2> QED BY <2>1, BoundAssumption DEF TypePosts
  <1>5. ASSUME NEW t \in Threads, NEW p \in Ports, NEW q \in Ports \cup {None}, PostMessage(t, p, q)
        PROVE  TypePosts'
    <2>1. /\ posting' = [posting EXCEPT ![t] = [to |-> Peer[p], carries |-> q]]
          /\ posts < MaxPosts /\ posts' = posts + 1 /\ UNCHANGED <<changes, sent, got>>
      BY <1>5, Zenon DEF PostMessage
    <2>2. posting' \in [Threads -> {None} \cup [to : Ports, carries : Ports \cup {None}]]
      BY <2>1, Names DEF TypePosts
    <2> QED BY <2>1, <2>2, BoundAssumption DEF TypePosts
  <1>6. ASSUME NEW t \in Threads, PostFails(t) PROVE TypePosts'
    BY <1>6 DEF PostFails, TypePosts
  <1>7. ASSUME NEW t \in Threads, PostSerializedMessage(t) PROVE TypePosts'
    <2>1. /\ sent' = [sent EXCEPT ![posting[t].to] = @ + 1]
          /\ posting' = [posting EXCEPT ![t] = None] /\ UNCHANGED <<posts, changes, got>>
      BY <1>7, Zenon DEF PostSerializedMessage
    <2>2. \A n \in Nat : n + 1 \in Nat
      OBVIOUS
    <2>3. sent' \in [Ports -> Nat]
      BY <2>1, <2>2 DEF TypePosts
    <2>4. posting' \in [Threads -> {None} \cup [to : Ports, carries : Ports \cup {None}]]
      BY <2>1 DEF TypePosts
    <2> QED BY <2>1, <2>3, <2>4 DEF TypePosts
  <1>8. ASSUME NEW t \in Threads, Deliver(t) PROVE TypePosts'
    <2>1. /\ got' = [got EXCEPT ![t][current[t]] = Head(batch[t]).id] /\ batch[t] # <<>>
          /\ UNCHANGED <<posting, posts, changes, sent>>
      BY <1>8, Zenon DEF Deliver
    <2>2. Head(batch[t]).id \in Nat
      BY <2>1, TailFacts DEF TypeBatches, Messages
    <2>3. got' \in [Threads -> [Ports -> Nat]]
      BY <2>1, <2>2 DEF TypePosts
    <2> QED BY <2>1, <2>3 DEF TypePosts
  <1>9. ASSUME NEW t \in Threads, Skip(t) PROVE TypePosts'
    BY <1>9 DEF Skip, AfterMessage, DropBatch, TypePosts
  <1>10. ASSUME NEW t \in Threads, CallbackReturns(t) PROVE TypePosts'
    BY <1>10 DEF CallbackReturns, AfterMessage, DropBatch, TypePosts
  <1>11. ASSUME NEW t \in Threads, NEW p \in Ports, OnMessageReceive(t, p)
        PROVE  TypePosts'
    BY <1>11 DEF OnMessageReceive, Emptied, TypePosts
  <1>12. CASE DisposeRuntime
    BY <1>12 DEF DisposeRuntime, TypePosts
  <1>13. CASE WorkerExits
    BY <1>13 DEF WorkerExits, DetachFromEventLoop, TypePosts
  <1>14. CASE JoinAtCheckpoint
    BY <1>14 DEF JoinAtCheckpoint, RemoveExitHook, TypePosts
  <1>15. CASE ParentLoopEnds
    BY <1>15 DEF ParentLoopEnds, TypePosts
  <1>16. CASE JoinAtExit
    BY <1>16 DEF JoinAtExit, TypePosts
  <1>17. CASE UNCHANGED vars
    BY <1>17 DEF vars, TypePosts
  <1> QED
    BY <1>1, <1>2, <1>3, <1>4, <1>5, <1>6, <1>7, <1>8, <1>9, <1>10, <1>11,
       <1>12, <1>13, <1>14, <1>15, <1>16, <1>17
       DEF Next, Program, Runtime, Lifecycle

(* Going on to the next message keeps the types.                             *)
LEMMA AfterTypes ==
    ASSUME TypeBatches, NEW t \in Threads, current[t] # None,
           NEW rest \in Seq(Messages), AfterMessage(t, rest),
           inCallback' = [inCallback EXCEPT ![t] = FALSE]
    PROVE  TypeBatches'
  <1>1. CASE current' = [current EXCEPT ![t] = None] /\ batch' = [batch EXCEPT ![t] = <<>>]
    <2>1. batch' \in [Threads -> Seq(Messages)]
      BY <1>1, EmptyMessages DEF TypeBatches
    <2> QED BY <1>1, <2>1 DEF TypeBatches
  <1>2. CASE rest # <<>> /\ current' = current /\ batch' = [batch EXCEPT ![t] = rest]
    <2>1. batch' \in [Threads -> Seq(Messages)]
      BY <1>2 DEF TypeBatches
    <2> QED BY <1>2, <2>1 DEF TypeBatches
  <1>3. (loop[current[t]] = None \/ rest = <<>>) \/ rest # <<>>
    OBVIOUS
  <1> QED BY <1>1, <1>2, Zenon DEF AfterMessage, DropBatch

(* The batches keep their types.                                             *)
LEMMA BatchesStep ==
    ASSUME TypePorts, TypeWraps, TypePosts, TypeBatches, TypeLives,
           [Next]_vars
    PROVE  TypeBatches'
  <1>1. ASSUME NEW t \in Threads, NEW p \in Ports, Close(t, p)
        PROVE  TypeBatches'
    BY <1>1 DEF Close, Change, EmitterDispose, TypeBatches
  <1>2. ASSUME NEW t \in Threads, NEW p \in Ports, Listen(t, p)
        PROVE  TypeBatches'
    BY <1>2 DEF Listen, Change, TypeBatches
  <1>3. ASSUME NEW t \in Threads, NEW p \in Ports, Unlisten(t, p)
        PROVE  TypeBatches'
    BY <1>3 DEF Unlisten, Change, TypeBatches
  <1>4. ASSUME NEW t \in Threads, NEW p \in Ports, Collect(t, p)
        PROVE  TypeBatches'
    BY <1>4 DEF Collect, Change, TypeBatches
  <1>5. ASSUME NEW t \in Threads, NEW p \in Ports, NEW q \in Ports \cup {None}, PostMessage(t, p, q)
        PROVE  TypeBatches'
    BY <1>5 DEF PostMessage, CloseTransferred, EmitterDispose, TypeBatches
  <1>6. ASSUME NEW t \in Threads, PostFails(t) PROVE TypeBatches'
    BY <1>6 DEF PostFails, TypeBatches
  <1>7. ASSUME NEW t \in Threads, PostSerializedMessage(t) PROVE TypeBatches'
    BY <1>7 DEF PostSerializedMessage, TypeBatches
  <1>8. ASSUME NEW t \in Threads, Deliver(t) PROVE TypeBatches'
    <2>1. /\ current[t] # None /\ batch[t] # <<>> /\ current' = current
          /\ batch' = [batch EXCEPT ![t] = Tail(batch[t])]
          /\ inCallback' = [inCallback EXCEPT ![t] = TRUE]
      BY <1>8, Zenon DEF Deliver
    <2>2. Tail(batch[t]) \in Seq(Messages)
      BY <2>1, TailFacts DEF TypeBatches
    <2>3. batch' \in [Threads -> Seq(Messages)]
      BY <2>1, <2>2 DEF TypeBatches
    <2> QED BY <2>1, <2>3 DEF TypeBatches
  <1>9. ASSUME NEW t \in Threads, Skip(t) PROVE TypeBatches'
    <2>1. /\ AfterMessage(t, Tail(batch[t])) /\ current[t] # None /\ ~inCallback[t]
          /\ inCallback' = inCallback
      BY <1>9, Zenon DEF Skip
    <2>2. Tail(batch[t]) \in Seq(Messages)
      BY <2>1, TailFacts DEF TypeBatches
    <2>3. inCallback' = [inCallback EXCEPT ![t] = FALSE]
      BY <2>1, Zenon DEF TypeBatches
    <2> QED BY <2>1, <2>2, <2>3, AfterTypes
  <1>10. ASSUME NEW t \in Threads, CallbackReturns(t) PROVE TypeBatches'
    <2>1. /\ AfterMessage(t, batch[t]) /\ inCallback[t]
          /\ inCallback' = [inCallback EXCEPT ![t] = FALSE]
      BY <1>10, Zenon DEF CallbackReturns
    <2>2. batch[t] \in Seq(Messages) /\ current[t] # None
      BY <2>1 DEF TypeBatches
    <2> QED BY <2>1, <2>2, AfterTypes
  <1>11. ASSUME NEW t \in Threads, NEW p \in Ports, OnMessageReceive(t, p)
        PROVE  TypeBatches'
    <2>1. /\ current[t] = None /\ inCallback' = inCallback
          /\ \/ UNCHANGED <<current, batch>>
             \/ /\ queue[p] # <<>> /\ current' = [current EXCEPT ![t] = p]
                /\ batch' = [batch EXCEPT ![t] = queue[p]]
      BY <1>11, Zenon DEF OnMessageReceive
    <2>2. queue[p] \in Seq(Messages)
      BY DEF TypePorts
    <2>3. batch' \in [Threads -> Seq(Messages)]
      BY <2>1, <2>2 DEF TypeBatches
    <2> QED BY <2>1, <2>3, Names DEF TypeBatches
  <1>12. CASE DisposeRuntime
    BY <1>12 DEF DisposeRuntime, TypeBatches
  <1>13. CASE WorkerExits
    BY <1>13 DEF WorkerExits, DetachFromEventLoop, TypeBatches
  <1>14. CASE JoinAtCheckpoint
    BY <1>14 DEF JoinAtCheckpoint, RemoveExitHook, TypeBatches
  <1>15. CASE ParentLoopEnds
    BY <1>15 DEF ParentLoopEnds, TypeBatches
  <1>16. CASE JoinAtExit
    BY <1>16 DEF JoinAtExit, TypeBatches
  <1>17. CASE UNCHANGED vars
    BY <1>17 DEF vars, TypeBatches
  <1> QED
    BY <1>1, <1>2, <1>3, <1>4, <1>5, <1>6, <1>7, <1>8, <1>9, <1>10, <1>11,
       <1>12, <1>13, <1>14, <1>15, <1>16, <1>17
       DEF Next, Program, Runtime, Lifecycle

(* The threads' lives and the joins keep their types, and a worker is joined *)
(* when its last hook goes.                                                  *)
LEMMA LivesStep ==
    ASSUME TypePorts, TypeWraps, TypePosts, TypeBatches, TypeLives, Joins,
           [Next]_vars
    PROVE  TypeLives' /\ Joins'
  <1>1. ASSUME NEW t \in Threads, NEW p \in Ports, Close(t, p)
        PROVE  TypeLives' /\ Joins'
    BY <1>1 DEF Close, Change, EmitterDispose, TypeLives, Joins
  <1>2. ASSUME NEW t \in Threads, NEW p \in Ports, Listen(t, p)
        PROVE  TypeLives' /\ Joins'
    BY <1>2 DEF Listen, Change, TypeLives, Joins
  <1>3. ASSUME NEW t \in Threads, NEW p \in Ports, Unlisten(t, p)
        PROVE  TypeLives' /\ Joins'
    BY <1>3 DEF Unlisten, Change, TypeLives, Joins
  <1>4. ASSUME NEW t \in Threads, NEW p \in Ports, Collect(t, p)
        PROVE  TypeLives' /\ Joins'
    BY <1>4 DEF Collect, Change, TypeLives, Joins
  <1>5. ASSUME NEW t \in Threads, NEW p \in Ports, NEW q \in Ports \cup {None}, PostMessage(t, p, q)
        PROVE  TypeLives' /\ Joins'
    BY <1>5 DEF PostMessage, CloseTransferred, EmitterDispose, TypeLives,
       Joins
  <1>6. ASSUME NEW t \in Threads, PostFails(t) PROVE TypeLives' /\ Joins'
    BY <1>6 DEF PostFails, TypeLives, Joins
  <1>7. ASSUME NEW t \in Threads, PostSerializedMessage(t)
        PROVE  TypeLives' /\ Joins'
    BY <1>7 DEF PostSerializedMessage, TypeLives, Joins
  <1>8. ASSUME NEW t \in Threads, Deliver(t) PROVE TypeLives' /\ Joins'
    BY <1>8 DEF Deliver, Received, TypeLives, Joins
  <1>9. ASSUME NEW t \in Threads, Skip(t) PROVE TypeLives' /\ Joins'
    BY <1>9 DEF Skip, AfterMessage, DropBatch, TypeLives, Joins
  <1>10. ASSUME NEW t \in Threads, CallbackReturns(t)
        PROVE  TypeLives' /\ Joins'
    BY <1>10 DEF CallbackReturns, AfterMessage, DropBatch, TypeLives, Joins
  <1>11. ASSUME NEW t \in Threads, NEW p \in Ports, OnMessageReceive(t, p)
        PROVE  TypeLives' /\ Joins'
    BY <1>11 DEF OnMessageReceive, Emptied, TypeLives, Joins
  <1>12. CASE DisposeRuntime
    BY <1>12, Names DEF DisposeRuntime, TypeLives, Joins
  <1>13. CASE WorkerExits
    BY <1>13, Names DEF WorkerExits, DetachFromEventLoop, TypeLives, Joins
  <1>14. CASE JoinAtCheckpoint
    <2>1. /\ life[Main] = "running" /\ checkHook /\ joins' = joins + 1 /\ ~checkHook'
          /\ ~exitHook' /\ life' = life
      BY <1>14 DEF JoinAtCheckpoint, RemoveExitHook
    <2>2. exitHook /\ joins = 0
      BY <2>1 DEF Joins
    <2>3. joins' = 1 /\ joins' \in Nat
      BY <2>1, <2>2
    <2>4. exitHook' \in BOOLEAN /\ checkHook' \in BOOLEAN /\ checkHook' = exitHook'
      BY <1>14, Zenon DEF JoinAtCheckpoint, RemoveExitHook
    <2> QED BY <2>1, <2>3, <2>4 DEF TypeLives, Joins
  <1>15. CASE ParentLoopEnds
    BY <1>15, Names DEF ParentLoopEnds, TypeLives, Joins
  <1>16. CASE JoinAtExit
    <2>1. /\ life[Main] = "leaving" /\ life' = [life EXCEPT ![Main] = "left"]
          /\ joins' = IF exitHook THEN joins + 1 ELSE joins
          /\ exitHook' \in BOOLEAN /\ ~exitHook' /\ checkHook' = checkHook
      BY <1>16, Zenon DEF JoinAtExit
    <2>2. joins = IF exitHook THEN 0 ELSE 1
      BY DEF Joins
    <2>3. joins' = 1
      BY <2>1, <2>2
    <2>4. /\ life' \in [Threads -> {"running", "disposed", "exited", "leaving", "left"}]
          /\ life'[Main] = "left"
      BY <2>1, Names DEF TypeLives
    <2>5. TypeLives'
      BY <2>1, <2>3, <2>4 DEF TypeLives
    <2> QED BY <2>1, <2>3, <2>4, <2>5 DEF Joins
  <1>17. CASE UNCHANGED vars
    BY <1>17 DEF vars, TypeLives, Joins
  <1> QED
    BY <1>1, <1>2, <1>3, <1>4, <1>5, <1>6, <1>7, <1>8, <1>9, <1>10, <1>11,
       <1>12, <1>13, <1>14, <1>15, <1>16, <1>17
       DEF Next, Program, Runtime, Lifecycle

-------------------------------------------------------------------------------
(* What most steps do to the messages: queues, batches and posts stay or     *)
(* are emptied, and a batch may lose its first message.                      *)
QuietPorts ==
    \A p \in Ports : \/ loop'[p] = loop[p] /\ queue'[p] = queue[p]
                     \/ loop'[p] = None /\ queue'[p] = <<>>

(* What a step does that posts and takes nothing: queues are kept or         *)
(* emptied,                                                                  *)
QuietQueues == \A p \in Ports : queue'[p] = queue[p] \/ queue'[p] = <<>>

(* batches are kept, cut at the front or dropped,                            *)
QuietBatches ==
    \A t \in Threads :
       /\ current'[t] = current[t] \/ current'[t] = None
       /\ \/ batch'[t] = batch[t] \/ batch'[t] = <<>>
          \/ batch[t] # <<>> /\ batch'[t] = Tail(batch[t])

(* and posts are kept or given up.                                           *)
QuietPosts == \A t \in Threads : posting'[t] = posting[t] \/ posting'[t] = None

(* A step that brings no message anywhere.                                   *)
Quiet == QuietPorts /\ QuietBatches /\ QuietPosts /\ UNCHANGED <<sent, got>>

(* What is left of a batch was in it, in the same order.                     *)
LEMMA QuietBatch ==
    ASSUME NEW s \in Seq(Messages), NEW r,
           r = s \/ r = <<>> \/ (s # <<>> /\ r = Tail(s))
    PROVE  (\A x \in Range(r) : x \in Range(s)) /\ (Rising(s) => Rising(r))
  BY EmptyMessages, TailFacts, RisingTail, Zenon

(* Quiet steps keep the order of messages.                                   *)
LEMMA QuietOrder ==
    ASSUME TypePorts, TypeBatches, Bounds, InOrder, QuietPorts, QuietBatches,
           UNCHANGED <<sent, got>>
    PROVE  Bounds' /\ InOrder'
  <1>1. ASSUME NEW p \in Ports
        PROVE  /\ \A x \in Range(queue'[p]) : x \in Range(queue[p])
               /\ loop'[p] = None => queue'[p] = <<>>
               /\ Rising(queue'[p])
    <2>1. CASE loop'[p] = loop[p] /\ queue'[p] = queue[p]
      BY <2>1, Zenon DEF Bounds, InOrder, QueueInOrder
    <2>2. CASE loop'[p] = None /\ queue'[p] = <<>>
      BY <2>2, EmptyMessages, Zenon
    <2> QED BY <2>1, <2>2, Zenon DEF QuietPorts
  <1>2. ASSUME NEW t \in Threads
        PROVE  /\ \A x \in Range(batch'[t]) : x \in Range(batch[t])
               /\ Rising(batch[t]) => Rising(batch'[t])
               /\ current'[t] # None => current'[t] = current[t]
    BY QuietBatch DEF QuietBatches, TypeBatches
  <1>3. ASSUME NEW p \in Ports PROVE QueueInOrder(p)'
    <2>1. QueueInOrder(p) /\ sent'[p] = sent[p]
      BY DEF InOrder
    <2> QED BY <1>1, <2>1, Zenon DEF QueueInOrder
  <1>4. ASSUME NEW t \in Threads, NEW p \in Ports
        PROVE  BatchInOrder(t, p)' /\ QueueIsNew(t, p)'
    <2>1. BatchInOrder(t, p) /\ QueueIsNew(t, p) /\ got'[t][p] = got[t][p]
      BY DEF InOrder
    <2>2. p # None /\ t # None
      BY Names
    <2>3. BatchInOrder(t, p)'
      BY <1>2, <2>1, <2>2, Zenon DEF BatchInOrder
    <2>4. ASSUME loop'[p] = t PROVE loop[p] = t
      BY <2>2, <2>4, Zenon DEF QuietPorts
    <2>5. QueueIsNew(t, p)'
      BY <1>1, <1>2, <2>1, <2>2, <2>4, Zenon DEF QueueIsNew
    <2> QED BY <2>3, <2>5
  <1>5. ASSUME NEW t \in Threads, NEW p \in Ports
        PROVE  /\ got'[t][p] <= sent'[p]
               /\ current'[t] = p => \A x \in Range(batch'[t]) : x.id <= sent'[p]
    <2>1. p # None /\ got'[t][p] = got[t][p] /\ sent'[p] = sent[p]
      BY Names
    <2> QED BY <1>2, <2>1, Zenon DEF Bounds
  <1>6. InOrder'
    BY <1>3, <1>4, Zenon DEF InOrder
  <1> QED BY <1>1, <1>5, <1>6, Zenon DEF Bounds

(* The places of messages.                                                   *)
LEMMA PlaceCases ==
    ASSUME NEW l \in Places
    PROVE  \/ \E q \in Ports : l = <<"queue", q>>
           \/ \E t \in Threads : l = <<"batch", t>>
           \/ \E t \in Threads : l = <<"posting", t>>
  BY DEF Places

(* The messages of each kind of place.                                       *)
LEMMA ContentsOf ==
    /\ \A q : Contents(<<"queue", q>>) = queue[q]
    /\ \A t : Contents(<<"batch", t>>) = batch[t]
    /\ \A t : Contents(<<"posting", t>>) =
                 IF posting[t] = None THEN <<>>
                 ELSE <<Message(0, posting[t].carries)>>
    /\ \A q : Contents(<<"queue", q>>)' = queue'[q]
    /\ \A t : Contents(<<"batch", t>>)' = batch'[t]
    /\ \A t : Contents(<<"posting", t>>)' =
                 IF posting'[t] = None THEN <<>>
                 ELSE <<Message(0, posting'[t].carries)>>
  BY DEF Contents

(* Places of different names are different.                                  *)
LEMMA PlacesDiffer ==
    /\ \A q, t : /\ <<"queue", q>> # <<"batch", t>> /\ <<"queue", q>> # <<"posting", t>>
                 /\ <<"batch", q>> # <<"posting", t>>
    /\ \A q, t : <<"queue", q>> = <<"queue", t>> => q = t
    /\ \A q, t : <<"batch", q>> = <<"batch", t>> => q = t
    /\ \A q, t : <<"posting", q>> = <<"posting", t>> => q = t
    /\ \A q \in Ports : <<"queue", q>> \in Places
    /\ \A t \in Threads : <<"batch", t>> \in Places /\ <<"posting", t>> \in Places
  BY DEF Places

(* Every message has been at the same place or, in a batch, one further.     *)
Origin(l, i, k) ==
    /\ k \in DOMAIN Contents(l) /\ Contents(l)[k] = Contents(l)'[i]
    /\ IF \E t \in Threads : l = <<"batch", t>> /\ batch'[t] # batch[t]
       THEN k = i + 1 ELSE k = i

(* A place holds messages that carry a port or none.                         *)
LEMMA ContentTypes ==
    ASSUME TypePorts, TypePosts, TypeBatches, NEW l \in Places, NEW i \in DOMAIN Contents(l)
    PROVE  i \in Nat /\ Contents(l)[i].carries \in Ports \cup {None}
  <1>1. ASSUME NEW q \in Ports, l = <<"queue", q>>
        PROVE  Contents(l) \in Seq(Messages)
    <2>1. queue[q] \in Seq(Messages)
      BY DEF TypePorts
    <2> QED BY <1>1, <2>1, ContentsOf, Zenon
  <1>2. ASSUME NEW t \in Threads, l = <<"batch", t>>
        PROVE  Contents(l) \in Seq(Messages)
    BY <1>2, ContentsOf, Zenon DEF TypeBatches
  <1>3. ASSUME NEW t \in Threads, l = <<"posting", t>>
        PROVE  Contents(l) \in Seq(Messages)
    <2>1. CASE posting[t] = None
      BY <1>3, <2>1, ContentsOf, EmptyMessages
    <2>2. CASE posting[t] # None
      <3>1. Message(0, posting[t].carries) \in Messages
        BY <2>2, MessageTypes
      <3>2. \A m \in Messages : <<m>> \in Seq(Messages)
        OBVIOUS
      <3> QED BY <1>3, <2>2, <3>1, <3>2, ContentsOf, Zenon
    <2> QED BY <2>1, <2>2
  <1>4. Contents(l) \in Seq(Messages)
    BY <1>1, <1>2, <1>3, PlaceCases, Zenon
  <1>5. i \in Nat
    BY <1>4
  <1> QED BY <1>4, <1>5, ElementTypes, Zenon

(* When every message of the next state was one before, none is doubled.     *)
LEMMA OriginKeepsOnce ==
    ASSUME Once, \A l \in Places : \A i \in DOMAIN Contents(l)' :
                    i \in Nat /\ \E k : Origin(l, i, k)
    PROVE  Once'
  <1> SUFFICES ASSUME NEW l \in Places, NEW m \in Places,
                      NEW i \in DOMAIN Contents(l)', NEW j \in DOMAIN Contents(m)',
                      Contents(l)'[i].carries = Contents(m)'[j].carries
               PROVE  Contents(l)'[i].carries = None \/ (l = m /\ i = j)
    BY Zenon DEF Once, Places
  <1>1. i \in Nat /\ j \in Nat
    OBVIOUS
  <1>2. PICK k : Origin(l, i, k)
    OBVIOUS
  <1>3. PICK n : Origin(m, j, n)
    OBVIOUS
  <1>4. Contents(l)[k].carries = None \/ (l = m /\ k = n)
    <2>1. /\ k \in DOMAIN Contents(l) /\ Contents(l)[k] = Contents(l)'[i]
          /\ n \in DOMAIN Contents(m) /\ Contents(m)[n] = Contents(m)'[j]
      BY <1>2, <1>3, Zenon DEF Origin
    <2>2. Contents(l)[k].carries = Contents(m)[n].carries
      BY <2>1
    <2> QED BY <2>1, <2>2, Zenon DEF Once
  <1>5. ASSUME l = m, k = n PROVE i = j
    <2> DEFINE Moved == \E t \in Threads : l = <<"batch", t>> /\ batch'[t] # batch[t]
    <2>2. CASE Moved
      BY <1>1, <1>2, <1>3, <1>5, <2>2 DEF Origin
    <2>3. CASE ~Moved
      BY <1>1, <1>2, <1>3, <1>5, <2>3 DEF Origin
    <2> QED BY <2>2, <2>3
  <1> QED BY <1>2, <1>4, <1>5, Zenon DEF Origin

(* A quiet step leaves every message where it was, or one further.           *)
LEMMA QuietOrigin ==
    ASSUME TypePorts, TypeBatches, QuietQueues, QuietBatches, QuietPosts,
           NEW l \in Places, NEW i \in DOMAIN Contents(l)'
    PROVE  i \in Nat /\ \E k : Origin(l, i, k)
  <1>1. ASSUME NEW q \in Ports, l = <<"queue", q>>
        PROVE  i \in Nat /\ \E k : Origin(l, i, k)
    <2>1. i \in DOMAIN queue'[q]
      BY <1>1, ContentsOf, Zenon
    <2>2. queue'[q] = queue[q]
      BY <2>1, EmptyMessages, Zenon DEF QuietQueues
    <2>3. i \in DOMAIN queue[q] /\ i \in Nat
      BY <2>1, <2>2 DEF TypePorts
    <2>4. ~\E t \in Threads : l = <<"batch", t>> /\ batch'[t] # batch[t]
      BY <1>1, PlacesDiffer, Zenon
    <2>5. Contents(l) = queue[q] /\ Contents(l)' = queue'[q]
      BY <1>1, ContentsOf, Zenon
    <2>6. Origin(l, i, i)
      BY <2>2, <2>3, <2>4, <2>5, Zenon DEF Origin
    <2> QED BY <2>3, <2>6
  <1>2. ASSUME NEW t \in Threads, l = <<"batch", t>>
        PROVE  i \in Nat /\ \E k : Origin(l, i, k)
    <2>1. Contents(l) = batch[t] /\ Contents(l)' = batch'[t] /\ batch[t] \in Seq(Messages)
      BY <1>2, ContentsOf, Zenon DEF TypeBatches
    <2>2. CASE batch'[t] = batch[t]
      <3>1. i \in Nat /\ i \in DOMAIN batch[t]
        BY <2>1, <2>2
      <3>2. ~\E u \in Threads : l = <<"batch", u>> /\ batch'[u] # batch[u]
        BY <1>2, <2>2, PlacesDiffer, Zenon
      <3>3. Origin(l, i, i)
        BY <2>1, <2>2, <3>1, <3>2, Zenon DEF Origin
      <3> QED BY <3>1, <3>3
    <2>3. CASE batch'[t] # batch[t]
      <3>1. batch[t] # <<>> /\ batch'[t] = Tail(batch[t])
        BY <2>1, <2>3, EmptyMessages, Zenon DEF QuietBatches
      <3>2. i \in DOMAIN Tail(batch[t])
        BY <2>1, <3>1
      <3>3. i \in Nat
        BY <2>1, <3>1, <3>2
      <3>4. Origin(l, i, i + 1)
        <4>1. i + 1 \in DOMAIN batch[t] /\ Tail(batch[t])[i] = batch[t][i + 1]
          BY <2>1, <3>1, <3>2, TailFacts, Zenon
        <4>2. \E u \in Threads : l = <<"batch", u>> /\ batch'[u] # batch[u]
          BY <1>2, <2>3, Zenon
        <4> QED BY <2>1, <3>1, <4>1, <4>2, Zenon DEF Origin
      <3> QED BY <3>3, <3>4
    <2> QED BY <2>2, <2>3, Zenon
  <1>3. ASSUME NEW t \in Threads, l = <<"posting", t>>
        PROVE  i \in Nat /\ \E k : Origin(l, i, k)
    <2>1. posting'[t] = posting[t] /\ posting[t] # None
      BY <1>3, ContentsOf, EmptyMessages, Zenon DEF QuietPosts
    <2>2. /\ Contents(l) = <<Message(0, posting[t].carries)>>
          /\ Contents(l)' = <<Message(0, posting'[t].carries)>>
      BY <1>3, <2>1, ContentsOf, Zenon
    <2>3. i \in Nat /\ i \in DOMAIN Contents(l) /\ Contents(l) = Contents(l)'
      BY <2>1, <2>2
    <2>4. ~\E u \in Threads : l = <<"batch", u>> /\ batch'[u] # batch[u]
      BY <1>3, PlacesDiffer, Zenon
    <2>5. Origin(l, i, i)
      BY <2>3, <2>4, Zenon DEF Origin
    <2> QED BY <2>3, <2>5
  <1> QED BY <1>1, <1>2, <1>3, PlaceCases, Zenon

(* A quiet step keeps carried ports apart and away from the loops.           *)
LEMMA QuietCarries ==
    ASSUME TypePorts, TypePosts, TypeBatches, Once, Away, QuietPorts, QuietBatches,
           QuietPosts
    PROVE  Once' /\ Away'
  <1>1. Once'
    BY QuietOrigin, OriginKeepsOnce, Zenon DEF QuietPorts, QuietQueues
  <1>2. Away'
    <2> SUFFICES ASSUME NEW l \in Places, NEW i \in DOMAIN Contents(l)',
                        Contents(l)'[i].carries # None
                 PROVE  loop'[Contents(l)'[i].carries] = None
      BY Zenon DEF Away, Places
    <2>1. PICK k : Origin(l, i, k)
      BY QuietOrigin, Zenon DEF QuietPorts, QuietQueues
    <2>2. loop[Contents(l)'[i].carries] = None
      BY <2>1, Zenon DEF Origin, Away
    <2>3. Contents(l)'[i].carries \in Ports
      BY <2>1, ContentTypes, Zenon DEF Origin
    <2> QED BY <2>2, <2>3, Zenon DEF QuietPorts
  <1> QED BY <1>1, <1>2

(* A quiet step keeps the invariants.                                        *)
LEMMA QuietKeeps ==
    ASSUME TypePorts, TypePosts, TypeBatches, Bounds, InOrder, Once, Away, Quiet
    PROVE  Bounds' /\ InOrder' /\ Once' /\ Away'
  BY QuietOrder, QuietCarries, Zenon DEF Quiet

(* Once for two given messages.                                              *)
LEMMA OnceAt ==
    ASSUME Once, NEW l \in Places, NEW m \in Places,
           NEW i \in DOMAIN Contents(l), NEW j \in DOMAIN Contents(m),
           Contents(l)[i].carries = Contents(m)[j].carries
    PROVE  Contents(l)[i].carries = None \/ (l = m /\ i = j)
  BY DEF Once

(* Messages moved from the place b to the end of those at a.                 *)
LEMMA MovedCarries ==
    ASSUME Once, Away, NEW a \in Places, NEW b \in Places, a # b, NEW n \in Nat,
           loop' = loop, Contents(b)' = <<>>,
           \A l \in Places \ {a, b} : Contents(l)' = Contents(l),
           \A i \in DOMAIN Contents(a)' :
              \/ /\ i \in Nat /\ i <= n /\ i \in DOMAIN Contents(a)
                 /\ Contents(a)'[i] = Contents(a)[i]
              \/ /\ i \in Nat /\ i > n /\ i - n \in DOMAIN Contents(b)
                 /\ Contents(a)'[i].carries = Contents(b)[i - n].carries
    PROVE  Once' /\ Away'
  <1> DEFINE Kept(l, i) == /\ l # b /\ i \in DOMAIN Contents(l)
                           /\ Contents(l)'[i] = Contents(l)[i]
                           /\ l = a => i \in Nat /\ i <= n
             New(l, i) == /\ l = a /\ i \in Nat /\ i > n /\ i - n \in DOMAIN Contents(b)
                          /\ Contents(l)'[i].carries = Contents(b)[i - n].carries
  <1>1. ASSUME NEW l \in Places, NEW i \in DOMAIN Contents(l)'
        PROVE  Kept(l, i) \/ New(l, i)
    <2>1. l # b
      BY EmptyMessages
    <2>2. CASE l = a
      BY <2>1, <2>2
    <2>3. CASE l # a
      BY <2>1, <2>3
    <2> QED BY <2>2, <2>3
  <1>2. Once'
    <2> SUFFICES ASSUME NEW l \in Places, NEW m \in Places,
                        NEW i \in DOMAIN Contents(l)', NEW j \in DOMAIN Contents(m)',
                        Contents(l)'[i].carries = Contents(m)'[j].carries
                 PROVE  Contents(l)'[i].carries = None \/ (l = m /\ i = j)
      BY Zenon DEF Once, Places
    <2>1. CASE Kept(l, i) /\ Kept(m, j)
      <3>1. Contents(l)[i].carries = Contents(m)[j].carries
        BY <2>1
      <3>2. i \in DOMAIN Contents(l) /\ j \in DOMAIN Contents(m)
        BY <2>1
      <3>3. Contents(l)[i].carries = None \/ (l = m /\ i = j)
        BY <3>1, <3>2, OnceAt
      <3> QED BY <2>1, <3>3
    <2>2. CASE Kept(l, i) /\ New(m, j)
      <3>1. Contents(l)[i].carries = Contents(b)[j - n].carries
        BY <2>2
      <3>2. i \in DOMAIN Contents(l) /\ j - n \in DOMAIN Contents(b) /\ l # b
        BY <2>2
      <3>3. Contents(l)[i].carries = None
        BY <3>1, <3>2, OnceAt
      <3> QED BY <2>2, <3>3
    <2>3. CASE New(l, i) /\ Kept(m, j)
      <3>1. Contents(m)[j].carries = Contents(b)[i - n].carries
        BY <2>3
      <3>2. j \in DOMAIN Contents(m) /\ i - n \in DOMAIN Contents(b) /\ m # b
        BY <2>3
      <3>3. Contents(m)[j].carries = None
        BY <3>1, <3>2, OnceAt
      <3> QED BY <2>3, <3>3
    <2>4. CASE New(l, i) /\ New(m, j)
      <3>1. Contents(b)[i - n].carries = Contents(b)[j - n].carries
        BY <2>4
      <3>2. i - n \in DOMAIN Contents(b) /\ j - n \in DOMAIN Contents(b)
        BY <2>4
      <3>3. Contents(b)[i - n].carries = None \/ i - n = j - n
        BY <3>1, <3>2, OnceAt
      <3>4. i \in Nat /\ j \in Nat /\ l = m
        BY <2>4
      <3>5. i - n = j - n => i = j
        BY <3>4
      <3> QED BY <2>4, <3>3, <3>4, <3>5
    <2> QED BY <1>1, <2>1, <2>2, <2>3, <2>4, Zenon
  <1>3. Away'
    <2> SUFFICES ASSUME NEW l \in Places, NEW i \in DOMAIN Contents(l)',
                        Contents(l)'[i].carries # None
                 PROVE  loop[Contents(l)'[i].carries] = None
      BY Zenon DEF Away, Places
    <2>1. CASE Kept(l, i)
      <3>1. i \in DOMAIN Contents(l) /\ Contents(l)'[i] = Contents(l)[i]
        BY <2>1
      <3> QED BY <3>1, Zenon DEF Away
    <2>2. CASE New(l, i)
      <3>1. /\ i - n \in DOMAIN Contents(b)
            /\ Contents(l)'[i].carries = Contents(b)[i - n].carries
        BY <2>2
      <3> QED BY <3>1, Zenon DEF Away
    <2> QED BY <1>1, <2>1, <2>2, Zenon
  <1> QED BY <1>2, <1>3

(* postMessage: the port the new message carries was in no other message.    *)
LEMMA PostKeeps ==
    ASSUME TypePorts, TypePosts, TypeBatches, Bounds, InOrder, Once, Away,
           NEW t \in Threads, NEW p \in Ports, NEW q \in Ports \cup {None},
           PostMessage(t, p, q)
    PROVE  Bounds' /\ InOrder' /\ Once' /\ Away'
  <1> DEFINE s == <<"posting", t>>
  <1>1. /\ posting[t] = None
        /\ posting' = [posting EXCEPT ![t] = [to |-> Peer[p], carries |-> q]]
        /\ q # None => loop[q] # None /\ Detached(q)
        /\ q = None => UNCHANGED portVars
        /\ UNCHANGED <<current, batch, sent, got>>
    BY Zenon DEF PostMessage, JavaScript, CloseTransferred
  <1>2. QuietPorts /\ QuietQueues /\ (q # None => loop'[q] = None)
    <2>1. CASE q = None
      BY <1>1, <2>1 DEF QuietPorts, QuietQueues
    <2>2. CASE q # None
      <3>1. /\ loop' = [loop EXCEPT ![q] = None] /\ queue' = [queue EXCEPT ![q] = <<>>]
        BY <1>1, <2>2, Zenon DEF Detached, DetachFromEventLoop
      <3> QED BY <2>2, <3>1 DEF QuietPorts, QuietQueues, TypePorts
    <2> QED BY <2>1, <2>2
  <1>3. QuietBatches
    BY <1>1, Zenon DEF QuietBatches
  <1>4. Bounds' /\ InOrder'
    BY <1>1, <1>2, <1>3, QuietOrder, Zenon
  <1>5. /\ posting'[t] # None /\ posting'[t].carries = q
        /\ \A u \in Threads : u # t => posting'[u] = posting[u]
    <2> DEFINE m == [to |-> Peer[p], carries |-> q]
    <2>1. m # None
      BY Names, NamesAssumption
    <2>2. posting' = [posting EXCEPT ![t] = m]
      BY <1>1
    <2>3. m.carries = q
      OBVIOUS
    <2> HIDE DEF m
    <2> QED BY <2>1, <2>2, <2>3 DEF TypePosts
  <1>6. /\ Contents(s) = <<>> /\ s \in Places
        /\ Contents(s)' = <<Message(0, q)>>
    BY <1>1, <1>5, ContentsOf, PlacesDiffer, Zenon
  <1>7. ASSUME NEW i \in DOMAIN Contents(s)'
        PROVE  i = 1 /\ Contents(s)'[i].carries = q
    BY <1>6, <1>7 DEF Message
  <1>8. ASSUME NEW l \in Places, l # s, NEW i \in DOMAIN Contents(l)'
        PROVE  /\ i \in DOMAIN Contents(l) /\ Contents(l)'[i] = Contents(l)[i]
               /\ Contents(l)[i].carries \in Ports \cup {None}
    <2>1. Contents(l)' = Contents(l) \/ Contents(l)' = <<>>
      <3>1. ASSUME NEW u \in Ports, l = <<"queue", u>> 
            PROVE  Contents(l)' = Contents(l) \/ Contents(l)' = <<>>
        BY <1>2, <3>1, ContentsOf, Zenon DEF QuietQueues
      <3>2. ASSUME NEW u \in Threads, l = <<"batch", u>>
            PROVE  Contents(l)' = Contents(l)
        <4>1. batch' = batch
          BY <1>1
        <4> QED BY <3>2, <4>1, ContentsOf, Zenon
      <3>3. ASSUME NEW u \in Threads, l = <<"posting", u>>
            PROVE  Contents(l)' = Contents(l)
        <4>1. posting'[u] = posting[u]
          BY <1>5, <1>8, <3>3
        <4> QED BY <3>3, <4>1, ContentsOf, Zenon
      <3> QED BY <3>1, <3>2, <3>3, PlaceCases, Zenon
    <2>2. Contents(l)' = Contents(l)
      BY <1>8, <2>1, EmptyMessages, Zenon
    <2> QED BY <1>8, <2>2, ContentTypes
  <1>9. ASSUME NEW l \in Places, l # s, NEW i \in DOMAIN Contents(l)',
               Contents(l)'[i].carries = q
        PROVE  q = None
    <2>1. i \in DOMAIN Contents(l) /\ Contents(l)[i].carries = q
      BY <1>8, <1>9
    <2> QED BY <1>1, <2>1, Zenon DEF Away
  <1> HIDE DEF s
  <1>10. Once'
    <2> SUFFICES ASSUME NEW l \in Places, NEW m \in Places,
                        NEW i \in DOMAIN Contents(l)', NEW j \in DOMAIN Contents(m)',
                        Contents(l)'[i].carries = Contents(m)'[j].carries
                 PROVE  Contents(l)'[i].carries = None \/ (l = m /\ i = j)
      BY Zenon DEF Once, Places
    <2>1. CASE l = s /\ m = s
      BY <1>7, <2>1, Zenon
    <2>2. CASE l = s /\ m # s
      BY <1>7, <1>9, <2>2, Zenon
    <2>3. CASE l # s /\ m = s
      BY <1>7, <1>9, <2>3, Zenon
    <2>4. CASE l # s /\ m # s
      <3>1. /\ i \in DOMAIN Contents(l) /\ Contents(l)'[i] = Contents(l)[i]
            /\ j \in DOMAIN Contents(m) /\ Contents(m)'[j] = Contents(m)[j]
        BY <1>8, <2>4, Zenon
      <3>2. Contents(l)[i].carries = Contents(m)[j].carries
        BY <3>1
      <3>3. Contents(l)[i].carries = None \/ (l = m /\ i = j)
        BY <3>1, <3>2, OnceAt
      <3> QED BY <3>1, <3>3
    <2> QED BY <2>1, <2>2, <2>3, <2>4, Zenon
  <1>11. Away'
    <2> SUFFICES ASSUME NEW l \in Places, NEW i \in DOMAIN Contents(l)',
                        Contents(l)'[i].carries # None
                 PROVE  loop'[Contents(l)'[i].carries] = None
      BY Zenon DEF Away, Places
    <2>1. CASE l = s
      BY <1>2, <1>7, <2>1, Zenon
    <2>2. CASE l # s
      <3>1. /\ i \in DOMAIN Contents(l) /\ Contents(l)'[i] = Contents(l)[i]
            /\ Contents(l)[i].carries \in Ports
        BY <1>8, <2>2
      <3>2. loop[Contents(l)[i].carries] = None
        BY <3>1, Zenon DEF Away
      <3>3. loop'[Contents(l)[i].carries] = None
        BY <1>2, <3>1, <3>2, Zenon DEF QuietPorts
      <3> QED BY <3>1, <3>3
    <2> QED BY <2>1, <2>2
  <1> QED BY <1>4, <1>10, <1>11

(* The rest of postMessage: the message becomes the newest of its port.      *)
LEMMA SerializedKeeps ==
    ASSUME TypePorts, TypePosts, TypeBatches, Bounds, InOrder, Once, Away,
           NEW t \in Threads, PostSerializedMessage(t)
    PROVE  Bounds' /\ InOrder' /\ Once' /\ Away'
  <1>17. posting[t] # None
    BY Zenon DEF PostSerializedMessage
  <1>18. PICK p \in Ports : p = posting[t].to
    BY <1>17, MessageTypes DEF TypePosts
  <1> DEFINE new == Message(sent[p] + 1, posting[t].carries)
             a == <<"queue", p>>
             b == <<"posting", t>>
  <1>1. /\ posting[t] # None /\ loop[p] # None
        /\ queue' = [queue EXCEPT ![p] = Append(queue[p], new)]
        /\ sent' = [sent EXCEPT ![p] = sent[p] + 1]
        /\ posting' = [posting EXCEPT ![t] = None]
        /\ loop' = loop /\ current' = current /\ batch' = batch /\ got' = got
    BY <1>18, Zenon DEF PostSerializedMessage
  <1>2. p \in Ports /\ sent[p] \in Nat
    BY <1>1, MessageTypes DEF TypePosts
  <1>3. sent[p] + 1 \in Nat
    BY <1>2
  <1>4. new \in Messages /\ new.id = sent[p] + 1 /\ new.carries = posting[t].carries
    BY <1>1, <1>3, MessageTypes, Zenon
  <1>5. queue[p] \in Seq(Messages)
    BY <1>2 DEF TypePorts
  <1> HIDE DEF new
  <1>6. /\ queue'[p] = Append(queue[p], new) /\ sent'[p] = sent[p] + 1
        /\ \A x \in Ports : x # p => queue'[x] = queue[x] /\ sent'[x] = sent[x]
    BY <1>1, <1>2 DEF TypePorts, TypePosts
  <1>7. \A x \in Range(queue[p]) : x.id < new.id /\ x.id <= sent'[p]
    <2>1. \A x \in Range(queue[p]) : x.id <= sent[p] /\ x.id \in Nat
      BY <1>2, <1>5, ElementTypes DEF InOrder, QueueInOrder
    <2>2. \A k, m \in Nat : k <= m => k < m + 1 /\ k <= m + 1
      OBVIOUS
    <2> QED BY <1>2, <1>4, <1>6, <2>1, <2>2
  <1>8. /\ Rising(Append(queue[p], new))
        /\ \A x \in Range(Append(queue[p], new)) : x \in Range(queue[p]) \/ x = new
    BY <1>2, <1>4, <1>5, <1>7, RisingAppend, RangeAppend DEF InOrder, QueueInOrder
  <1>9. new.id <= sent'[p]
    BY <1>2, <1>4, <1>6
  <1>10. ASSUME NEW x \in Ports PROVE QueueInOrder(x)'
    <2>1. CASE x = p
      BY <1>6, <1>7, <1>8, <1>9, <2>1, Zenon DEF QueueInOrder
    <2>2. CASE x # p
      BY <1>6, <2>2, Zenon DEF InOrder, QueueInOrder
    <2> QED BY <2>1, <2>2
  <1>11. ASSUME NEW u \in Threads
         PROVE  /\ got[u][p] < new.id
                /\ current[u] = p => \A old \in Range(batch[u]) : old.id < new.id
    <2>1. got[u][p] \in Nat /\ got[u][p] <= sent[p]
      BY <1>2 DEF Bounds, TypePosts
    <2>2. ASSUME current[u] = p, NEW old \in Range(batch[u])
          PROVE  old.id \in Nat /\ old.id <= sent[p]
      BY <1>2, <2>2, ElementTypes DEF Bounds, TypeBatches
    <2>3. \A k, m \in Nat : k <= m => k < m + 1
      OBVIOUS
    <2> QED BY <1>2, <1>4, <2>1, <2>2, <2>3
  <1>12. ASSUME NEW u \in Threads, NEW x \in Ports
         PROVE  BatchInOrder(u, x)' /\ QueueIsNew(u, x)'
    <2>1. BatchInOrder(u, x)'
      BY <1>1, Zenon DEF InOrder, BatchInOrder
    <2>2. QueueIsNew(u, x)
      BY DEF InOrder
    <2>3. QueueIsNew(u, x)'
      <3>1. CASE x = p
        BY <1>1, <1>6, <1>8, <1>11, <2>2, <3>1, Zenon DEF QueueIsNew
      <3>2. CASE x # p
        BY <1>1, <1>6, <2>2, <3>2, Zenon DEF QueueIsNew
      <3> QED BY <3>1, <3>2
    <2> QED BY <2>1, <2>3
  <1>13. InOrder'
    BY <1>10, <1>12, Zenon DEF InOrder
  <1>14. \A x \in Ports : sent[x] \in Nat /\ sent'[x] \in Nat /\ sent[x] <= sent'[x]
    BY <1>2, <1>6 DEF TypePosts
  <1>15. Bounds'
    <2>1. \A x \in Ports : loop'[x] = None => queue'[x] = <<>>
      BY <1>1, <1>6 DEF Bounds
    <2>2. ASSUME NEW u \in Threads, NEW x \in Ports
          PROVE  /\ got'[u][x] <= sent'[x]
                 /\ current'[u] = x => \A msg \in Range(batch'[u]) : msg.id <= sent'[x]
      <3>1. \A k, m, n \in Nat : k <= m /\ m <= n => k <= n
        OBVIOUS
      <3>2. got[u][x] \in Nat /\ got[u][x] <= sent[x]
        BY DEF Bounds, TypePosts
      <3>3. ASSUME current[u] = x, NEW old \in Range(batch[u])
            PROVE  old.id \in Nat /\ old.id <= sent[x]
        BY <3>3, ElementTypes DEF Bounds, TypeBatches
      <3>4. sent[x] \in Nat /\ sent'[x] \in Nat /\ sent[x] <= sent'[x]
        BY <1>14
      <3>5. got'[u][x] <= sent'[x]
        BY <1>1, <3>1, <3>2, <3>4, Zenon
      <3>6. ASSUME current'[u] = x, NEW old \in Range(batch'[u])
            PROVE  old.id <= sent'[x]
        BY <1>1, <3>1, <3>3, <3>4, <3>6, Zenon
      <3> QED BY <3>5, <3>6
    <2> QED BY <2>1, <2>2, Zenon DEF Bounds
  <1>16. Once' /\ Away'
    <2>1. a \in Places /\ b \in Places /\ a # b
      BY <1>2, PlacesDiffer, Zenon
    <2>2. posting'[t] = None /\ \A u \in Threads : u # t => posting'[u] = posting[u]
      BY <1>1 DEF TypePosts
    <2>3. Contents(b)' = <<>>
      BY <2>2, ContentsOf, Zenon
    <2>4. ASSUME NEW l \in Places \ {a, b} PROVE Contents(l)' = Contents(l)
      <3>1. ASSUME NEW u \in Ports, l = <<"queue", u>> PROVE Contents(l)' = Contents(l)
        BY <1>6, <2>4, <3>1, ContentsOf, Zenon
      <3>2. ASSUME NEW u \in Threads, l = <<"batch", u>> PROVE Contents(l)' = Contents(l)
        <4>1. batch'[u] = batch[u]
          BY <1>1
        <4> QED BY <3>2, <4>1, ContentsOf, Zenon
      <3>3. ASSUME NEW u \in Threads, l = <<"posting", u>> PROVE Contents(l)' = Contents(l)
        <4>1. posting'[u] = posting[u]
          BY <2>2, <2>4, <3>3, Zenon
        <4> QED BY <3>3, <4>1, ContentsOf, Zenon
      <3> QED BY <2>4, <3>1, <3>2, <3>3, PlaceCases, Zenon
    <2>5. /\ Contents(a) = queue[p] /\ Contents(a)' = Append(queue[p], new)
          /\ Contents(b) = <<Message(0, posting[t].carries)>>
      <3>1. Contents(a) = queue[p] /\ Contents(a)' = queue'[p]
        BY ContentsOf, Zenon
      <3>2. Contents(b) = <<Message(0, posting[t].carries)>>
        BY <1>1, ContentsOf
      <3> QED BY <1>6, <3>1, <3>2
    <2>9. /\ DOMAIN Append(queue[p], new) = DOMAIN queue[p] \cup {Len(queue[p]) + 1}
          /\ Append(queue[p], new)[Len(queue[p]) + 1] = new
          /\ \A i \in DOMAIN queue[p] : Append(queue[p], new)[i] = queue[p][i]
      BY <1>4, <1>5, RangeAppend
    <2>6. 1 \in DOMAIN Contents(b) /\ Contents(b)[1].carries = posting[t].carries
      BY <2>5 DEF Message
    <2>7. Len(queue[p]) \in Nat
      BY <1>5
    <2>8. ASSUME NEW i \in DOMAIN Contents(a)'
          PROVE  \/ /\ i \in Nat /\ i <= Len(queue[p]) /\ i \in DOMAIN Contents(a)
                    /\ Contents(a)'[i] = Contents(a)[i]
                 \/ /\ i \in Nat /\ i > Len(queue[p])
                    /\ i - Len(queue[p]) \in DOMAIN Contents(b)
                    /\ Contents(a)'[i].carries = Contents(b)[i - Len(queue[p])].carries
      <3>1. i \in DOMAIN queue[p] \/ i = Len(queue[p]) + 1
        BY <2>5, <2>8, <2>9
      <3>2. CASE i \in DOMAIN queue[p]
        <4>1. i \in Nat /\ i <= Len(queue[p])
          BY <1>5, <3>2
        <4>2. Append(queue[p], new)[i] = queue[p][i]
          BY <2>9, <3>2
        <4> QED BY <2>5, <3>2, <4>1, <4>2, Zenon
      <3>3. CASE i = Len(queue[p]) + 1
        <4>1. i \in Nat /\ i > Len(queue[p]) /\ i - Len(queue[p]) = 1
          BY <2>7, <3>3
        <4>2. Append(queue[p], new)[i] = new
          BY <2>9, <3>3
        <4>3. Contents(a)'[i].carries = Contents(b)[1].carries
          BY <1>4, <2>5, <2>6, <4>2, Zenon
        <4> QED BY <2>6, <4>1, <4>3
      <3> QED BY <3>1, <3>2, <3>3
    <2> HIDE DEF a, b
    <2> QED BY <1>1, <2>1, <2>3, <2>4, <2>7, <2>8, MovedCarries
  <1> QED BY <1>13, <1>15, <1>16

(* OnMessageReceive: what waited becomes the thread's batch.                 *)
LEMMA ReceiveKeeps ==
    ASSUME TypePorts, TypePosts, TypeBatches, Bounds, InOrder, Once, Away,
           NEW t \in Threads, NEW p \in Ports, OnMessageReceive(t, p)
    PROVE  Bounds' /\ InOrder' /\ Once' /\ Away'
  <1> DEFINE a == <<"batch", t>>
             b == <<"queue", p>>
  <1>1. /\ current[t] = None /\ loop[p] = t /\ queue' = [queue EXCEPT ![p] = <<>>]
        /\ \/ UNCHANGED <<current, batch>>
           \/ /\ current' = [current EXCEPT ![t] = p]
              /\ batch' = [batch EXCEPT ![t] = queue[p]]
        /\ loop' = loop /\ posting' = posting /\ sent' = sent /\ got' = got
    BY Zenon DEF OnMessageReceive, Emptied
  <1>2. /\ queue'[p] = <<>> /\ \A x \in Ports : x # p => queue'[x] = queue[x]
    BY <1>1 DEF TypePorts
  <1>3. batch[t] = <<>> /\ queue[p] \in Seq(Messages) /\ p # None
    BY <1>1, Names DEF TypeBatches, TypePorts
  <1>4. CASE UNCHANGED <<current, batch>>
    <2>1. current' = current /\ batch' = batch
      BY <1>4
    <2>2. Bounds' /\ InOrder'
      <3>1. ASSUME NEW x \in Ports PROVE QueueInOrder(x)'
        BY <1>1, <1>2, EmptyMessages, Zenon DEF InOrder, QueueInOrder
      <3>2. ASSUME NEW u \in Threads, NEW x \in Ports
            PROVE  BatchInOrder(u, x)' /\ QueueIsNew(u, x)'
        <4>1. BatchInOrder(u, x) /\ QueueIsNew(u, x)
          BY DEF InOrder
        <4>2. BatchInOrder(u, x)'
          BY <1>1, <2>1, <4>1, Zenon DEF BatchInOrder
        <4>3. QueueIsNew(u, x)'
          BY <1>1, <1>2, <2>1, <4>1, EmptyMessages, Zenon DEF QueueIsNew
        <4> QED BY <4>2, <4>3
      <3>3. InOrder'
        BY <3>1, <3>2, Zenon DEF InOrder
      <3>4. Bounds'
        BY <1>1, <1>2, <2>1, Zenon DEF Bounds
      <3> QED BY <3>3, <3>4
    <2>3. QuietQueues /\ QuietBatches /\ QuietPosts
      BY <1>1, <1>2, <2>1, Zenon DEF QuietQueues, QuietBatches, QuietPosts
    <2>4. Once'
      BY <2>3, QuietOrigin, OriginKeepsOnce, Zenon
    <2>5. Away'
      <3> SUFFICES ASSUME NEW l \in Places, NEW i \in DOMAIN Contents(l)',
                          Contents(l)'[i].carries # None
                   PROVE  loop[Contents(l)'[i].carries] = None
        BY <1>1, Zenon DEF Away, Places
      <3>1. PICK k : Origin(l, i, k)
        BY <2>3, QuietOrigin, Zenon
      <3> QED BY <3>1, Zenon DEF Origin, Away
    <2> QED BY <2>2, <2>4, <2>5
  <1>5. CASE /\ current' = [current EXCEPT ![t] = p]
             /\ batch' = [batch EXCEPT ![t] = queue[p]]
    <2>1. /\ current'[t] = p /\ batch'[t] = queue[p]
          /\ \A u \in Threads : u # t => current'[u] = current[u] /\ batch'[u] = batch[u]
      BY <1>5 DEF TypeBatches
    <2>2. ASSUME NEW x \in Ports PROVE QueueInOrder(x)'
      BY <1>1, <1>2, EmptyMessages, Zenon DEF InOrder, QueueInOrder
    <2>3. ASSUME NEW u \in Threads, NEW x \in Ports
          PROVE  BatchInOrder(u, x)' /\ QueueIsNew(u, x)'
      <3>1. BatchInOrder(u, x) /\ QueueIsNew(u, x) /\ QueueIsNew(t, p)
        BY DEF InOrder
      <3>2. CASE u = t /\ x = p
        <4>1. Rising(queue[p]) /\ \A msg \in Range(queue[p]) : got[t][p] < msg.id
          BY <1>1, <3>1, Zenon DEF InOrder, QueueInOrder, QueueIsNew
        <4> QED BY <1>1, <1>2, <2>1, <3>2, <4>1, EmptyMessages, Zenon
                DEF BatchInOrder, QueueIsNew
      <3>3. CASE u = t /\ x # p
        BY <1>1, <1>2, <2>1, <3>1, <3>3, Zenon DEF BatchInOrder, QueueIsNew
      <3>4. CASE u # t
        BY <1>1, <1>2, <2>1, <3>1, <3>4, EmptyMessages, Zenon
           DEF BatchInOrder, QueueIsNew
      <3> QED BY <3>2, <3>3, <3>4
    <2>4. InOrder'
      BY <2>2, <2>3, Zenon DEF InOrder
    <2>5. Bounds'
      <3>1. \A msg \in Range(queue[p]) : msg.id <= sent[p]
        BY DEF InOrder, QueueInOrder
      <3>2. \A x \in Ports : loop'[x] = None => queue'[x] = <<>>
        BY <1>1, <1>2, Zenon DEF Bounds
      <3>3. ASSUME NEW u \in Threads, NEW x \in Ports
            PROVE  /\ got'[u][x] <= sent'[x]
                   /\ current'[u] = x => \A msg \in Range(batch'[u]) : msg.id <= sent'[x]
        BY <1>1, <2>1, <3>1, Zenon DEF Bounds
      <3> QED BY <3>2, <3>3, Zenon DEF Bounds
    <2>6. a \in Places /\ b \in Places /\ a # b
      BY PlacesDiffer, Zenon
    <2>7. /\ Contents(b)' = <<>> /\ Contents(b) = queue[p] /\ Contents(a)' = queue[p]
      BY <1>2, <2>1, ContentsOf, Zenon
    <2>8. ASSUME NEW l \in Places \ {a, b} PROVE Contents(l)' = Contents(l)
      <3>1. ASSUME NEW u \in Ports, l = <<"queue", u>> PROVE Contents(l)' = Contents(l)
        BY <1>2, <2>8, <3>1, ContentsOf, Zenon
      <3>2. ASSUME NEW u \in Threads, l = <<"batch", u>> PROVE Contents(l)' = Contents(l)
        BY <2>1, <2>8, <3>2, ContentsOf, Zenon
      <3>3. ASSUME NEW u \in Threads, l = <<"posting", u>> PROVE Contents(l)' = Contents(l)
        <4>1. posting'[u] = posting[u] /\ posting' = posting
          BY <1>1
        <4>2. (posting'[u] = None) = (posting[u] = None)
          BY <4>1
        <4> QED BY <3>3, <4>1, ContentsOf DEF Contents
      <3> QED BY <2>8, <3>1, <3>2, <3>3, PlaceCases, Zenon
    <2>9. ASSUME NEW i \in DOMAIN Contents(a)'
          PROVE  /\ i \in Nat /\ i > 0 /\ i - 0 \in DOMAIN Contents(b)
                 /\ Contents(a)'[i].carries = Contents(b)[i - 0].carries
      <3>1. i \in DOMAIN queue[p]
        BY <2>7, <2>9
      <3>2. i \in Nat /\ i > 0 /\ i - 0 = i
        BY <1>3, <3>1
      <3> QED BY <2>7, <3>1, <3>2
    <2> HIDE DEF a, b
    <2>10. Once' /\ Away'
      <3>1. 0 \in Nat
        OBVIOUS
      <3> QED BY <1>1, <2>6, <2>7, <2>8, <2>9, <3>1, MovedCarries
    <2> QED BY <2>4, <2>5, <2>10
  <1> QED BY <1>1, <1>4, <1>5

(* ReceiveSerializedMessage: the first message of the batch is given to the  *)
(* listener, and the port it carries is attached here.                       *)
LEMMA DeliverKeeps ==
    ASSUME TypePorts, TypePosts, TypeBatches, Bounds, InOrder, Once, Away,
           NEW t \in Threads, Deliver(t)
    PROVE  Bounds' /\ InOrder' /\ Once' /\ Away'
  <1>1. current[t] \in Ports /\ batch[t] # <<>> /\ batch[t] \in Seq(Messages)
    BY DEF Deliver, TypeBatches
  <1>2. PICK p \in Ports : p = current[t]
    BY <1>1
  <1>3. PICK h \in Messages : h = Head(batch[t])
    BY <1>1, TailFacts
  <1> DEFINE b == <<"batch", t>>
             q == h.carries
  <1>4. /\ queue' = queue /\ posting' = posting /\ current' = current /\ sent' = sent
        /\ batch' = [batch EXCEPT ![t] = Tail(batch[t])]
        /\ got' = [got EXCEPT ![t][p] = h.id]
        /\ loop' = loop \/ (q # None /\ loop' = [loop EXCEPT ![q] = t])
    BY <1>2, <1>3, Zenon DEF Deliver, Received
  <1>5. h.id \in Nat /\ q \in Ports \cup {None}
    BY DEF Messages
  <1>6. h \in Range(batch[t]) /\ batch[t][1] = h /\ 1 \in DOMAIN batch[t]
    BY <1>1, <1>3, TailFacts, Zenon
  <1>7. /\ batch'[t] = Tail(batch[t])
        /\ \A u \in Threads : u # t => batch'[u] = batch[u]
    BY <1>4 DEF TypeBatches
  <1>8. /\ got'[t][p] = h.id
        /\ \A u \in Threads, x \in Ports :
              (u # t \/ x # p) => got'[u][x] = got[u][x]
    BY <1>4 DEF TypePosts
  <1>9. /\ b \in Places /\ Contents(b) = batch[t]
        /\ 1 \in DOMAIN Contents(b) /\ Contents(b)[1].carries = q
    BY <1>6, ContentsOf, PlacesDiffer
  <1>10. q # None => loop[q] = None /\ queue[q] = <<>>
    <2>1. ASSUME q # None PROVE loop[q] = None
      BY <1>9, <2>1, Zenon DEF Away
    <2> QED BY <1>5, <2>1 DEF Bounds
  <1>11. \A x \in Ports : loop'[x] = loop[x] \/ (x = q /\ q # None /\ loop'[x] = t)
    BY <1>4, <1>5 DEF TypePorts
  <1>12. /\ \A x \in Range(Tail(batch[t])) : x \in Range(batch[t])
         /\ \A u \in Threads : \A x \in Range(batch'[u]) : x \in Range(batch[u])
    BY <1>1, <1>7, TailFacts
  <1>13. Rising(batch[t]) =>
            Rising(Tail(batch[t])) /\ \A x \in Range(Tail(batch[t])) : h.id < x.id
    BY <1>1, <1>3, RisingTail, Zenon
  <1>14. ASSUME NEW x \in Ports PROVE QueueInOrder(x)'
    BY <1>4, Zenon DEF InOrder, QueueInOrder
  <1>15. ASSUME NEW u \in Threads, NEW x \in Ports
         PROVE  BatchInOrder(u, x)' /\ QueueIsNew(u, x)'
    <2>1. BatchInOrder(u, x) /\ QueueIsNew(u, x)
      BY DEF InOrder
    <2>2. CASE u = t /\ x = p
      <3>1. BatchInOrder(u, x)'
        BY <1>2, <1>4, <1>7, <1>8, <1>13, <2>1, <2>2, Zenon DEF BatchInOrder
      <3>2. ASSUME loop'[x] = u, NEW new \in Range(queue[x])
            PROVE  /\ h.id < new.id
                   /\ \A old \in Range(batch'[t]) : old.id < new.id
        <4>1. loop[x] = u
          BY <1>10, <1>11, <3>2, EmptyMessages
        <4> QED BY <1>2, <1>6, <1>12, <2>1, <2>2, <3>2, <4>1, Zenon DEF QueueIsNew
      <3>3. QueueIsNew(u, x)'
        BY <1>4, <1>8, <2>2, <3>2, Zenon DEF QueueIsNew
      <3> QED BY <3>1, <3>3
    <2>3. CASE u # t \/ x # p
      <3>1. got'[u][x] = got[u][x]
        BY <1>8, <2>3
      <3>2. BatchInOrder(u, x)'
        BY <1>2, <1>4, <1>7, <2>1, <2>3, <3>1, Zenon DEF BatchInOrder
      <3>3. ASSUME loop'[x] = u, NEW new \in Range(queue[x])
            PROVE  /\ got[u][x] < new.id
                   /\ current[u] = x => \A old \in Range(batch'[u]) : old.id < new.id
        <4>1. loop[x] = u
          BY <1>10, <1>11, <3>3, EmptyMessages
        <4> QED BY <1>12, <2>1, <3>3, <4>1, Zenon DEF QueueIsNew
      <3>4. QueueIsNew(u, x)'
        BY <1>4, <3>1, <3>3, Zenon DEF QueueIsNew
      <3> QED BY <3>2, <3>4
    <2> QED BY <2>2, <2>3
  <1>16. InOrder'
    BY <1>14, <1>15, Zenon DEF InOrder
  <1>17. Bounds'
    <2>1. ASSUME NEW x \in Ports, loop'[x] = None PROVE queue'[x] = <<>>
      BY <1>4, <1>11, <2>1, Names DEF Bounds
    <2>2. h.id <= sent[p]
      BY <1>2, <1>6, Zenon DEF Bounds
    <2>3. ASSUME NEW u \in Threads, NEW x \in Ports
          PROVE  /\ got'[u][x] <= sent'[x]
                 /\ current'[u] = x => \A msg \in Range(batch'[u]) : msg.id <= sent'[x]
      BY <1>4, <1>8, <1>12, <2>2, Zenon DEF Bounds
    <2> QED BY <2>1, <2>3, Zenon DEF Bounds
  <1>18. QuietQueues /\ QuietBatches /\ QuietPosts
    BY <1>1, <1>4, <1>7, Zenon DEF QuietQueues, QuietBatches, QuietPosts
  <1>19. Once'
    BY <1>18, QuietOrigin, OriginKeepsOnce, Zenon
  <1>20. Away'
    <2> SUFFICES ASSUME NEW l \in Places, NEW i \in DOMAIN Contents(l)',
                        Contents(l)'[i].carries # None
                 PROVE  loop'[Contents(l)'[i].carries] = None
      BY Zenon DEF Away, Places
    <2>1. PICK k : Origin(l, i, k)
      BY <1>18, QuietOrigin, Zenon
    <2>2. k \in DOMAIN Contents(l) /\ Contents(l)[k] = Contents(l)'[i]
      BY <2>1, Zenon DEF Origin
    <2>3. Contents(l)[k].carries # None
      BY <2>2
    <2>4. loop[Contents(l)[k].carries] = None /\ Contents(l)[k].carries \in Ports
      BY <2>2, <2>3, ContentTypes, Zenon DEF Away
    <2>5. Contents(l)[k].carries # q
      <3>1. ASSUME Contents(l)[k].carries = q PROVE l = b /\ k = 1
        BY <1>9, <2>2, <2>3, <3>1, OnceAt, Zenon
      <3>2. ASSUME l = b, k = 1 PROVE FALSE
        <4>1. i \in DOMAIN Tail(batch[t])
          BY <1>7, <3>2, ContentsOf, Zenon
        <4>2. batch'[t] # batch[t]
          <5>1. Len(Tail(batch[t])) # Len(batch[t])
            BY <1>1
          <5> QED BY <1>7, <5>1
        <4>3. k = i + 1
          BY <2>1, <3>2, <4>2, Zenon DEF Origin
        <4> QED BY <1>1, <3>2, <4>1, <4>3, TailFacts
      <3> QED BY <3>1, <3>2
    <2>6. loop'[Contents(l)[k].carries] = None
      BY <1>11, <2>4, <2>5, Zenon
    <2> QED BY <2>2, <2>6
  <1> QED BY <1>16, <1>17, <1>19, <1>20

(* Detaching a port from its loop is quiet.                                  *)
LEMMA DetachQuiet ==
    ASSUME TypePorts, NEW p \in Ports, DetachFromEventLoop(p)
    PROVE  QuietPorts
  BY DEF DetachFromEventLoop, QuietPorts, TypePorts

(* Going on to the next message is quiet.                                    *)
LEMMA AfterQuiet ==
    ASSUME TypeBatches, NEW t \in Threads, NEW rest,
           rest = batch[t] \/ (batch[t] # <<>> /\ rest = Tail(batch[t])),
           AfterMessage(t, rest)
    PROVE  QuietBatches
  <1>1. CASE current' = [current EXCEPT ![t] = None] /\ batch' = [batch EXCEPT ![t] = <<>>]
    <2>1. \A u \in Threads : u # t => current'[u] = current[u] /\ batch'[u] = batch[u]
      BY <1>1 DEF TypeBatches
    <2>2. current'[t] = None /\ batch'[t] = <<>>
      BY <1>1 DEF TypeBatches
    <2> QED BY <2>1, <2>2, Zenon DEF QuietBatches
  <1>2. CASE current' = current /\ batch' = [batch EXCEPT ![t] = rest]
    <2>1. \A u \in Threads : u # t => batch'[u] = batch[u]
      BY <1>2 DEF TypeBatches
    <2>2. batch'[t] = rest
      BY <1>2 DEF TypeBatches
    <2> QED BY <1>2, <2>1, <2>2, Zenon DEF QuietBatches
  <1> QED BY <1>1, <1>2, Zenon DEF AfterMessage, DropBatch

(* Leaving the variables alone is quiet.                                     *)
LEMMA StillQuiet ==
    /\ loop' = loop /\ queue' = queue => QuietPorts
    /\ current' = current /\ batch' = batch => QuietBatches
    /\ posting' = posting => QuietPosts
  <1>1. loop' = loop /\ queue' = queue => QuietPorts
    BY DEF QuietPorts
  <1>2. current' = current /\ batch' = batch => QuietBatches
    BY DEF QuietBatches
  <1>3. posting' = posting => QuietPosts
    BY DEF QuietPosts
  <1> QED BY <1>1, <1>2, <1>3, Zenon

(* Messages stay in order, and a port on its way stays in one message.       *)
LEMMA CarryStep ==
    ASSUME TypePorts, TypeWraps, TypePosts, TypeBatches, TypeLives, Bounds,
           InOrder, Once, Away, [Next]_vars
    PROVE  Bounds' /\ InOrder' /\ Once' /\ Away'
  <1>1. ASSUME NEW t \in Threads, NEW p \in Ports, Close(t, p)
        PROVE  Bounds' /\ InOrder' /\ Once' /\ Away'
    <2>1. QuietPorts
      <3>1. DetachFromEventLoop(p)
        BY <1>1, Zenon DEF Close, Detached
      <3> QED BY <3>1, DetachQuiet, Names, Zenon
    <2>2. QuietBatches
      <3>1. current' = current /\ batch' = batch
        BY <1>1, Zenon DEF Close
      <3> QED BY <3>1, StillQuiet, Zenon
    <2>3. QuietPosts
      <3>1. posting' = posting
        BY <1>1, Zenon DEF Close
      <3> QED BY <3>1, StillQuiet, Zenon
    <2>4. sent' = sent /\ got' = got
      BY <1>1, Zenon DEF Close
    <2> QED BY <2>1, <2>2, <2>3, <2>4, QuietKeeps, Zenon DEF Quiet
  <1>2. ASSUME NEW t \in Threads, NEW p \in Ports, Listen(t, p)
        PROVE  Bounds' /\ InOrder' /\ Once' /\ Away'
    <2>1. QuietPorts
      <3>1. loop' = loop /\ queue' = queue
        BY <1>2, Zenon DEF Listen
      <3> QED BY <3>1, StillQuiet, Zenon
    <2>2. QuietBatches
      <3>1. current' = current /\ batch' = batch
        BY <1>2, Zenon DEF Listen
      <3> QED BY <3>1, StillQuiet, Zenon
    <2>3. QuietPosts
      <3>1. posting' = posting
        BY <1>2, Zenon DEF Listen
      <3> QED BY <3>1, StillQuiet, Zenon
    <2>4. sent' = sent /\ got' = got
      BY <1>2, Zenon DEF Listen
    <2> QED BY <2>1, <2>2, <2>3, <2>4, QuietKeeps, Zenon DEF Quiet
  <1>3. ASSUME NEW t \in Threads, NEW p \in Ports, Unlisten(t, p)
        PROVE  Bounds' /\ InOrder' /\ Once' /\ Away'
    <2>1. QuietPorts
      <3>1. loop' = loop /\ queue' = queue
        BY <1>3, Zenon DEF Unlisten
      <3> QED BY <3>1, StillQuiet, Zenon
    <2>2. QuietBatches
      <3>1. current' = current /\ batch' = batch
        BY <1>3, Zenon DEF Unlisten
      <3> QED BY <3>1, StillQuiet, Zenon
    <2>3. QuietPosts
      <3>1. posting' = posting
        BY <1>3, Zenon DEF Unlisten
      <3> QED BY <3>1, StillQuiet, Zenon
    <2>4. sent' = sent /\ got' = got
      BY <1>3, Zenon DEF Unlisten
    <2> QED BY <2>1, <2>2, <2>3, <2>4, QuietKeeps, Zenon DEF Quiet
  <1>4. ASSUME NEW t \in Threads, NEW p \in Ports, Collect(t, p)
        PROVE  Bounds' /\ InOrder' /\ Once' /\ Away'
    <2>1. QuietPorts
      <3>1. DetachFromEventLoop(p) \/ (loop' = loop /\ queue' = queue)
        BY <1>4, Zenon DEF Collect, Detached
      <3> QED BY <3>1, DetachQuiet, StillQuiet, Zenon
    <2>2. QuietBatches
      <3>1. current' = current /\ batch' = batch
        BY <1>4, Zenon DEF Collect
      <3> QED BY <3>1, StillQuiet, Zenon
    <2>3. QuietPosts
      <3>1. posting' = posting
        BY <1>4, Zenon DEF Collect
      <3> QED BY <3>1, StillQuiet, Zenon
    <2>4. sent' = sent /\ got' = got
      BY <1>4, Zenon DEF Collect
    <2> QED BY <2>1, <2>2, <2>3, <2>4, QuietKeeps, Zenon DEF Quiet
  <1>5. ASSUME NEW t \in Threads, NEW p \in Ports, NEW q \in Ports \cup {None}, PostMessage(t, p, q)
        PROVE  Bounds' /\ InOrder' /\ Once' /\ Away'
    BY <1>5, PostKeeps, Zenon
  <1>6. ASSUME NEW t \in Threads, PostFails(t)
        PROVE  Bounds' /\ InOrder' /\ Once' /\ Away'
    <2>1. QuietPorts
      <3>1. loop' = loop /\ queue' = queue
        BY <1>6, Zenon DEF PostFails
      <3> QED BY <3>1, StillQuiet, Zenon
    <2>2. QuietBatches
      <3>1. current' = current /\ batch' = batch
        BY <1>6, Zenon DEF PostFails
      <3> QED BY <3>1, StillQuiet, Zenon
    <2>3. QuietPosts
      <3>1. posting' = [posting EXCEPT ![t] = None]
        BY <1>6, Zenon DEF PostFails
      <3> QED BY <3>1 DEF QuietPosts, TypePosts
    <2>4. sent' = sent /\ got' = got
      BY <1>6, Zenon DEF PostFails
    <2> QED BY <2>1, <2>2, <2>3, <2>4, QuietKeeps, Zenon DEF Quiet
  <1>7. ASSUME NEW t \in Threads, PostSerializedMessage(t)
        PROVE  Bounds' /\ InOrder' /\ Once' /\ Away'
    BY <1>7, SerializedKeeps, Zenon
  <1>8. ASSUME NEW t \in Threads, Deliver(t)
        PROVE  Bounds' /\ InOrder' /\ Once' /\ Away'
    BY <1>8, DeliverKeeps, Zenon
  <1>9. ASSUME NEW t \in Threads, Skip(t)
        PROVE  Bounds' /\ InOrder' /\ Once' /\ Away'
    <2>1. QuietPorts
      <3>1. loop' = loop /\ queue' = queue
        BY <1>9, Zenon DEF Skip
      <3> QED BY <3>1, StillQuiet, Zenon
    <2>2. QuietBatches
      <3>1. AfterMessage(t, Tail(batch[t])) /\ current[t] # None /\ ~inCallback[t]
        BY <1>9, Zenon DEF Skip
      <3>2. batch[t] # <<>>
        BY <3>1, Zenon DEF TypeBatches
      <3> QED BY <3>1, <3>2, AfterQuiet, Zenon
    <2>3. QuietPosts
      <3>1. posting' = posting
        BY <1>9, Zenon DEF Skip
      <3> QED BY <3>1, StillQuiet, Zenon
    <2>4. sent' = sent /\ got' = got
      BY <1>9, Zenon DEF Skip
    <2> QED BY <2>1, <2>2, <2>3, <2>4, QuietKeeps, Zenon DEF Quiet
  <1>10. ASSUME NEW t \in Threads, CallbackReturns(t)
        PROVE  Bounds' /\ InOrder' /\ Once' /\ Away'
    <2>1. QuietPorts
      <3>1. loop' = loop /\ queue' = queue
        BY <1>10, Zenon DEF CallbackReturns
      <3> QED BY <3>1, StillQuiet, Zenon
    <2>2. QuietBatches
      <3>1. AfterMessage(t, batch[t])
        BY <1>10, Zenon DEF CallbackReturns
      <3> QED BY <3>1, AfterQuiet, Zenon
    <2>3. QuietPosts
      <3>1. posting' = posting
        BY <1>10, Zenon DEF CallbackReturns
      <3> QED BY <3>1, StillQuiet, Zenon
    <2>4. sent' = sent /\ got' = got
      BY <1>10, Zenon DEF CallbackReturns
    <2> QED BY <2>1, <2>2, <2>3, <2>4, QuietKeeps, Zenon DEF Quiet
  <1>11. ASSUME NEW t \in Threads, NEW p \in Ports, OnMessageReceive(t, p)
        PROVE  Bounds' /\ InOrder' /\ Once' /\ Away'
    BY <1>11, ReceiveKeeps, Zenon
  <1>12. CASE DisposeRuntime
    <2>1. QuietPorts
      BY <1>12 DEF DisposeRuntime, QuietPorts
    <2>2. QuietBatches
      <3>1. current' = current /\ batch' = batch
        BY <1>12, Zenon DEF DisposeRuntime
      <3> QED BY <3>1, StillQuiet, Zenon
    <2>3. QuietPosts
      <3>1. posting' = posting
        BY <1>12, Zenon DEF DisposeRuntime
      <3> QED BY <3>1, StillQuiet, Zenon
    <2>4. sent' = sent /\ got' = got
      BY <1>12, Zenon DEF DisposeRuntime
    <2> QED BY <2>1, <2>2, <2>3, <2>4, QuietKeeps, Zenon DEF Quiet
  <1>13. CASE WorkerExits
    <2>1. QuietPorts
      <3>1. DetachFromEventLoop(WorkerPort)
        BY <1>13, Zenon DEF WorkerExits, Detached
      <3> QED BY <3>1, DetachQuiet, Names, Zenon
    <2>2. QuietBatches
      <3>1. current' = current /\ batch' = batch
        BY <1>13, Zenon DEF WorkerExits
      <3> QED BY <3>1, StillQuiet, Zenon
    <2>3. QuietPosts
      <3>1. posting' = posting
        BY <1>13, Zenon DEF WorkerExits
      <3> QED BY <3>1, StillQuiet, Zenon
    <2>4. sent' = sent /\ got' = got
      BY <1>13, Zenon DEF WorkerExits
    <2> QED BY <2>1, <2>2, <2>3, <2>4, QuietKeeps, Zenon DEF Quiet
  <1>14. CASE JoinAtCheckpoint
    <2>1. QuietPorts
      <3>1. loop' = loop /\ queue' = queue
        BY <1>14, Zenon DEF JoinAtCheckpoint
      <3> QED BY <3>1, StillQuiet, Zenon
    <2>2. QuietBatches
      <3>1. current' = current /\ batch' = batch
        BY <1>14, Zenon DEF JoinAtCheckpoint
      <3> QED BY <3>1, StillQuiet, Zenon
    <2>3. QuietPosts
      <3>1. posting' = posting
        BY <1>14, Zenon DEF JoinAtCheckpoint
      <3> QED BY <3>1, StillQuiet, Zenon
    <2>4. sent' = sent /\ got' = got
      BY <1>14, Zenon DEF JoinAtCheckpoint
    <2> QED BY <2>1, <2>2, <2>3, <2>4, QuietKeeps, Zenon DEF Quiet
  <1>15. CASE ParentLoopEnds
    <2>1. QuietPorts
      <3>1. loop' = loop /\ queue' = queue
        BY <1>15, Zenon DEF ParentLoopEnds
      <3> QED BY <3>1, StillQuiet, Zenon
    <2>2. QuietBatches
      <3>1. current' = current /\ batch' = batch
        BY <1>15, Zenon DEF ParentLoopEnds
      <3> QED BY <3>1, StillQuiet, Zenon
    <2>3. QuietPosts
      <3>1. posting' = posting
        BY <1>15, Zenon DEF ParentLoopEnds
      <3> QED BY <3>1, StillQuiet, Zenon
    <2>4. sent' = sent /\ got' = got
      BY <1>15, Zenon DEF ParentLoopEnds
    <2> QED BY <2>1, <2>2, <2>3, <2>4, QuietKeeps, Zenon DEF Quiet
  <1>16. CASE JoinAtExit
    <2>1. QuietPorts
      <3>1. loop' = loop /\ queue' = queue
        BY <1>16, Zenon DEF JoinAtExit
      <3> QED BY <3>1, StillQuiet, Zenon
    <2>2. QuietBatches
      <3>1. current' = current /\ batch' = batch
        BY <1>16, Zenon DEF JoinAtExit
      <3> QED BY <3>1, StillQuiet, Zenon
    <2>3. QuietPosts
      <3>1. posting' = posting
        BY <1>16, Zenon DEF JoinAtExit
      <3> QED BY <3>1, StillQuiet, Zenon
    <2>4. sent' = sent /\ got' = got
      BY <1>16, Zenon DEF JoinAtExit
    <2> QED BY <2>1, <2>2, <2>3, <2>4, QuietKeeps, Zenon DEF Quiet
  <1>17. CASE UNCHANGED vars
    <2>1. QuietPorts
      <3>1. loop' = loop /\ queue' = queue
        BY <1>17, Zenon DEF vars
      <3> QED BY <3>1, StillQuiet, Zenon
    <2>2. QuietBatches
      <3>1. current' = current /\ batch' = batch
        BY <1>17, Zenon DEF vars
      <3> QED BY <3>1, StillQuiet, Zenon
    <2>3. QuietPosts
      <3>1. posting' = posting
        BY <1>17, Zenon DEF vars
      <3> QED BY <3>1, StillQuiet, Zenon
    <2>4. sent' = sent /\ got' = got
      BY <1>17, Zenon DEF vars
    <2> QED BY <2>1, <2>2, <2>3, <2>4, QuietKeeps, Zenon DEF Quiet
  <1> QED
    BY <1>1, <1>2, <1>3, <1>4, <1>5, <1>6, <1>7, <1>8, <1>9, <1>10, <1>11,
       <1>12, <1>13, <1>14, <1>15, <1>16, <1>17
       DEF Next, Program, Runtime, Lifecycle

(* The initial state and every step satisfy the inductive invariant.         *)
LEMMA Inductive == Spec => []IndInv
  <1>1. Init => IndInv
    <2> SUFFICES ASSUME Init PROVE IndInv
      OBVIOUS
    <2>1. TypePorts
      BY EmptyMessages DEF Init, TypePorts, Threads
    <2>2. TypeWraps
      BY DEF Init, TypeWraps
    <2>3. TypePosts
      BY BoundAssumption DEF Init, TypePosts
    <2>4. TypeBatches
      BY EmptyMessages DEF Init, TypeBatches
    <2>5. TypeLives /\ Joins
      BY Names DEF Init, TypeLives, Joins
    <2>6. /\ \A p \in Ports : queue[p] = <<>> /\ sent[p] = 0
          /\ \A t \in Threads : /\ batch[t] = <<>> /\ current[t] = None
                                /\ posting[t] = None
                                /\ \A p \in Ports : got[t][p] = 0
      BY DEF Init
    <2>7. Bounds /\ InOrder
      <3>1. \A t \in Threads, p \in Ports : current[t] # p /\ got[t][p] <= sent[p]
        BY <2>6, Names
      <3>2. Bounds
        BY <2>6, <3>1, Zenon DEF Bounds
      <3>3. InOrder
        BY <2>6, <3>1, EmptyMessages, Zenon
           DEF InOrder, QueueInOrder, BatchInOrder, QueueIsNew
      <3> QED BY <3>2, <3>3
    <2>8. ASSUME NEW l \in Places PROVE Contents(l) = <<>>
      <3>1. ASSUME NEW q \in Ports, l = <<"queue", q>> PROVE Contents(l) = <<>>
        BY <2>6, <3>1, ContentsOf, Zenon
      <3>2. ASSUME NEW u \in Threads, l = <<"batch", u>> PROVE Contents(l) = <<>>
        BY <2>6, <3>2, ContentsOf, Zenon
      <3>3. ASSUME NEW u \in Threads, l = <<"posting", u>> PROVE Contents(l) = <<>>
        <4>1. posting[u] = None
          BY <2>6, Zenon
        <4> QED BY <3>3, <4>1, ContentsOf, Zenon
      <3> QED BY <2>8, <3>1, <3>2, <3>3, PlaceCases, Zenon
    <2>9. Once /\ Away
      BY <2>8, EmptyMessages, Zenon DEF Once, Away
    <2> QED BY <2>1, <2>2, <2>3, <2>4, <2>5, <2>7, <2>9 DEF IndInv, TypeOK
  <1>2. IndInv /\ [Next]_vars => IndInv'
    <2> SUFFICES ASSUME IndInv, [Next]_vars PROVE IndInv'
      OBVIOUS
    <2>1. /\ TypePorts /\ TypeWraps /\ TypePosts /\ TypeBatches /\ TypeLives
          /\ Bounds /\ InOrder /\ Once /\ Away /\ Joins
      BY Zenon DEF IndInv, TypeOK
    <2>2. TypePorts' /\ TypeWraps' /\ TypePosts' /\ TypeBatches'
      BY <2>1, PortsStep, WrapsStep, PostsStep, BatchesStep, Zenon
    <2>3. TypeLives' /\ Joins'
      BY <2>1, LivesStep, Zenon
    <2>4. Bounds' /\ InOrder' /\ Once' /\ Away'
      BY <2>1, CarryStep, Zenon
    <2> QED BY <2>2, <2>3, <2>4, Zenon DEF IndInv, TypeOK
  <1> QED BY <1>1, <1>2, PTL DEF Spec

(* Ports, wrappers, messages on their way and the threads keep the types of  *)
(* TypeOK, and a thread outside OnMessageReceive holds no batch.             *)
THEOREM TypeCorrect == Spec => []TypeOK
  BY Inductive, PTL DEF IndInv

(* Every thread is given a port's messages at most once and in the order     *)
(* they were posted, whichever threads the port moves between.               *)
THEOREM MessagesInOrder == Spec => []InOrder
  BY Inductive, PTL DEF IndInv

(* A port that a message carries is in no other message, is attached to no   *)
(* loop and has no messages of its own.                                      *)
THEOREM PortsCarriedOnce == Spec => []CarriedOnce
  <1>1. IndInv => CarriedOnce
    <2> SUFFICES ASSUME IndInv, NEW p \in Ports
                 PROVE  /\ \A c, d \in Carriers(p) : c = d
                        /\ Carriers(p) # {} => loop[p] = None /\ queue[p] = <<>>
      BY DEF CarriedOnce
    <2>1. Once /\ Away /\ Bounds /\ p # None
      BY Names DEF IndInv
    <2>2. ASSUME NEW c \in Carriers(p)
          PROVE  \E l \in Places : \E i \in DOMAIN Contents(l) :
                    c = <<l, i>> /\ Contents(l)[i].carries = p
      BY DEF Carriers
    <2>3. ASSUME NEW c \in Carriers(p), NEW d \in Carriers(p) PROVE c = d
      <3>1. PICK l \in Places : \E i \in DOMAIN Contents(l) :
                    c = <<l, i>> /\ Contents(l)[i].carries = p
        BY <2>2
      <3>2. PICK i \in DOMAIN Contents(l) : c = <<l, i>> /\ Contents(l)[i].carries = p
        BY <3>1
      <3>3. PICK m \in Places : \E j \in DOMAIN Contents(m) :
                    d = <<m, j>> /\ Contents(m)[j].carries = p
        BY <2>2
      <3>4. PICK j \in DOMAIN Contents(m) : d = <<m, j>> /\ Contents(m)[j].carries = p
        BY <3>3
      <3>5. l = m /\ i = j
        BY <2>1, <3>2, <3>4, OnceAt
      <3> QED BY <3>2, <3>4, <3>5
    <2>4. ASSUME NEW c \in Carriers(p) PROVE loop[p] = None
      BY <2>1, <2>2, Zenon DEF Away
    <2> QED BY <2>1, <2>3, <2>4, Zenon DEF Bounds
  <1> QED BY <1>1, Inductive, PTL

(* A worker is joined at most once, and once when the parent's loop is left. *)
THEOREM WorkerJoinedOnce == Spec => []JoinedOnce
  <1>1. IndInv => JoinedOnce
    BY DEF IndInv, Joins, JoinedOnce
  <1> QED BY <1>1, Inductive, PTL

===============================================================================
