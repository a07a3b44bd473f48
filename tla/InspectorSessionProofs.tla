------------------------ MODULE InspectorSessionProofs ------------------------
(***************************************************************************)
(* TLAPS proofs that no message between the debugger's threads is lost,    *)
(* repeated or overtaken, for any bounds.                                  *)
(***************************************************************************)
EXTENDS InspectorSession, SequenceTheorems, TLAPS

USE DEF ioVars, recvVars, mainVars, countVars

(* What Append and Tail do to the elements of a queue of arrivals.         *)
LEMMA RangeAppend ==
    ASSUME NEW s \in Seq(Arrivals), NEW m \in Arrivals
    PROVE  Range(Append(s, m)) = Range(s) \cup {m}
  <1>1. /\ DOMAIN Append(s, m) = 1 .. (Len(s) + 1) /\ DOMAIN s = 1 .. Len(s)
        /\ Len(s) \in Nat
    OBVIOUS
  <1>2. \A i \in 1 .. Len(s) : Append(s, m)[i] = s[i]
    OBVIOUS
  <1>3. Append(s, m)[Len(s) + 1] = m
    OBVIOUS
  <1>4. Range(Append(s, m)) \subseteq Range(s) \cup {m}
    <2>1. ASSUME NEW i \in 1 .. (Len(s) + 1) 
          PROVE  Append(s, m)[i] \in Range(s) \cup {m}
      <3>1. CASE i = Len(s) + 1
        BY <1>3, <3>1
      <3>2. CASE i # Len(s) + 1
        <4>1. i \in 1 .. Len(s)
          BY <1>1, <3>2
        <4> QED BY <4>1, <1>1, <1>2 DEF Range
      <3> QED BY <3>1, <3>2
    <2> QED BY <2>1, <1>1, Zenon DEF Range
  <1>5. Range(s) \subseteq Range(Append(s, m))
    <2>1. ASSUME NEW i \in 1 .. Len(s) PROVE s[i] \in Range(Append(s, m))
      <3>1. i \in DOMAIN Append(s, m)
        BY <1>1
      <3> QED BY <3>1, <1>2 DEF Range
    <2> QED BY <2>1, <1>1, Zenon DEF Range
  <1>6. m \in Range(Append(s, m))
    <2>1. Len(s) + 1 \in DOMAIN Append(s, m)
      BY <1>1
    <2> QED BY <2>1, <1>3 DEF Range
  <1> QED BY <1>4, <1>5, <1>6


(* A queue's arrivals are its head and the rest.                             *)
LEMMA RangeTail ==
    ASSUME NEW s \in Seq(Arrivals), s # <<>>
    PROVE  Range(s) = Range(Tail(s)) \cup {Head(s)}
  <1>1. \A i \in DOMAIN Tail(s) : Tail(s)[i] = s[i + 1] /\ i + 1 \in DOMAIN s
    OBVIOUS
  <1>2. \A i \in DOMAIN s : 
           i = 1 \/ (i - 1 \in DOMAIN Tail(s) /\ Tail(s)[i - 1] = s[i])
    OBVIOUS
  <1>3. Head(s) = s[1] /\ 1 \in DOMAIN s
    OBVIOUS
  <1>4. Range(s) \subseteq Range(Tail(s)) \cup {Head(s)}
    BY <1>2, <1>3 DEF Range
  <1>5. Range(Tail(s)) \subseteq Range(s) /\ Head(s) \in Range(s)
    BY <1>1, <1>3 DEF Range
  <1> QED BY <1>4, <1>5

(* A later arrival keeps the order.                                          *)
LEMMA RisingAppend ==
    ASSUME NEW s \in Seq(Arrivals), NEW m \in Arrivals, Rising(s),
           \A x \in Range(s) : x.id < m.id
    PROVE  Rising(Append(s, m))
  BY DEF Rising, Range

(* The head of a rising queue is older than the rest, which is rising.     *)
LEMMA RisingTail ==
    ASSUME NEW s \in Seq(Arrivals), s # <<>>, Rising(s)
    PROVE  /\ Rising(Tail(s))
           /\ \A x \in Range(Tail(s)) : Head(s).id < x.id
  <1>1. \A i \in DOMAIN Tail(s) : Tail(s)[i] = s[i + 1]
           /\ i + 1 \in DOMAIN s /\ i \in Nat
    OBVIOUS
  <1>2. Head(s) = s[1] /\ 1 \in DOMAIN s
    OBVIOUS
  <1>3. \A i, j \in DOMAIN Tail(s) : i < j => s[i + 1].id < s[j + 1].id
    BY <1>1 DEF Rising
  <1>4. Rising(Tail(s))
    BY <1>1, <1>3 DEF Rising
  <1>5. ASSUME NEW i \in DOMAIN Tail(s) PROVE Head(s).id < Tail(s)[i].id
    <2>1. i + 1 \in DOMAIN s /\ 1 < i + 1 /\ Tail(s)[i] = s[i + 1]
      OBVIOUS
    <2> QED BY <2>1, <1>2 DEF Rising
  <1> QED BY <1>4, <1>5 DEF Range

(* The constructor's state has the types.                                    *)
LEMMA TypeInit == Init => TypeOK
  <1> SUFFICES ASSUME Init PROVE TypeOK
    OBVIOUS
  <1> USE BoundsAssumption DEF Init
  <1>1. TypeControl
    BY DEF TypeControl
  <1>2. TypeCounts
    BY DEF TypeCounts
  <1>3. <<>> \in Seq(Arrivals) /\ <<>> \in Seq(Nat)
    OBVIOUS
  <1>4. TypeQueues
    BY <1>3, Zenon DEF TypeQueues
  <1> QED BY <1>1, <1>2, <1>4 DEF TypeOK


(* What the close of a connection does to the types.                       *)
LEMMA ConnectionClosesTypes ==
    ASSUME TypeCounts, ConnectionCloses
    PROVE  /\ conn' = 0 /\ writable' \in BOOLEAN /\ recvSignal' \in BOOLEAN
           /\ received' \in Nat /\ handled \subseteq 1 .. received'
  <1>1. /\ received' = received + 1
        /\ received \in Nat /\ handled \subseteq 1 .. received
    BY DEF TypeCounts, ConnectionCloses, EnqueueRecv
  <1>2. received + 1 \in Nat /\ 1 .. received \subseteq 1 .. (received + 1)
    BY <1>1
  <1>3. conn' = 0 /\ writable' = FALSE /\ recvSignal' = TRUE
    BY DEF ConnectionCloses, EnqueueRecv
  <1> QED BY <1>1, <1>2, <1>3


(* The arrivals a thread may be about to handle have arrived.              *)
LEMMA HeadArrived ==
    ASSUME TypeQueues, TypeCounts, ArrivalsKept
    PROVE  /\ batch # <<>> =>
                 Head(batch) \in Arrivals /\ Head(batch).id \in 1 .. received
           /\ recvQueue # <<>> =>
                 Head(recvQueue) \in Arrivals /\ Head(recvQueue).id \in 1 .. received
  <1>1. batch # <<>> => Head(batch) \in Range(batch) /\ Head(batch) \in Arrivals
    BY RangeTail DEF TypeQueues
  <1>2. recvQueue # <<>> =>
           Head(recvQueue) \in Range(recvQueue) /\ Head(recvQueue) \in Arrivals
    BY RangeTail DEF TypeQueues
  <1> QED BY <1>1, <1>2 DEF ArrivalsKept

(* Program counters, flags and counters keep their types.                    *)
LEMMA ControlStep ==
    ASSUME TypeControl, TypeCounts, TypeQueues, ArrivalsKept, [Next]_vars
    PROVE  TypeControl' /\ TypeCounts'
  <1> USE BoundsAssumption DEF TypeControl, TypeCounts
  <1>1. CASE Established
    BY <1>1 DEF Established, EnqueueRecv
  <1>2. CASE Receive
    BY <1>2 DEF Receive, EnqueueRecv
  <1>3. CASE Closed
    <2>1. TypeControl'
      BY <1>3, ConnectionClosesTypes, Zenon DEF TypeControl, Closed
    <2>2. TypeCounts'
       <3>1. ConnectionCloses /\ UNCHANGED <<sessions, handled, sent, scripts>>
        BY <1>3 DEF Closed
       <3> QED BY <3>1, ConnectionClosesTypes DEF TypeCounts
    <2> QED BY <2>1, <2>2
  <1>4. CASE Writeable
    BY <1>4 DEF Writeable
  <1>5. CASE TakeAnswer
    BY <1>5 DEF TakeAnswer
  <1>6. CASE TakeExit
    <2>4. UNCHANGED <<sessions, handled, sent, scripts, mainVars>> /\ io' = "stopping"
      BY <1>6 DEF TakeExit
    <2>5. CASE ConnectionCloses
      <3>1. TypeControl'
      BY <2>4, <2>5, ConnectionClosesTypes, Zenon DEF TypeControl
      <3>2. TypeCounts'
      BY <2>4, <2>5, ConnectionClosesTypes DEF TypeCounts
      <3> QED BY <3>1, <3>2
    <2>6. CASE UNCHANGED <<conn, writable, recvVars, received>>
      <3>1. TypeControl'
      BY <2>4, <2>6, Zenon DEF TypeControl
      <3>2. TypeCounts'
      BY <2>4, <2>6 DEF TypeCounts
      <3> QED BY <3>1, <3>2
    <2> QED BY <2>5, <2>6, <1>6 DEF TakeExit
  <1>7. CASE IoThreadExits
    BY <1>7 DEF IoThreadExits
  <1>8. CASE RunScript
    BY <1>8 DEF RunScript
  <1>9. CASE Send
    BY <1>9 DEF Send
  <1>10. CASE RunMessageLoopOnPause
    BY <1>10 DEF RunMessageLoopOnPause, MarkNested
  <1>11. CASE QuitMessageLoopOnPause
    BY <1>11 DEF QuitMessageLoopOnPause
  <1>12. CASE OnMessageComing
    BY <1>12 DEF OnMessageComing, TakeAll
  <1>13. CASE HandleNext
    BY <1>13, HeadArrived DEF HandleNext, OnMainThreadRecvMessage,
       SetNonBlocking
  <1>14. CASE WaitOnce
    BY <1>14, HeadArrived DEF WaitOnce, OnMainThreadRecvMessage,
       SetNonBlocking, KeepSignal
  <1>15. CASE V8Returns
    BY <1>15 DEF V8Returns
  <1>16. CASE PauseEnds
    BY <1>16 DEF PauseEnds
  <1>17. CASE Joined
    BY <1>17 DEF Joined
  <1>18. CASE Dispose
    BY <1>18 DEF Dispose, SetNonBlocking
  <1>19. CASE UNCHANGED vars
    BY <1>19 DEF vars
  <1> QED
    BY <1>1, <1>2, <1>3, <1>4, <1>5, <1>6, <1>7, <1>8, <1>9, <1>10, <1>11,
       <1>12, <1>13, <1>14, <1>15, <1>16, <1>17, <1>18, <1>19
       DEF Next, Frontend, IoThread, Program, MainThread

(* Queues keep their types.                                                  *)
LEMMA QueuesStep ==
    ASSUME TypeCounts, TypeQueues, [Next]_vars
    PROVE  TypeQueues'
  <1> USE DEF TypeQueues
  <1>1. CASE Established
    <2>1. [type |-> "connect", id |-> received + 1] \in Arrivals
      BY DEF TypeCounts, Arrivals
    <2>2. Append(recvQueue, [type |-> "connect", id |-> received + 1])
            \in Seq(Arrivals)
      BY <2>1 DEF TypeQueues
    <2> QED BY <1>1, <2>2, Zenon
           DEF TypeQueues, Established, EnqueueRecv
  <1>2. CASE Receive
    <2>1. [type |-> "payload", id |-> received + 1] \in Arrivals
      BY DEF TypeCounts, Arrivals
    <2>2. Append(recvQueue, [type |-> "payload", id |-> received + 1])
            \in Seq(Arrivals)
      BY <2>1 DEF TypeQueues
    <2> QED BY <1>2, <2>2, Zenon
           DEF TypeQueues, Receive, EnqueueRecv
  <1>3. CASE Closed
    <2>1. [type |-> "disconnect", id |-> received + 1] \in Arrivals
      BY DEF TypeCounts, Arrivals
    <2>2. Append(recvQueue, [type |-> "disconnect", id |-> received + 1])
            \in Seq(Arrivals)
      BY <2>1 DEF TypeQueues
    <2> QED BY <1>3, <2>2, Zenon
           DEF TypeQueues, Closed, ConnectionCloses, EnqueueRecv
  <1>4. CASE Writeable
    BY <1>4 DEF Writeable
  <1>5. CASE TakeAnswer
    BY <1>5 DEF TakeAnswer
  <1>6. CASE TakeExit
    <2>1. CASE conn # 0
      <3>1. [type |-> "disconnect", id |-> received + 1] \in Arrivals
        BY DEF TypeCounts, Arrivals
      <3>2. /\ Append(recvQueue, [type |-> "disconnect", id |-> received + 1])
              \in Seq(Arrivals)
            /\ sendQueue # <<>> => Tail(sendQueue) \in Seq(Nat)
        BY <3>1 DEF TypeQueues
      <3> QED BY <1>6, <2>1, <3>2, Zenon
               DEF TypeQueues, TakeExit, ConnectionCloses, EnqueueRecv
    <2>2. CASE conn = 0
      BY <1>6, <2>2 DEF TypeQueues, TakeExit
    <2> QED BY <2>1, <2>2
  <1>7. CASE IoThreadExits
    BY <1>7 DEF IoThreadExits
  <1>8. CASE RunScript
    BY <1>8 DEF RunScript
  <1>9. CASE Send
    <2>1. Append(sendQueue, sent + 1) \in Seq(Nat)
      BY DEF TypeQueues, TypeCounts
    <2> QED BY <1>9, <2>1, Zenon DEF TypeQueues, Send
  <1>10. CASE RunMessageLoopOnPause
    BY <1>10 DEF RunMessageLoopOnPause, MarkNested
  <1>11. CASE QuitMessageLoopOnPause
    BY <1>11 DEF QuitMessageLoopOnPause
  <1>12. CASE OnMessageComing
    BY <1>12 DEF OnMessageComing, TakeAll
  <1>13. CASE HandleNext
    BY <1>13 DEF HandleNext, OnMainThreadRecvMessage, SetNonBlocking
  <1>14. CASE WaitOnce
    BY <1>14 DEF WaitOnce, OnMainThreadRecvMessage, SetNonBlocking, KeepSignal
  <1>15. CASE V8Returns
    BY <1>15 DEF V8Returns
  <1>16. CASE PauseEnds
    BY <1>16 DEF PauseEnds
  <1>17. CASE Joined
    BY <1>17 DEF Joined
  <1>18. CASE Dispose
    <2>1. Append(sendQueue, Exit) \in Seq(Nat)
      BY DEF TypeQueues, Exit
    <2> QED BY <1>18, <2>1, Zenon DEF TypeQueues, Dispose
  <1>19. CASE UNCHANGED vars
    BY <1>19 DEF vars
  <1> QED
    BY <1>1, <1>2, <1>3, <1>4, <1>5, <1>6, <1>7, <1>8, <1>9, <1>10, <1>11,
       <1>12, <1>13, <1>14, <1>15, <1>16, <1>17, <1>18, <1>19
       DEF Next, Frontend, IoThread, Program, MainThread

(* The numbers of a queue's arrivals                                       *)
Ids(s) == {msg.id : msg \in Range(s)}

(* The parts of ArrivalsKept over the numbers alone.                       *)
LEMMA KeptIds ==
    ArrivalsKept <=>
        /\ Rising(batch) /\ Rising(recvQueue)
        /\ \A m \in Ids(batch), n \in Ids(recvQueue) : m < n
        /\ Ids(batch) \cup Ids(recvQueue) = (1 .. received) \ handled
  <1>1. {msg.id : msg \in Range(batch) \cup Range(recvQueue)}
          = Ids(batch) \cup Ids(recvQueue)
    BY Zenon DEF Ids
  <1>2. (\A old \in Range(batch), new \in Range(recvQueue) : old.id < new.id)
        <=> (\A m \in Ids(batch), n \in Ids(recvQueue) : m < n)
    BY Zenon DEF Ids
  <1> QED BY <1>1, <1>2, Zenon DEF ArrivalsKept

(* ArrivalsKept of the next state, with the numbers kept as rigid sets.      *)
LEMMA KeptIdsNext ==
    ArrivalsKept' <=>
        /\ Rising(batch') /\ Rising(recvQueue')
        /\ \A m \in Ids(batch'), n \in Ids(recvQueue') : m < n
        /\ Ids(batch') \cup Ids(recvQueue') = (1 .. received') \ handled'
  <1>1. {msg.id : msg \in Range(batch') \cup Range(recvQueue')}
          = Ids(batch') \cup Ids(recvQueue')
    BY Zenon DEF Ids
  <1>2. (\A old \in Range(batch'), new \in Range(recvQueue') : old.id < new.id)
        <=> (\A m \in Ids(batch'), n \in Ids(recvQueue') : m < n)
    BY Zenon DEF Ids
  <1> QED BY <1>1, <1>2, Zenon DEF ArrivalsKept

(* Taking the oldest arrival of a queue takes its number, and no other.    *)
LEMMA IdsTail ==
    ASSUME NEW s \in Seq(Arrivals), s # <<>>, Rising(s)
    PROVE  /\ Rising(Tail(s)) /\ Head(s).id \in Ids(s)
           /\ Ids(Tail(s)) = Ids(s) \ {Head(s).id}
  <1>1. Rising(Tail(s)) /\ \A x \in Range(Tail(s)) : Head(s).id < x.id
    BY RisingTail
  <1>2. Ids(s) = Ids(Tail(s)) \cup {Head(s).id}
    BY RangeTail, Zenon DEF Ids
  <1>3. Head(s) \in Arrivals
    OBVIOUS
  <1>4. Head(s).id \notin Ids(Tail(s))
    <2>1. ~(Head(s).id < Head(s).id)
      BY <1>3 DEF Arrivals
    <2> QED BY <1>1, <2>1, Zenon DEF Ids
  <1> QED BY <1>1, <1>2, <1>4

(* A new arrival is the newest.                                            *)
LEMMA EnqueueKeeps ==
    ASSUME TypeCounts, TypeQueues, ArrivalsKept,
           NEW type \in {"connect", "disconnect", "payload"},
           EnqueueRecv(type), UNCHANGED <<batch, handled>>
    PROVE  ArrivalsKept'
  <1> DEFINE m == [type |-> type, id |-> received + 1]
  <1>1. m \in Arrivals /\ received \in Nat /\ m.id = received + 1
    BY DEF Arrivals, TypeCounts
  <1>2. recvQueue \in Seq(Arrivals)
    BY DEF TypeQueues
  <1>3. recvQueue' = Append(recvQueue, m) /\ received' = received + 1
    BY DEF EnqueueRecv
  <1>4. Ids(batch) \cup Ids(recvQueue) = (1 .. received) \ handled
    BY KeptIds
  <1> HIDE DEF m
  <1>5. Ids(recvQueue') = Ids(recvQueue) \cup {m.id}
    <2>1. Range(recvQueue') = Range(recvQueue) \cup {m}
      BY <1>1, <1>2, <1>3, RangeAppend
    <2> QED BY <2>1, Zenon DEF Ids
  <1>6. \A n \in Ids(batch) \cup Ids(recvQueue) : n < m.id
    BY <1>1, <1>4
  <1>7. Rising(recvQueue')
    <2>1. \A x \in Range(recvQueue) : x.id < m.id
      BY <1>6, Zenon DEF Ids
    <2>2. Rising(recvQueue)
      BY KeptIds
    <2> QED BY <2>1, <2>2, <1>1, <1>2, <1>3, RisingAppend
  <1>8. \A k \in Ids(batch'), n \in Ids(recvQueue') : k < n
    BY <1>5, <1>6, KeptIds
  <1>9. Ids(batch') \cup Ids(recvQueue') = (1 .. received') \ handled'
    <2>1. handled \subseteq 1 .. received
      BY DEF TypeCounts
    <2>2. (1 .. (received + 1)) \ handled
            = ((1 .. received) \ handled) \cup {received + 1}
      BY <1>1, <2>1
    <2> QED BY <2>2, <1>1, <1>3, <1>4, <1>5
  <1> QED BY <1>7, <1>8, <1>9, KeptIds, KeptIdsNext


(* No step loses, repeats or reorders an arrival.                            *)
LEMMA ArrivalsStep ==
    ASSUME TypeCounts, TypeQueues, ArrivalsKept, [Next]_vars
    PROVE  ArrivalsKept'
  <1>1. CASE Established
    <2>1. EnqueueRecv("connect") /\ UNCHANGED <<batch, handled>>
      BY <1>1 DEF Established
    <2> QED BY <2>1, EnqueueKeeps
  <1>2. CASE Receive
    <2>1. EnqueueRecv("payload") /\ UNCHANGED <<batch, handled>>
      BY <1>2 DEF Receive
    <2> QED BY <2>1, EnqueueKeeps
  <1>3. CASE Closed
    <2>1. EnqueueRecv("disconnect") /\ UNCHANGED <<batch, handled>>
      BY <1>3 DEF Closed, ConnectionCloses
    <2> QED BY <2>1, EnqueueKeeps
  <1>4. CASE Writeable
    BY <1>4 DEF Writeable, ArrivalsKept
  <1>5. CASE TakeAnswer
    BY <1>5 DEF TakeAnswer, ArrivalsKept
  <1>6. CASE TakeExit
    <2>1. UNCHANGED <<batch, handled>>
      BY <1>6 DEF TakeExit
    <2>2. CASE ConnectionCloses
      BY <2>1, <2>2, EnqueueKeeps DEF ConnectionCloses
    <2>3. CASE UNCHANGED <<conn, writable, recvVars, received>>
      BY <2>1, <2>3 DEF ArrivalsKept
    <2> QED BY <2>2, <2>3, <1>6 DEF TakeExit
  <1>7. CASE IoThreadExits
    BY <1>7 DEF IoThreadExits, ArrivalsKept
  <1>8. CASE RunScript
    BY <1>8 DEF RunScript, ArrivalsKept
  <1>9. CASE Send
    BY <1>9 DEF Send, ArrivalsKept
  <1>10. CASE RunMessageLoopOnPause
    BY <1>10 DEF RunMessageLoopOnPause, MarkNested, ArrivalsKept
  <1>11. CASE QuitMessageLoopOnPause
    BY <1>11 DEF QuitMessageLoopOnPause, ArrivalsKept
  <1>12. CASE OnMessageComing
    <2>1. /\ batch = <<>> /\ batch' = recvQueue /\ recvQueue' = <<>>
          /\ UNCHANGED <<received, handled>>
      BY <1>12 DEF OnMessageComing, TakeAll
    <2>2. Range(<<>>) = {} /\ Rising(<<>>)
      BY DEF Range, Rising
    <2>3. Ids(batch) = {} /\ Ids(recvQueue') = {}
      BY <2>1, <2>2 DEF Ids
    <2> QED BY <2>1, <2>2, <2>3, KeptIds, KeptIdsNext
  <1>13. CASE HandleNext
    <2>1. /\ batch # <<>> /\ batch' = Tail(batch)
          /\ handled' = handled \cup {Head(batch).id}
          /\ UNCHANGED <<recvQueue, received>>
      BY <1>13 DEF HandleNext, OnMainThreadRecvMessage
    <2>2. batch \in Seq(Arrivals)
      BY DEF TypeQueues
    <2>3. /\ Rising(Tail(batch)) /\ Head(batch).id \in Ids(batch)
          /\ Ids(Tail(batch)) = Ids(batch) \ {Head(batch).id}
      BY <2>1, <2>2, IdsTail, KeptIds
    <2>4. Head(batch).id \notin Ids(recvQueue)
      <3>1. Head(batch).id \in Nat
        BY <2>1, <2>2, HeadArrived
      <3>2. ~(Head(batch).id < Head(batch).id)
        BY <3>1
      <3> QED BY <2>3, <3>2, KeptIds
    <2> QED BY <2>1, <2>3, <2>4, KeptIds, KeptIdsNext
  <1>14. CASE WaitOnce
    <2>1. /\ recvQueue # <<>> /\ recvQueue' = Tail(recvQueue)
          /\ handled' = handled \cup {Head(recvQueue).id}
          /\ UNCHANGED <<batch, received>>
      BY <1>14 DEF WaitOnce, OnMainThreadRecvMessage
    <2>2. recvQueue \in Seq(Arrivals)
      BY DEF TypeQueues
    <2>3. /\ Rising(Tail(recvQueue)) /\ Head(recvQueue).id \in Ids(recvQueue)
          /\ Ids(Tail(recvQueue)) = Ids(recvQueue) \ {Head(recvQueue).id}
      BY <2>1, <2>2, IdsTail, KeptIds
    <2>4. Head(recvQueue).id \notin Ids(batch)
      <3>1. Head(recvQueue).id \in Nat
        BY <2>1, <2>2, HeadArrived
      <3>2. ~(Head(recvQueue).id < Head(recvQueue).id)
        BY <3>1
      <3> QED BY <2>3, <3>2, KeptIds
    <2> QED BY <2>1, <2>3, <2>4, KeptIds, KeptIdsNext
  <1>15. CASE V8Returns
    BY <1>15 DEF V8Returns, ArrivalsKept
  <1>16. CASE PauseEnds
    BY <1>16 DEF PauseEnds, ArrivalsKept
  <1>17. CASE Joined
    BY <1>17 DEF Joined, ArrivalsKept
  <1>18. CASE Dispose
    BY <1>18 DEF Dispose, SetNonBlocking, ArrivalsKept
  <1>19. CASE UNCHANGED vars
    BY <1>19 DEF vars, ArrivalsKept
  <1> QED
    BY <1>1, <1>2, <1>3, <1>4, <1>5, <1>6, <1>7, <1>8, <1>9, <1>10, <1>11,
       <1>12, <1>13, <1>14, <1>15, <1>16, <1>17, <1>18, <1>19
       DEF Next, Frontend, IoThread, Program, MainThread

-------------------------------------------------------------------------------
(* Taking a message from one queue to the next leaves the whole as it is.  *)
LEMMA PassOn ==
    ASSUME NEW w \in Seq(Nat), NEW q \in Seq(Nat), NEW s \in Seq(Nat), s # <<>>
    PROVE  w \o Append(q, Head(s)) \o Tail(s) = w \o q \o s
  <1>1. \A v \in Seq(Nat) : Append(v, Head(s)) \o Tail(s) = v \o s
    OBVIOUS
  <1>2. Head(s) \in Nat
    OBVIOUS
  <1>3. w \o Append(q, Head(s)) = Append(w \o q, Head(s))
    BY <1>2
  <1>4. w \o q \in Seq(Nat)
    OBVIOUS
  <1> QED BY <1>1, <1>3, <1>4, Zenon

(* A further answer gets the next number.                                  *)
LEMMA NumbersAppend ==
    ASSUME NEW n \in Nat
    PROVE  /\ Numbers(n) \in Seq(Nat) /\ Len(Numbers(n)) = n
           /\ Numbers(n + 1) = Append(Numbers(n), n + 1)
  <1>1. Numbers(n) \in Seq(Nat) /\ Len(Numbers(n)) = n
    BY DEF Numbers
  <1>2. Numbers(n + 1) \in Seq(Nat) /\ Len(Numbers(n + 1)) = n + 1
    BY DEF Numbers
  <1>3. ASSUME NEW i \in 1 .. n + 1
        PROVE  Numbers(n + 1)[i] = Append(Numbers(n), n + 1)[i]
    <2>1. CASE i = n + 1
      BY <1>1, <2>1 DEF Numbers
    <2>2. CASE i # n + 1
      <3>1. i \in 1 .. n
        BY <2>2
      <3>2. Append(Numbers(n), n + 1)[i] = Numbers(n)[i]
        BY <3>1, <1>1
      <3> QED BY <3>1, <3>2 DEF Numbers
    <2> QED BY <2>1, <2>2
  <1>4. /\ Append(Numbers(n), n + 1) \in Seq(Nat)
        /\ Len(Append(Numbers(n), n + 1)) = n + 1
    BY <1>1
  <1>5. Numbers(n + 1) = Append(Numbers(n), n + 1)
    BY <1>2, <1>3, <1>4, SeqEqual
  <1> QED BY <1>1, <1>5

(* What writing the head of the second sequence does to a concatenation.     *)
LEMMA LenConcat ==
    ASSUME NEW w \in Seq(Nat), NEW s \in Seq(Nat)
    PROVE  /\ Len(w \o s) = Len(w) + Len(s)
           /\ \A i \in 1 .. Len(w) : (w \o s)[i] = w[i]
           /\ s # <<>> => (w \o s)[Len(w) + 1] = Head(s) /\ Len(s) > 0
           /\ Len(s) = 1 => Tail(s) = <<>>
  <1>1. Len(s) = 1 => Tail(s) = <<>>
    <2>1. ASSUME Len(s) = 1, Tail(s) # <<>> PROVE FALSE
      <3>1. s # <<>>
        BY <2>1
      <3>2. Tail(s) \in Seq(Nat) /\ Len(Tail(s)) = 0
        BY <2>1, <3>1, HeadTailProperties
      <3>3. Len(Tail(s)) \in Nat \ {0}
        BY <3>2, <2>1, EmptySeq
      <3> QED BY <3>2, <3>3
    <2> QED BY <2>1
  <1>2. /\ Len(w \o s) = Len(w) + Len(s)
        /\ \A i \in 1 .. Len(w) : (w \o s)[i] = w[i]
    OBVIOUS
  <1>3. s # <<>> => (w \o s)[Len(w) + 1] = Head(s) /\ Len(s) > 0
    OBVIOUS
  <1> QED BY <1>1, <1>2, <1>3

(* kExit is behind every answer.                                           *)
LEMMA ExitLast ==
    ASSUME NEW w \in Seq(Nat), NEW s \in Seq(Nat), NEW n \in Nat,
           NEW t \in Seq(Nat),
           s # <<>> /\ Head(s) = Exit /\ Len(t) <= 1 /\ w \o s = Numbers(n) \o t
    PROVE  Tail(s) = <<>> /\ w = Numbers(n) /\ Len(t) = 1
  <1> DEFINE u == w \o s
  <1>1. Numbers(n) \in Seq(Nat) /\ Len(Numbers(n)) = n
    BY NumbersAppend
  <1>2. /\ Len(u) = Len(w) + Len(s) /\ Len(u) = n + Len(t) /\ Len(s) > 0
        /\ u[Len(w) + 1] = 0
        /\ \A i \in 1 .. Len(w) : u[i] = w[i]
        /\ \A i \in 1 .. n : u[i] = Numbers(n)[i]
    <2>1. /\ Len(u) = Len(w) + Len(s) /\ Len(s) > 0
          /\ u[Len(w) + 1] = 0
          /\ \A i \in 1 .. Len(w) : u[i] = w[i]
      BY LenConcat, Zenon DEF Exit
    <2>2. /\ Len(u) = n + Len(t)
          /\ \A i \in 1 .. n : u[i] = Numbers(n)[i]
      <3>1. u = Numbers(n) \o t
        OBVIOUS
      <3>2. /\ Len(Numbers(n) \o t) = Len(Numbers(n)) + Len(t)
            /\ \A i \in 1 .. Len(Numbers(n)) : (Numbers(n) \o t)[i] = Numbers(n)[i]
        BY <1>1, LenConcat, Zenon
      <3> HIDE DEF u
      <3> QED BY <3>1, <3>2, <1>1, Zenon
    <2> QED BY <2>1, <2>2
  <1>3. \A i \in 1 .. n : Numbers(n)[i] = i
    BY DEF Numbers
  <1>4. Len(w) \in Nat /\ Len(s) \in Nat /\ Len(t) \in Nat /\ Len(t) <= 1
    OBVIOUS
  <1> HIDE DEF u
  <1>5. Len(w) + 1 > n
    <2>1. ASSUME Len(w) + 1 <= n PROVE FALSE
      <3>1. Len(w) + 1 \in 1 .. n
        BY <1>4, <2>1
      <3>2. u[Len(w) + 1] = Len(w) + 1
        BY <3>1, <1>2, <1>3, Zenon
      <3> QED BY <3>2, <1>2, <1>4
    <2> QED BY <2>1, <1>4
  <1>6. Len(w) = n /\ Len(s) = 1 /\ Len(t) = 1
    <2>1. Len(w) + Len(s) = n + Len(t) /\ Len(s) > 0
      BY <1>2, Zenon
    <2>2. \A a, b, c, d \in Nat :
             a + b = c + d /\ b > 0 /\ d <= 1 /\ a + 1 > c
                => a = c /\ b = 1 /\ d = 1
      OBVIOUS
    <2> QED BY <2>1, <2>2, <1>4, <1>5, Zenon
  <1>7. w = Numbers(n)
    <2>1. \A i \in 1 .. n : w[i] = Numbers(n)[i]
      BY <1>2, <1>6
    <2> QED BY <2>1, <1>1, <1>6, SeqEqual
  <1> QED BY <1>6, <1>7, LenConcat

(* The io thread serves until the main thread sends kExit.                 *)
LEMMA OnTheWay ==
    /\ ExitOnItsWay \in Seq(Nat) /\ Len(ExitOnItsWay) <= 1
    /\ main # "joining" => ExitOnItsWay = <<>>
  <1>1. CASE main = "joining" /\ io = "serving"
    BY <1>1 DEF ExitOnItsWay, Exit
  <1>2. CASE ~(main = "joining" /\ io = "serving")
    <2>1. ExitOnItsWay = <<>>
      BY <1>2, Zenon DEF ExitOnItsWay
    <2> QED BY <2>1
  <1> QED BY <1>1, <1>2


(* The io thread ends for the join only.                                     *)
LEMMA PhasesStep ==
    ASSUME Phases, TypeQueues, TypeCounts, AnswersKept, [Next]_vars
    PROVE  Phases'
  <1> USE DEF Phases
  <1>1. CASE Established
    BY <1>1 DEF Established, EnqueueRecv
  <1>2. CASE Receive
    BY <1>2 DEF Receive, EnqueueRecv
  <1>3. CASE Closed
    BY <1>3 DEF Closed, ConnectionCloses, EnqueueRecv
  <1>4. CASE Writeable
    BY <1>4 DEF Writeable
  <1>5. CASE TakeAnswer
    BY <1>5 DEF TakeAnswer
  <1>6. CASE TakeExit
    <2>1. /\ sendQueue # <<>> /\ Head(sendQueue) = Exit
          /\ io = "serving" /\ io' = "stopping"
          /\ UNCHANGED main
      BY <1>6 DEF TakeExit
    <2> DEFINE w == written \o writeQueue
    <2>2. /\ w \in Seq(Nat) /\ sendQueue \in Seq(Nat) /\ sent \in Nat
      BY BoundsAssumption DEF TypeQueues, TypeCounts
    <2>3. w \o sendQueue = Numbers(sent) \o ExitOnItsWay
      BY <2>1 DEF AnswersKept
    <2> HIDE DEF w
    <2>4. Len(ExitOnItsWay) = 1
      BY <2>1, <2>2, <2>3, OnTheWay, ExitLast, Zenon
    <2>5. Len(<<>>) # 1
      OBVIOUS
    <2>6. main = "joining"
      BY <2>4, <2>5, OnTheWay
    <2> QED BY <2>1, <2>6
  <1>7. CASE IoThreadExits
    BY <1>7 DEF IoThreadExits
  <1>8. CASE RunScript
    BY <1>8 DEF RunScript
  <1>9. CASE Send
    BY <1>9 DEF Send
  <1>10. CASE RunMessageLoopOnPause
    BY <1>10 DEF RunMessageLoopOnPause, MarkNested
  <1>11. CASE QuitMessageLoopOnPause
    BY <1>11 DEF QuitMessageLoopOnPause
  <1>12. CASE OnMessageComing
    BY <1>12 DEF OnMessageComing, TakeAll
  <1>13. CASE HandleNext
    BY <1>13 DEF HandleNext, OnMainThreadRecvMessage, SetNonBlocking
  <1>14. CASE WaitOnce
    BY <1>14 DEF WaitOnce, OnMainThreadRecvMessage, SetNonBlocking, KeepSignal
  <1>15. CASE V8Returns
    BY <1>15 DEF V8Returns
  <1>16. CASE PauseEnds
    BY <1>16 DEF PauseEnds
  <1>17. CASE Joined
    BY <1>17 DEF Joined
  <1>18. CASE Dispose
    BY <1>18 DEF Dispose, SetNonBlocking
  <1>19. CASE UNCHANGED vars
    BY <1>19 DEF vars
  <1> QED
    BY <1>1, <1>2, <1>3, <1>4, <1>5, <1>6, <1>7, <1>8, <1>9, <1>10, <1>11,
       <1>12, <1>13, <1>14, <1>15, <1>16, <1>17, <1>18, <1>19
       DEF Next, Frontend, IoThread, Program, MainThread

(* No step loses, repeats or reorders an answer.                             *)
LEMMA AnswersStep ==
    ASSUME TypeCounts, TypeQueues, Phases, AnswersKept, [Next]_vars
    PROVE  AnswersKept'
  <1>1. CASE Established
    <2>1. UNCHANGED <<written, writeQueue, sendQueue, sent, main, io>>
      BY <1>1 DEF Established, EnqueueRecv
    <2> QED BY <2>1, Zenon DEF AnswersKept, ExitOnItsWay
  <1>2. CASE Receive
    <2>1. UNCHANGED <<written, writeQueue, sendQueue, sent, main, io>>
      BY <1>2 DEF Receive, EnqueueRecv
    <2> QED BY <2>1, Zenon DEF AnswersKept, ExitOnItsWay
  <1>3. CASE Closed
    <2>1. UNCHANGED <<written, writeQueue, sendQueue, sent, main, io>>
      BY <1>3 DEF Closed, ConnectionCloses, EnqueueRecv
    <2> QED BY <2>1, Zenon DEF AnswersKept, ExitOnItsWay
  <1>4. CASE Writeable
    <2>1. /\ written' = written \o writeQueue /\ writeQueue' = <<>>
          /\ UNCHANGED <<sendQueue, sent, main, io>>
      BY <1>4 DEF Writeable
    <2>2. (written \o writeQueue) \o <<>> \o sendQueue = written \o writeQueue \o sendQueue
      BY DEF TypeQueues
    <2> QED BY <2>1, <2>2, Zenon DEF AnswersKept, ExitOnItsWay
  <1>5. CASE TakeAnswer
    <2>1. /\ writeQueue' = Append(writeQueue, Head(sendQueue))
          /\ sendQueue' = Tail(sendQueue) /\ sendQueue # <<>>
          /\ UNCHANGED <<written, sent, main, io>>
      BY <1>5 DEF TakeAnswer
    <2>2. written \o writeQueue' \o sendQueue' = written \o writeQueue \o sendQueue
      <3>1. /\ written \in Seq(Nat) /\ writeQueue \in Seq(Nat)
            /\ sendQueue \in Seq(Nat)
        BY DEF TypeQueues
      <3>2. written \o Append(writeQueue, Head(sendQueue)) \o Tail(sendQueue)
              = written \o writeQueue \o sendQueue
        BY <2>1, <3>1, PassOn, Zenon
      <3> QED BY <2>1, <3>2, Zenon
    <2> QED BY <2>1, <2>2, Zenon DEF AnswersKept, ExitOnItsWay
  <1>6. CASE TakeExit
    <2>1. /\ sendQueue # <<>> /\ Head(sendQueue) = Exit /\ sendQueue' = Tail(sendQueue)
          /\ io = "serving" /\ io' = "stopping"
          /\ UNCHANGED <<written, writeQueue, sent, main>>
      BY <1>6 DEF TakeExit
    <2> DEFINE w == written \o writeQueue
    <2>2. /\ w \in Seq(Nat) /\ sendQueue \in Seq(Nat) /\ sent \in Nat
          /\ Numbers(sent) \in Seq(Nat)
      BY NumbersAppend, BoundsAssumption DEF TypeQueues, TypeCounts
    <2>3. w \o sendQueue = Numbers(sent) \o ExitOnItsWay
      BY <2>1 DEF AnswersKept
    <2> HIDE DEF w
    <2>4. Tail(sendQueue) = <<>> /\ w = Numbers(sent)
      BY <2>1, <2>2, <2>3, OnTheWay, ExitLast, Zenon
    <2>5. w \o <<>> = w /\ Numbers(sent) \o <<>> = Numbers(sent)
      BY <2>2
    <2>6. ExitOnItsWay' = <<>>
      BY <2>1 DEF ExitOnItsWay
    <2>7. w \o sendQueue' = Numbers(sent) \o ExitOnItsWay'
      BY <2>1, <2>4, <2>5, <2>6, Zenon
    <2> QED BY <2>1, <2>7, Zenon DEF AnswersKept, w
  <1>7. CASE IoThreadExits
    BY <1>7 DEF IoThreadExits, AnswersKept
  <1>8. CASE RunScript
    <2>1. /\ UNCHANGED <<written, writeQueue, sendQueue, sent>>
          /\ main # "joining" /\ main' # "joining"
          /\ UNCHANGED io
      BY <1>8 DEF RunScript
    <2> QED BY <2>1, Zenon DEF AnswersKept, ExitOnItsWay
  <1>9. CASE Send
    <2>1. /\ sendQueue' = Append(sendQueue, sent + 1) /\ sent' = sent + 1
          /\ UNCHANGED <<written, writeQueue, main, io>> /\ main = "running"
      BY <1>9 DEF Send
    <2>2. ExitOnItsWay = <<>> /\ ExitOnItsWay' = <<>>
      BY <2>1, Zenon DEF ExitOnItsWay
    <2> DEFINE w == written \o writeQueue
    <2>3. w \in Seq(Nat) /\ sendQueue \in Seq(Nat) /\ sent \in Nat
      BY BoundsAssumption DEF TypeQueues, TypeCounts
    <2>4. /\ Numbers(sent) \in Seq(Nat)
          /\ Numbers(sent + 1) = Append(Numbers(sent), sent + 1)
      BY <2>3, NumbersAppend
    <2> HIDE DEF w
    <2>5. w \o Append(sendQueue, sent + 1) = Append(w \o sendQueue, sent + 1)
      BY <2>3
    <2>6. /\ Numbers(sent) \o <<>> = Numbers(sent)
          /\ Append(Numbers(sent), sent + 1) \o <<>> = Append(Numbers(sent), sent + 1)
      BY <2>3, <2>4
    <2>7. io # "exited" => w \o sendQueue = Numbers(sent)
      BY <2>2, <2>6, Zenon DEF AnswersKept, w
    <2>8. io # "exited" => w \o sendQueue' = Numbers(sent') \o ExitOnItsWay'
      BY <2>1, <2>2, <2>4, <2>5, <2>6, <2>7, Zenon
    <2> QED BY <2>1, <2>8, Zenon DEF AnswersKept, w
  <1>10. CASE RunMessageLoopOnPause
    <2>1. /\ UNCHANGED <<written, writeQueue, sendQueue, sent>>
          /\ main # "joining" /\ main' # "joining"
          /\ UNCHANGED io
      BY <1>10 DEF RunMessageLoopOnPause, MarkNested
    <2> QED BY <2>1, Zenon DEF AnswersKept, ExitOnItsWay
  <1>11. CASE QuitMessageLoopOnPause
    <2>1. UNCHANGED <<written, writeQueue, sendQueue, sent, main, io>>
      BY <1>11 DEF QuitMessageLoopOnPause
    <2> QED BY <2>1, Zenon DEF AnswersKept, ExitOnItsWay
  <1>12. CASE OnMessageComing
    <2>1. UNCHANGED <<written, writeQueue, sendQueue, sent, main, io>>
      BY <1>12 DEF OnMessageComing, TakeAll
    <2> QED BY <2>1, Zenon DEF AnswersKept, ExitOnItsWay
  <1>13. CASE HandleNext
    <2>1. /\ UNCHANGED <<written, writeQueue, sendQueue, sent>>
          /\ main # "joining" /\ main' # "joining"
          /\ UNCHANGED io
      BY <1>13 DEF HandleNext, OnMainThreadRecvMessage, SetNonBlocking
    <2> QED BY <2>1, Zenon DEF AnswersKept, ExitOnItsWay
  <1>14. CASE WaitOnce
    <2>1. /\ UNCHANGED <<written, writeQueue, sendQueue, sent>>
          /\ main # "joining" /\ main' # "joining"
          /\ UNCHANGED io
      BY <1>14 DEF WaitOnce, OnMainThreadRecvMessage, SetNonBlocking, KeepSignal
    <2> QED BY <2>1, Zenon DEF AnswersKept, ExitOnItsWay
  <1>15. CASE V8Returns
    <2>1. /\ UNCHANGED <<written, writeQueue, sendQueue, sent>>
          /\ main # "joining" /\ main' # "joining"
          /\ UNCHANGED io
      BY <1>15 DEF V8Returns
    <2> QED BY <2>1, Zenon DEF AnswersKept, ExitOnItsWay
  <1>16. CASE PauseEnds
    <2>1. /\ UNCHANGED <<written, writeQueue, sendQueue, sent>>
          /\ main # "joining" /\ main' # "joining"
          /\ UNCHANGED io
      BY <1>16 DEF PauseEnds
    <2> QED BY <2>1, Zenon DEF AnswersKept, ExitOnItsWay
  <1>17. CASE Joined
    BY <1>17 DEF Joined, AnswersKept
  <1>18. CASE Dispose
    <2>1. /\ sendQueue' = Append(sendQueue, Exit) /\ main = "loop" /\ main' = "joining"
          /\ UNCHANGED <<written, writeQueue, sent, io>>
      BY <1>18 DEF Dispose
    <2>2. io = "serving"
      BY <2>1 DEF Phases
    <2>3. ExitOnItsWay = <<>> /\ ExitOnItsWay' = <<Exit>>
      BY <2>1, <2>2, Zenon DEF ExitOnItsWay
    <2> DEFINE w == written \o writeQueue
    <2>4. w \in Seq(Nat) /\ sendQueue \in Seq(Nat) /\ sent \in Nat
      BY BoundsAssumption DEF TypeQueues, TypeCounts
    <2>5. Numbers(sent) \in Seq(Nat)
      BY <2>4, NumbersAppend
    <2> HIDE DEF w
    <2>6. w \o Append(sendQueue, Exit) = Append(w \o sendQueue, Exit)
      BY <2>4 DEF Exit
    <2>7. Numbers(sent) \o <<>> = Numbers(sent) /\ Numbers(sent) \o <<Exit>> = Append(Numbers(sent), Exit)
      BY <2>5 DEF Exit
    <2>8. w \o sendQueue = Numbers(sent)
      BY <2>2, <2>3, <2>7, Zenon DEF AnswersKept, w
    <2>9. w \o sendQueue' = Numbers(sent') \o ExitOnItsWay'
      BY <2>1, <2>3, <2>6, <2>7, <2>8, Zenon
    <2> QED BY <2>1, <2>9, Zenon DEF AnswersKept, w
  <1>19. CASE UNCHANGED vars
    <2>1. UNCHANGED <<written, writeQueue, sendQueue, sent, main, io>>
      BY <1>19 DEF vars
    <2> QED BY <2>1, Zenon DEF AnswersKept, ExitOnItsWay
  <1> QED
    BY <1>1, <1>2, <1>3, <1>4, <1>5, <1>6, <1>7, <1>8, <1>9, <1>10, <1>11,
       <1>12, <1>13, <1>14, <1>15, <1>16, <1>17, <1>18, <1>19
       DEF Next, Frontend, IoThread, Program, MainThread

-------------------------------------------------------------------------------
LEMMA Inductive == Spec => []IndInv
  <1>1. Init => IndInv
    <2> SUFFICES ASSUME Init PROVE IndInv
      OBVIOUS
    <2>1. TypeOK /\ Phases
      BY TypeInit DEF Init, Phases
    <2>2. ArrivalsKept
      <3>1. batch = <<>> /\ recvQueue = <<>> /\ received = 0 /\ handled = {}
        BY DEF Init
      <3>2. Range(<<>>) = {} /\ Rising(<<>>)
        BY DEF Range, Rising
      <3>3. 1 .. 0 = {}
        OBVIOUS
      <3> QED BY <3>1, <3>2, <3>3 DEF ArrivalsKept
    <2>3. AnswersKept
      <3>1. /\ written = <<>> /\ writeQueue = <<>> /\ sendQueue = <<>> /\ sent = 0
            /\ main # "joining"
        BY DEF Init
      <3>2. Numbers(0) = <<>>
        <4>1. Numbers(0) \in Seq(Nat) /\ Len(Numbers(0)) = 0
          BY NumbersAppend
        <4> QED BY <4>1, EmptySeq
      <3>3. <<>> \o <<>> \o <<>> = <<>> \o <<>>
        OBVIOUS
      <3> QED BY <3>1, <3>2, <3>3, OnTheWay, Zenon DEF AnswersKept
    <2> QED BY <2>1, <2>2, <2>3 DEF IndInv, NothingLost
  <1>2. IndInv /\ [Next]_vars => IndInv'
    <2> SUFFICES ASSUME IndInv, [Next]_vars PROVE IndInv'
      OBVIOUS
    <2>1. /\ TypeControl /\ TypeCounts /\ TypeQueues /\ Phases
          /\ ArrivalsKept /\ AnswersKept
      BY Zenon DEF IndInv, TypeOK, NothingLost
    <2>2. TypeOK'
      BY <2>1, ControlStep, QueuesStep, Zenon DEF TypeOK
    <2>3. NothingLost'
      BY <2>1, ArrivalsStep, AnswersStep, Zenon DEF NothingLost
    <2>4. Phases'
      BY <2>1, PhasesStep, Zenon
    <2> QED BY <2>2, <2>3, <2>4, Zenon DEF IndInv
  <1> QED BY <1>1, <1>2, PTL DEF Spec

(* Every reachable state of the two threads has the types of TypeOK; in    *)
(* particular a nested loop is always marked, so that it is never entered  *)
(* from itself.                                                            *)
THEOREM TypeCorrect == Spec => []TypeOK
  BY Inductive, PTL DEF IndInv

(* Neither a pause, whose nested loop takes from the queue under a batch   *)
(* the outer loop still holds, nor a change of session loses, repeats or   *)
(* overtakes a message between the two threads.                            *)
THEOREM NothingLostHolds == Spec => []NothingLost
  BY Inductive, PTL DEF IndInv

===============================================================================
