--------------------------- MODULE ReceiverProofs ---------------------------
(***************************************************************************)
(* Theorems about module Receiver, for any number of devices, messages and *)
(* failed attempts to start, and for both behaviours of wait_closed():     *)
(* two attempts do not overlap, and stop() loses nothing that arrived      *)
(* before the writers were told to stop.                                   *)
(***************************************************************************)
EXTENDS Receiver, TLAPS

-----------------------------------------------------------------------------
(***************************************************************************)
(* Queues.                                                                 *)
(***************************************************************************)

\* Append adds one message to those on a queue (asyncio.Queue.put_nowait()).
LEMMA SetOfAppend ==
    ASSUME NEW S, NEW s \in Seq(S), NEW e \in S
    PROVE  SetOf(Append(s, e)) = SetOf(s) \cup {e}
<1>1. \A i \in 1..Len(s) : Append(s, e)[i] = s[i]
  OBVIOUS
<1>2. Append(s, e)[Len(s) + 1] = e
  OBVIOUS
<1>3. DOMAIN Append(s, e) = 1..Len(s) \cup {Len(s) + 1}
  OBVIOUS
<1> QED
  BY <1>1, <1>2, <1>3 DEF SetOf

\* Taking the head off a queue takes only that message (Queue.get()).
LEMMA SetOfTail ==
    ASSUME NEW S, NEW s \in Seq(S), s # <<>>
    PROVE  SetOf(s) \subseteq {Head(s)} \cup SetOf(Tail(s))
<1> SUFFICES ASSUME NEW i \in 1..Len(s), i # 1
             PROVE  s[i] \in SetOf(Tail(s))
  BY DEF SetOf
<1>1. i - 1 \in DOMAIN Tail(s) /\ Tail(s)[i - 1] = s[i]
  OBVIOUS
<1> QED
  BY <1>1 DEF SetOf

\* What is left of a queue is a queue.
LEMMA TailType ==
    ASSUME NEW S, NEW s \in Seq(S), s # <<>>
    PROVE  Tail(s) \in Seq(S)
  OBVIOUS

\* A tail has no message that its queue has not.
LEMMA SetOfTailIn ==
    ASSUME NEW S, NEW s \in Seq(S), s # <<>>
    PROVE  SetOf(Tail(s)) \subseteq SetOf(s)
<1> SUFFICES ASSUME NEW i \in DOMAIN Tail(s)
             PROVE  Tail(s)[i] \in SetOf(s)
  BY DEF SetOf
<1>1. i + 1 \in 1..Len(s) /\ Tail(s)[i] = s[i + 1]
  OBVIOUS
<1> QED
  BY <1>1 DEF SetOf

\* The head of a queue is one of its messages.
LEMMA HeadIn ==
    ASSUME NEW S, NEW s \in Seq(S), s # <<>>
    PROVE  Head(s) \in SetOf(s)
  BY DEF SetOf

\* A queue of messages holds messages.
LEMMA SetOfRange ==
    ASSUME NEW S, NEW s \in Seq(S)
    PROVE  SetOf(s) \subseteq S
  BY DEF SetOf

\* An empty queue holds none.
LEMMA SetOfEmpty == SetOf(<<>>) = {}
  BY DEF SetOf

-----------------------------------------------------------------------------
(***************************************************************************)
(* Typing.                                                                 *)
(***************************************************************************)

\* Each step of the process, its clients and its service keeps the types.
LEMMA TypingStep == TypeOK /\ [Next]_vars => TypeOK'
<1> SUFFICES ASSUME TypeOK, [Next]_vars PROVE TypeOK'
  OBVIOUS
<1> USE ReceiverAssumption DEF process, sockets, writers, index, host
<1> USE TypeOK
<1> DEFINE Fresh ==
        /\ writer' \in [Devices -> Task]
        /\ queue' \in [Devices -> Seq(1..MaxMsgs)]
        /\ buffer' \in [Devices -> SUBSET (1..MaxMsgs)]
<1>0. ASSUME NewServer PROVE Fresh
  <2>1. <<>> \in Seq(1..MaxMsgs)
    OBVIOUS
  <2> QED
    BY <1>0, <2>1 DEF NewServer, Task
<1>1. CASE SvcDoRun
  BY <1>1 DEF TypeOK, SvcDoRun, Service
<1>2. CASE SvcStop
  BY <1>2 DEF TypeOK, SvcStop, Service
<1>3. CASE StopRequested
  BY <1>3 DEF TypeOK, StopRequested
<1>4. CASE BeginRun
  <2>1. CASE stopEvent
    BY <1>4, <2>1 DEF TypeOK, BeginRun, Stage
  <2>2. CASE ~stopEvent
    BY <1>4, <2>2, <1>0 DEF TypeOK, BeginRun, NewServer, Stage, Task
  <2> QED
    BY <2>1, <2>2
<1>5. CASE UdpBound
  BY <1>5 DEF TypeOK, UdpBound, Stage
<1>6. CASE TcpBound
  BY <1>6 DEF TypeOK, TcpBound, Stage
<1>7. CASE Retry
  <2>1. CASE stopEvent
    BY <1>7, <2>1 DEF TypeOK, Retry, Stage
  <2>2. CASE ~stopEvent
    BY <1>7, <2>2, <1>0 DEF TypeOK, Retry, NewServer, Stage, Task
  <2> QED
    BY <2>1, <2>2
<1>8. CASE Shutdown
  BY <1>8 DEF TypeOK, Shutdown, CloseSockets, Stage
<1>9. CASE StartFails
  <2>1. failures' \in 0..MaxFailures
    BY <1>9 DEF TypeOK, StartFails
  <2> QED
    BY <1>9, <2>1 DEF TypeOK, StartFails, CloseSockets, Stage
<1>10. CASE StopWriters
  BY <1>10 DEF TypeOK, StopWriters, Stage, Registered
<1>11. CASE StopIndexer
  BY <1>11 DEF TypeOK, StopIndexer, Stage
<1>12. CASE Stopped
  BY <1>12 DEF TypeOK, Stopped, Stage
<1>13. ASSUME NEW d \in Devices, Enqueue(d)
       PROVE  /\ queue' \in [Devices -> Seq(1..MaxMsgs)]
              /\ count' \in 0..MaxMsgs
              /\ late' \subseteq 1..MaxMsgs
  <2>1. count + 1 \in 1..MaxMsgs
    BY <1>13 DEF TypeOK, Enqueue
  <2> QED
    BY <1>13, <2>1 DEF TypeOK, Enqueue
<1>14. CASE Datagram
  <2> PICK d \in Devices : Enqueue(d) /\ writer' = Created(d)
    BY <1>14 DEF Datagram
  <2>1. writer' \in [Devices -> Task]
    BY DEF TypeOK, Created, Task
  <2> QED
    BY <1>14, <1>13, <2>1 DEF TypeOK, Datagram
<1>15. CASE Connect
  BY <1>15 DEF TypeOK, Connect
<1>16. CASE HandlerBegins
  BY <1>16 DEF TypeOK, HandlerBegins, Created, Task
<1>17. CASE Line
  BY <1>17, <1>13 DEF TypeOK, Line
<1>18. CASE Disconnect
  BY <1>18 DEF TypeOK, Disconnect
<1>19. CASE Take
  <2> PICK d \in Devices :
          /\ queue[d] # <<>>
          /\ queue' = [queue EXCEPT ![d] = Tail(@)]
          /\ buffer' = [buffer EXCEPT ![d] = @ \cup {Head(queue[d])}]
          /\ idxQueue' = idxQueue \cup {Head(queue[d])}
    BY <1>19 DEF Take
  <2>1. queue[d] \in Seq(1..MaxMsgs)
    BY DEF TypeOK
  <2>2. Head(queue[d]) \in SetOf(queue[d])
    BY <2>1, HeadIn
  <2>3. SetOf(queue[d]) \subseteq 1..MaxMsgs
    BY <2>1, SetOfRange
  <2>4. Tail(queue[d]) \in Seq(1..MaxMsgs)
    BY <2>1, TailType
  <2> QED
    <3>1. queue' \in [Devices -> Seq(1..MaxMsgs)]
      BY <2>4 DEF TypeOK
    <3>2. /\ buffer' \in [Devices -> SUBSET (1..MaxMsgs)]
          /\ idxQueue' \subseteq 1..MaxMsgs
      BY <2>2, <2>3 DEF TypeOK
    <3> QED
      BY <1>19, <3>1, <3>2 DEF TypeOK, Take
<1>20. CASE Flush
  BY <1>20 DEF TypeOK, Flush
<1>21. CASE Drain
  <2> PICK d \in flag :
          /\ writer' = [writer EXCEPT ![d] = "last"]
          /\ buffer' = [buffer EXCEPT ![d] = @ \cup SetOf(queue[d])]
          /\ idxQueue' = idxQueue \cup SetOf(queue[d])
          /\ queue' = [queue EXCEPT ![d] = <<>>]
    BY <1>21 DEF Drain
  <2>1. d \in Devices /\ queue[d] \in Seq(1..MaxMsgs)
    BY DEF TypeOK
  <2>2. SetOf(queue[d]) \subseteq 1..MaxMsgs
    BY <2>1, SetOfRange
  <2>3. <<>> \in Seq(1..MaxMsgs)
    OBVIOUS
  <2>4. writer' \in [Devices -> Task] /\ idxQueue' \subseteq 1..MaxMsgs
    BY <2>2 DEF TypeOK, Task
  <2>5. buffer' \in [Devices -> SUBSET (1..MaxMsgs)]
    <3>1. buffer[d] \cup SetOf(queue[d]) \in SUBSET (1..MaxMsgs)
      BY <2>1, <2>2 DEF TypeOK
    <3> QED
      BY <3>1 DEF TypeOK
  <2>6. queue' \in [Devices -> Seq(1..MaxMsgs)]
    BY <2>3 DEF TypeOK
  <2> QED
    BY <1>21, <2>4, <2>5, <2>6 DEF TypeOK, Drain, process, sockets
<1>22. CASE LastFlush
  <2> PICK d \in Devices :
          /\ writer' = [writer EXCEPT ![d] = "done"]
          /\ filed' = filed \cup buffer[d]
          /\ buffer' = [buffer EXCEPT ![d] = {}]
    BY <1>22 DEF LastFlush
  <2>1. writer' \in [Devices -> Task] /\ filed' \subseteq 1..MaxMsgs
    BY DEF TypeOK, Task
  <2>2. buffer' \in [Devices -> SUBSET (1..MaxMsgs)]
    BY DEF TypeOK
  <2> QED
    BY <1>22, <2>1, <2>2 DEF TypeOK, LastFlush, process, sockets, index
<1>23. CASE Commit
  BY <1>23 DEF TypeOK, Commit
<1>24. CASE IndexerDrain
  BY <1>24 DEF TypeOK, IndexerDrain, Task
<1>25. CASE LastCommit
  BY <1>25 DEF TypeOK, LastCommit, Task
<1>26. CASE UNCHANGED vars
  BY <1>26 DEF TypeOK, vars
<1> QED
  BY <1>1, <1>2, <1>3, <1>4, <1>5, <1>6, <1>7, <1>8, <1>9, <1>10, <1>11, <1>12,
     <1>14, <1>15, <1>16, <1>17, <1>18, <1>19, <1>20, <1>21, <1>22, <1>23,
     <1>24, <1>25, <1>26 DEF Next, Steps

\* A process that has just started is of the types.
LEMMA TypingInit == Init => TypeOK
<1>1. <<>> \in Seq(1..MaxMsgs)
  OBVIOUS
<1> QED
  <2> SUFFICES ASSUME Init PROVE TypeOK
    OBVIOUS
  <2>1. /\ queue \in [Devices -> Seq(1..MaxMsgs)]
        /\ buffer \in [Devices -> SUBSET (1..MaxMsgs)]
        /\ writer \in [Devices -> Task]
    BY <1>1 DEF Init, Task
  <2>2. failures \in 0..MaxFailures /\ count \in 0..MaxMsgs
    BY ReceiverAssumption DEF Init
  <2> QED
    BY <2>1, <2>2 DEF Init, TypeOK, Stage, Service, Task

\* Every variable keeps its type through starts, retries and stops
\* (SyslogServer.start() and stop(), _start_with_retry()).
THEOREM Typing == Spec => []TypeOK
  BY TypingInit, TypingStep, PTL DEF Spec

-----------------------------------------------------------------------------
(***************************************************************************)
(* The invariant.                                                          *)
(*                                                                         *)
(* What stop() relies on is spread over four objects: the sockets, the     *)
(* connection handlers, the writers and the indexer.  Each part below says *)
(* what one of them is in each stage.                                      *)
(***************************************************************************)

\* stop() has not begun with the writers, or nothing runs.
Running == {"udp", "tcp", "serving", "closing", "writers"}
Quiet == {"boot", "waiting", "exited"}

\* A failed attempt had no TCP server, so it has no connections either.
Sockets ==
    /\ udp => stage \in {"tcp", "serving"}
    /\ tcp => stage = "serving"
    /\ failed => stage \in {"closing", "writers", "indexer"}
    /\ greeted \cup conns # {} =>
          /\ stage \in {"serving", "closing", "writers", "indexer"}
          /\ ~failed

\* The writers that stop_all() told to stop are those that return, and they
\* have returned when it is the indexer's turn.  After a failed attempt they
\* are all there are.
Told ==
    /\ \A d \in conns : writer[d] # "none"
    /\ flag # {} => stage \in {"writers", "indexer", "waiting", "exited"}
    /\ \A d \in Devices : writer[d] \in {"last", "done"} => d \in flag
    /\ stage \in {"indexer"} \cup Quiet => \A d \in flag : writer[d] = "done"
    /\ failed /\ stage \in {"writers", "indexer"} => Registered \subseteq flag
    /\ stage = "waiting" => Registered \subseteq flag

\* The indexer runs until it is told to stop, after the writers.
IndexerLast ==
    /\ stage \in Running => indexer = "run" /\ ~idxFlag
    /\ indexer \in {"last", "done"} => idxFlag
    /\ stage = "waiting" => indexer = "done"

\* The messages that arrived in time.
Punctual == (1..count) \ late

\* A punctual message waits on a writer's queue, or the writer has it in its
\* buffer or in a file and has offered it to the indexer.
Somewhere(m) ==
    \/ \E d \in Devices : m \in SetOf(queue[d])
    \/ /\ m \in filed \/ \E d \in Devices : m \in buffer[d]
       /\ m \in indexed \cup idxQueue \cup idxBatch

\* Whoever has it will still do something with it: a writer that was told to
\* stop and has not drained, or not written, or the indexer before it drained,
\* or before its last commit.
InGoodHands(m) ==
    /\ \A d \in Devices : m \in SetOf(queue[d]) =>
          /\ writer[d] = "run"
          /\ stage \in Running
          /\ stage = "writers" => d \in flag
    /\ \A d \in Devices : m \in buffer[d] =>
          /\ writer[d] \in {"run", "last"}
          /\ stage \in Running
          /\ stage = "writers" => d \in flag
    /\ m \in idxQueue => indexer = "run" /\ stage \notin Quiet
    /\ m \in idxBatch => indexer = "last" /\ stage \notin Quiet

Messages == \A m \in Punctual : Somewhere(m) /\ InGoodHands(m)

\* Only messages that were enqueued are anywhere.
Numbered ==
    /\ \A d \in Devices : SetOf(queue[d]) \cup buffer[d] \subseteq 1..count
    /\ filed \cup indexed \cup idxQueue \cup idxBatch \subseteq 1..count

Control == Sockets /\ Told /\ IndexerLast

IInv == TypeOK /\ Control /\ Numbered /\ Messages

\* Sockets, writers and indexer keep to the stages of start() and stop().
LEMMA ControlStep == TypeOK /\ Control /\ [Next]_vars => Control'
<1> SUFFICES ASSUME TypeOK, Control, [Next]_vars PROVE Control'
  OBVIOUS
<1> USE DEF process, sockets, writers, index, host, TypeOK, Control, Sockets,
            Told, IndexerLast, Running, Quiet, Registered, Stage, Task
<1>1. CASE SvcDoRun
  BY <1>1 DEF SvcDoRun
<1>2. CASE SvcStop
  BY <1>2 DEF SvcStop
<1>3. CASE StopRequested
  BY <1>3 DEF StopRequested
<1>4. CASE BeginRun
  BY <1>4 DEF BeginRun, NewServer
<1>5. CASE UdpBound
  BY <1>5 DEF UdpBound
<1>6. CASE TcpBound
  BY <1>6 DEF TcpBound
<1>7. CASE Retry
  BY <1>7 DEF Retry, NewServer
<1>8. CASE Shutdown
  BY <1>8 DEF Shutdown, CloseSockets
<1>9. CASE StartFails
  BY <1>9 DEF StartFails, CloseSockets
<1>10. CASE StopWriters
  BY <1>10 DEF StopWriters
<1>11. CASE StopIndexer
  BY <1>11 DEF StopIndexer
<1>12. CASE Stopped
  BY <1>12 DEF Stopped
<1>13. CASE Datagram
  BY <1>13 DEF Datagram, Created, Enqueue
<1>14. CASE Connect
  BY <1>14 DEF Connect
<1>15. CASE HandlerBegins
  BY <1>15 DEF HandlerBegins, Created
<1>16. CASE Line
  BY <1>16 DEF Line, Enqueue
<1>17. CASE Disconnect
  BY <1>17 DEF Disconnect
<1>18. CASE Take
  BY <1>18 DEF Take
<1>19. CASE Flush
  BY <1>19 DEF Flush
<1>20. CASE Drain
  BY <1>20 DEF Drain
<1>21. CASE LastFlush
  BY <1>21 DEF LastFlush
<1>22. CASE Commit
  BY <1>22 DEF Commit
<1>23. CASE IndexerDrain
  BY <1>23 DEF IndexerDrain
<1>24. CASE LastCommit
  BY <1>24 DEF LastCommit
<1>25. CASE UNCHANGED vars
  BY <1>25 DEF vars
<1> QED
  BY <1>1, <1>2, <1>3, <1>4, <1>5, <1>6, <1>7, <1>8, <1>9, <1>10, <1>11, <1>12,
     <1>13, <1>14, <1>15, <1>16, <1>17, <1>18, <1>19, <1>20, <1>21, <1>22,
     <1>23, <1>24, <1>25 DEF Next, Steps

\* Enqueue puts one message, a new one, on one queue.
LEMMA EnqueueAdds ==
    ASSUME TypeOK, NEW d \in Devices, Enqueue(d)
    PROVE  /\ count \in Nat
           /\ SetOf(queue'[d]) = SetOf(queue[d]) \cup {count + 1}
           /\ \A b \in Devices \ {d} : queue'[b] = queue[b]
<1>1. queue[d] \in Seq(1..MaxMsgs) /\ count + 1 \in 1..MaxMsgs
  BY ReceiverAssumption DEF Enqueue, TypeOK
<1>2. queue'[d] = Append(queue[d], count + 1)
  BY DEF Enqueue, TypeOK
<1>3. SetOf(queue'[d]) = SetOf(queue[d]) \cup {count + 1}
  <2> DEFINE S == 1..MaxMsgs
  <2>0. queue[d] \in Seq(S) /\ count + 1 \in S
    BY <1>1
  <2> HIDE DEF S
  <2>1. SetOf(Append(queue[d], count + 1)) = SetOf(queue[d]) \cup {count + 1}
    BY <2>0, SetOfAppend
  <2> QED
    BY <1>2, <2>1
<1>4. count \in Nat
  BY ReceiverAssumption DEF TypeOK
<1>5. \A b \in Devices \ {d} : queue'[b] = queue[b]
  BY DEF Enqueue, TypeOK
<1> QED
  BY <1>3, <1>4, <1>5

\* No step makes up a message.
LEMMA NumberedStep == TypeOK /\ Numbered /\ [Next]_vars => Numbered'
<1> SUFFICES ASSUME TypeOK, Numbered, [Next]_vars PROVE Numbered'
  OBVIOUS
<1> USE DEF process, sockets, writers, index, host, Numbered
<1>1. ASSUME UNCHANGED <<queue, buffer, filed, index, count>> PROVE Numbered'
  BY <1>1
<1>2. ASSUME NewServer, UNCHANGED <<filed, indexed, count>> PROVE Numbered'
  BY <1>2, SetOfEmpty DEF NewServer
<1>3. ASSUME NEW d \in Devices, Enqueue(d), UNCHANGED <<buffer, filed, index>>
      PROVE  Numbered'
  <2>1. count \in Nat /\ count' = count + 1
    BY <1>3, EnqueueAdds DEF Enqueue
  <2>2. 1..count \subseteq 1..count' /\ count + 1 \in 1..count'
    BY <2>1
  <2> QED
    BY <1>3, <2>2, EnqueueAdds
<1>4. CASE Take
  <2> PICK d \in Devices :
          /\ queue[d] # <<>>
          /\ queue' = [queue EXCEPT ![d] = Tail(@)]
          /\ buffer' = [buffer EXCEPT ![d] = @ \cup {Head(queue[d])}]
          /\ idxQueue' = idxQueue \cup {Head(queue[d])}
    BY <1>4 DEF Take
  <2>1. queue[d] \in Seq(1..MaxMsgs)
    BY DEF TypeOK
  <2>2. /\ SetOf(Tail(queue[d])) \subseteq SetOf(queue[d])
        /\ Head(queue[d]) \in SetOf(queue[d])
    BY <2>1, SetOfTailIn, HeadIn
  <2>3. \A b \in Devices : SetOf(queue'[b]) \subseteq SetOf(queue[b])
    BY <2>2 DEF TypeOK
  <2>4. Head(queue[d]) \in 1..count
    BY <2>2
  <2>5. \A b \in Devices : buffer'[b] \subseteq buffer[b] \cup {Head(queue[d])}
    BY DEF TypeOK
  <2> QED
    BY <1>4, <2>3, <2>4, <2>5 DEF Take
<1>5. CASE Drain
  <2> PICK d \in flag :
          /\ buffer' = [buffer EXCEPT ![d] = @ \cup SetOf(queue[d])]
          /\ idxQueue' = idxQueue \cup SetOf(queue[d])
          /\ queue' = [queue EXCEPT ![d] = <<>>]
    BY <1>5 DEF Drain
  <2>1. d \in Devices
    BY DEF TypeOK
  <2>2. queue'[d] = <<>> /\ \A b \in Devices : b # d => queue'[b] = queue[b]
    BY <2>1 DEF TypeOK
  <2>3. /\ buffer'[d] = buffer[d] \cup SetOf(queue[d])
        /\ \A b \in Devices : b # d => buffer'[b] = buffer[b]
    BY <2>1 DEF TypeOK
  <2> QED
    BY <1>5, <2>1, <2>2, <2>3, SetOfEmpty DEF Drain
<1>6. CASE Flush
  BY <1>6 DEF Flush, TypeOK
<1>7. CASE LastFlush
  BY <1>7 DEF LastFlush, TypeOK
<1>8. CASE Commit \/ IndexerDrain \/ LastCommit
  BY <1>8 DEF Commit, IndexerDrain, LastCommit
<1>9. CASE BeginRun \/ Retry
  BY <1>9, <1>1, <1>2 DEF BeginRun, Retry
<1>10. CASE Datagram \/ Line
  <2>1. /\ \E d \in Devices : Enqueue(d)
        /\ UNCHANGED <<buffer, filed, index>>
    BY <1>10 DEF Datagram, Line, TypeOK
  <2> QED
    BY <1>3, <2>1
<1>11. CASE StopIndexer
  BY <1>11 DEF StopIndexer
<1>12. CASE \/ SvcDoRun \/ SvcStop \/ StopRequested \/ UdpBound \/ TcpBound
           \/ Shutdown \/ StartFails \/ StopWriters \/ Stopped \/ Connect
           \/ HandlerBegins \/ Disconnect \/ UNCHANGED vars
  BY <1>12, <1>1 DEF SvcDoRun, SvcStop, StopRequested, UdpBound, TcpBound,
     Shutdown, StartFails, StopWriters, Stopped, Connect, HandlerBegins,
     Disconnect, vars
<1> QED
  BY <1>4, <1>5, <1>6, <1>7, <1>8, <1>9, <1>10, <1>11, <1>12 DEF Next, Steps

\* No step loses sight of a punctual message: enqueue, take, flush, drain and
\* commit hand it on, and stop() waits for whoever has it.
LEMMA MessagesStep ==
    TypeOK /\ Control /\ Numbered /\ Messages /\ [Next]_vars => Messages'
<1> SUFFICES ASSUME TypeOK, Control, Numbered, Messages, [Next]_vars,
                    NEW m \in Punctual'
             PROVE  (Somewhere(m) /\ InGoodHands(m))'
  BY DEF Messages
<1> USE DEF process, sockets, writers, index, host, TypeOK, Control, Sockets,
            Told, IndexerLast, Running, Quiet, Registered, Stage, Task
<1> USE DEF Somewhere, InGoodHands
<1>a. ASSUME UNCHANGED <<count, late>> PROVE Somewhere(m) /\ InGoodHands(m)
  BY <1>a DEF Messages, Punctual
<1>b. ASSUME NEW d \in Devices, Enqueue(d),
             UNCHANGED <<stage, buffer, filed, flag, index>>,
             stage \in {"tcp", "serving", "closing", "writers", "indexer"},
             writer'[d] # "none",
             \A b \in Devices : writer[b] # "none" => writer'[b] = writer[b],
             writer[d] = "none" => writer'[d] = "run"
      PROVE  (Somewhere(m) /\ InGoodHands(m))'
  <2>1. SetOf(queue'[d]) = SetOf(queue[d]) \cup {count + 1}
    BY <1>b, EnqueueAdds
  <2>2. \A b \in Devices \ {d} : queue'[b] = queue[b]
    BY <1>b, EnqueueAdds
  <2>3. CASE m = count + 1
    <3>1. stage \in {"tcp", "serving", "closing"} /\ writer'[d] = "run"
      BY <1>b, <2>3 DEF Punctual, Enqueue
    <3>2. m \notin 1..count
      BY <2>3
    <3>3. /\ \A b \in Devices : m \notin SetOf(queue[b]) /\ m \notin buffer[b]
          /\ m \notin filed \cup indexed \cup idxQueue \cup idxBatch
      BY <3>2 DEF Numbered
    <3> QED
      BY <1>b, <2>1, <2>2, <2>3, <3>1, <3>3
  <2>4. CASE m # count + 1
    <3>1. m \in Punctual
      BY <1>b, <2>4 DEF Punctual, Enqueue
    <3>2. Somewhere(m) /\ InGoodHands(m)
      BY <3>1 DEF Messages
    <3> QED
      BY <1>b, <2>1, <2>2, <2>4, <3>2
  <2> QED
    BY <2>3, <2>4
<1>1. CASE SvcDoRun
  BY <1>1, <1>a DEF SvcDoRun
<1>2. CASE SvcStop
  BY <1>2, <1>a DEF SvcStop
<1>3. CASE StopRequested
  BY <1>3, <1>a DEF StopRequested
<1>4. CASE BeginRun
  <2>1. CASE stopEvent
    BY <1>4, <2>1, <1>a DEF BeginRun
  <2>2. CASE ~stopEvent
    <3>1. Somewhere(m) /\ InGoodHands(m) /\ stage \in Quiet
      BY <1>4, <1>a DEF BeginRun
    <3>2. m \in filed /\ m \in indexed
      BY <3>1
    <3>3. NewServer /\ filed' = filed /\ indexed' = indexed
      BY <1>4, <2>2 DEF BeginRun
    <3>4. \A d \in Devices : SetOf(queue'[d]) = {} /\ buffer'[d] = {}
      BY <3>3, SetOfEmpty DEF NewServer
    <3> QED
      BY <3>2, <3>3, <3>4 DEF NewServer
  <2> QED
    BY <2>1, <2>2
<1>5. CASE UdpBound
  BY <1>5, <1>a DEF UdpBound
<1>6. CASE TcpBound
  BY <1>6, <1>a DEF TcpBound
<1>7. CASE Retry
  <2>1. CASE stopEvent
    BY <1>7, <2>1, <1>a DEF Retry
  <2>2. CASE ~stopEvent
    <3>1. Somewhere(m) /\ InGoodHands(m) /\ stage \in Quiet
      BY <1>7, <1>a DEF Retry
    <3>2. m \in filed /\ m \in indexed
      BY <3>1
    <3>3. NewServer /\ filed' = filed /\ indexed' = indexed
      BY <1>7, <2>2 DEF Retry
    <3>4. \A d \in Devices : SetOf(queue'[d]) = {} /\ buffer'[d] = {}
      BY <3>3, SetOfEmpty DEF NewServer
    <3> QED
      BY <3>2, <3>3, <3>4 DEF NewServer
  <2> QED
    BY <2>1, <2>2
<1>8. CASE Shutdown
  BY <1>8, <1>a DEF Shutdown, CloseSockets
<1>9. CASE StartFails
  BY <1>9, <1>a DEF StartFails, CloseSockets
<1>10. CASE StopWriters
  BY <1>10, <1>a DEF StopWriters
<1>11. CASE StopIndexer
  BY <1>11, <1>a DEF StopIndexer
<1>12. CASE Stopped
  BY <1>12, <1>a DEF Stopped
<1>13. CASE Datagram
  <2> PICK d \in Devices : Enqueue(d) /\ writer' = Created(d)
    BY <1>13 DEF Datagram
  <2>1. /\ writer'[d] # "none"
        /\ \A b \in Devices : writer[b] # "none" => writer'[b] = writer[b]
        /\ writer[d] = "none" => writer'[d] = "run"
    BY DEF Created
  <2> QED
    BY <1>13, <1>b, <2>1 DEF Datagram
<1>14. CASE Connect
  BY <1>14, <1>a DEF Connect
<1>15. CASE HandlerBegins
  BY <1>15, <1>a DEF HandlerBegins, Created
<1>16. CASE Line
  <2> PICK d \in conns : Enqueue(d)
    BY <1>16 DEF Line
  <2>1. d \in Devices /\ writer[d] # "none"
    OBVIOUS
  <2>2. stage \in {"serving", "closing", "writers", "indexer"}
    OBVIOUS
  <2> QED
    BY <1>16, <1>b, <2>1, <2>2 DEF Line
<1>17. CASE Disconnect
  BY <1>17, <1>a DEF Disconnect
<1>18. CASE Take
  <2>1. Somewhere(m) /\ InGoodHands(m)
    BY <1>18, <1>a DEF Take
  <2> PICK d \in Devices :
          /\ writer[d] = "run"
          /\ d \notin flag
          /\ queue[d] # <<>>
          /\ queue' = [queue EXCEPT ![d] = Tail(@)]
          /\ buffer' = [buffer EXCEPT ![d] = @ \cup {Head(queue[d])}]
          /\ idxQueue' = idxQueue \cup {Head(queue[d])}
    BY <1>18 DEF Take
  <2>2. queue[d] \in Seq(1..MaxMsgs)
    OBVIOUS
  <2>3. /\ SetOf(queue[d]) \subseteq {Head(queue[d])} \cup SetOf(queue'[d])
        /\ SetOf(queue'[d]) \subseteq SetOf(queue[d])
        /\ Head(queue[d]) \in SetOf(queue[d])
    BY <2>2, SetOfTail, SetOfTailIn, HeadIn
  <2>4. \A b \in Devices \ {d} : queue'[b] = queue[b]
    OBVIOUS
  <2>5. m = Head(queue[d]) => stage \in Running /\ stage # "writers"
    BY <2>1, <2>3
  <2>6. Somewhere(m)'
    BY <1>18, <2>1, <2>3, <2>4 DEF Take
  <2>7. InGoodHands(m)'
    BY <1>18, <2>1, <2>3, <2>4, <2>5 DEF Take
  <2> QED
    BY <2>6, <2>7
<1>19. CASE Flush
  BY <1>19, <1>a DEF Flush
<1>20. CASE Drain
  <2>1. Somewhere(m) /\ InGoodHands(m)
    BY <1>20, <1>a DEF Drain
  <2> PICK d \in flag :
          /\ writer[d] = "run"
          /\ writer' = [writer EXCEPT ![d] = "last"]
          /\ buffer' = [buffer EXCEPT ![d] = @ \cup SetOf(queue[d])]
          /\ idxQueue' = idxQueue \cup SetOf(queue[d])
          /\ queue' = [queue EXCEPT ![d] = <<>>]
    BY <1>20 DEF Drain
  <2>2. d \in Devices /\ SetOf(queue'[d]) = {}
    BY SetOfEmpty
  <2>3. \A b \in Devices \ {d} : queue'[b] = queue[b] /\ buffer'[b] = buffer[b]
    OBVIOUS
  <2>4. buffer'[d] = buffer[d] \cup SetOf(queue[d])
    BY <2>2
  <2>6. Somewhere(m)'
    BY <1>20, <2>1, <2>2, <2>3, <2>4 DEF Drain
  <2>7. InGoodHands(m)'
    BY <1>20, <2>1, <2>2, <2>3, <2>4 DEF Drain
  <2> QED
    BY <2>6, <2>7
<1>21. CASE LastFlush
  BY <1>21, <1>a DEF LastFlush
<1>22. CASE Commit
  BY <1>22, <1>a DEF Commit
<1>23. CASE IndexerDrain
  BY <1>23, <1>a DEF IndexerDrain
<1>24. CASE LastCommit
  BY <1>24, <1>a DEF LastCommit
<1>25. CASE UNCHANGED vars
  BY <1>25, <1>a DEF vars
<1> QED
  BY <1>1, <1>2, <1>3, <1>4, <1>5, <1>6, <1>7, <1>8, <1>9, <1>10, <1>11, <1>12,
     <1>13, <1>14, <1>15, <1>16, <1>17, <1>18, <1>19, <1>20, <1>21, <1>22,
     <1>23, <1>24, <1>25 DEF Next, Steps

-----------------------------------------------------------------------------
(***************************************************************************)
(* The theorems.                                                           *)
(***************************************************************************)

\* The invariant holds from the start, for any number of retries.
LEMMA Invariant == Spec => []IInv
<1>1. Init => IInv
  <2> SUFFICES ASSUME Init PROVE IInv
    OBVIOUS
  <2>1. TypeOK
    BY TypingInit
  <2>2. Control
    BY DEF Init, Control, Sockets, Told, IndexerLast, Running, Quiet, Registered
  <2>3. count = 0 /\ \A d \in Devices : SetOf(queue[d]) = {} /\ buffer[d] = {}
    BY SetOfEmpty DEF Init
  <2>4. Numbered /\ Messages
    BY <2>3 DEF Init, Numbered, Messages, Punctual
  <2> QED
    BY <2>1, <2>2, <2>4 DEF IInv
<1>2. IInv /\ [Next]_vars => IInv'
  BY TypingStep, ControlStep, NumberedStep, MessagesStep DEF IInv
<1> QED
  BY <1>1, <1>2, PTL DEF Spec

\* When one attempt waits for the next, nothing of it is left: the sockets are
\* closed, the writers and the indexer have returned (_start_with_retry() calls
\* stop() whatever it was that start() had done).
THEOREM NoOverlap == Spec => []AttemptsDoNotOverlap
<1>1. IInv => AttemptsDoNotOverlap
  BY DEF IInv, TypeOK, Control, Sockets, Told, IndexerLast, Quiet, Registered,
     AttemptsDoNotOverlap
<1> QED
  BY <1>1, Invariant, PTL

\* What arrived before the writers were told to stop is in a day file and in
\* the index when stop() returns (SyslogServer.stop(): writers first, then the
\* indexer).
THEOREM NothingLost == Spec => []StopLosesNothing
<1>1. IInv => StopLosesNothing
  <2> SUFFICES ASSUME IInv, stage \in {"waiting", "exited"}, NEW m \in Punctual
               PROVE  m \in filed /\ m \in indexed
    BY DEF StopLosesNothing, Punctual
  <2>1. Somewhere(m) /\ InGoodHands(m)
    BY DEF IInv, Messages
  <2> QED
    BY <2>1 DEF Somewhere, InGoodHands, Running, Quiet
<1> QED
  BY <1>1, Invariant, PTL
=============================================================================
