------------------------------ MODULE Receiver ------------------------------
(***************************************************************************)
(* The life of the receiver process: run() and _start_with_retry() in      *)
(* sylo/receiver/main.py, SyslogServer in sylo/receiver/server.py and the  *)
(* DeviceRegistry of sylo/receiver/device_writer.py.  It composes the      *)
(* device writers and the indexer, each reduced to what start and stop     *)
(* order: a writer takes a message off its queue and offers it to the      *)
(* indexer at once, writes its buffer to a file, and drains its queue when *)
(* told to stop; the indexer commits what it was offered.  Modules         *)
(* DeviceWriter and Indexer say how.                                       *)
(*                                                                         *)
(* A stop is asked for by a signal or, on Windows, by the service control  *)
(* manager on a thread of its own (sylo/receiver/winservice.py).           *)
(*                                                                         *)
(* Messages arrive as UDP datagrams, while the socket is open, and as      *)
(* lines on TCP connections, which outlive the listening socket.           *)
(*                                                                         *)
(* Definitions whose names begin with Bad are faulty variants of the ones  *)
(* that follow them, used only to see the properties fail.                 *)
(***************************************************************************)
EXTENDS Naturals, Sequences, FiniteSets

CONSTANTS
    Devices,        \* source IPs
    MaxMsgs,        \* bound: messages enqueued
    MaxFailures     \* bound: attempts to start that fail

ASSUME ReceiverAssumption ==
    /\ MaxMsgs \in Nat
    /\ MaxFailures \in Nat

VARIABLES
    stage,      \* where run() is: see Stage
    stopEvent,  \* the stop event is set
    failures,   \* failed attempts to start
    failed,     \* the stop() under way cleans up after a failed start
    service,    \* what can ask for a stop: see Service
    pending,    \* the service control manager has asked for one
    waits,      \* wait_closed() waits for connections (Python 3.12 and later)
    udp,        \* the UDP socket is open
    tcp,        \* the TCP socket is listening
    greeted,    \* devices with a TCP connection whose handler has not begun
    conns,      \* devices with a TCP connection whose handler is reading
    writer,     \* per device, its DeviceWriter: see Task
    flag,       \* devices whose writer has _stopping set
    queue,      \* per device, messages on its writer's queue
    buffer,     \* per device, messages in its writer's buffer
    filed,      \* messages in a day file
    indexer,    \* the Indexer: see Task
    idxFlag,    \* the indexer has _stopping set
    idxQueue,   \* messages on the indexer's queue
    idxBatch,   \* messages of the indexer's last batch
    indexed,    \* messages in the index
    count,      \* messages enqueued so far
    late        \* messages enqueued once the writers were told to stop

host == <<service, pending, waits>>
process == <<stage, stopEvent, failures, failed, host>>
sockets == <<udp, tcp, greeted, conns>>
writers == <<writer, flag, queue, buffer, filed>>
index   == <<indexer, idxFlag, idxQueue, idxBatch, indexed>>
vars == <<process, sockets, writers, index, count, late>>

\* boot:      before _start_with_retry()
\* udp, tcp:  in start(), awaiting the UDP endpoint, the TCP server
\* serving:   awaiting the stop event
\* closing:   in stop(), awaiting wait_closed()
\* writers:   in stop(), awaiting stop_all()
\* indexer:   in stop(), awaiting the indexer
\* waiting:   between two attempts;  exited: run() returned
Stage == {"boot", "udp", "tcp", "serving", "closing", "writers", "indexer",
          "waiting", "exited"}

\* signal:    a signal handler of the event loop
\* starting:  a Windows service that has no event loop yet
\* loop:      it has, but no stop event
\* ready:     it has both;  posted: it has put a callback on the loop's queue
Service == {"signal", "starting", "loop", "ready", "posted"}

\* last: past the drain, in the last flush.
Task == {"none", "run", "last", "done"}

-----------------------------------------------------------------------------
(***************************************************************************)
(* run() and _start_with_retry().                                          *)
(***************************************************************************)

\* SyslogServer.start() up to its first await: a new indexer, a new registry.
NewServer ==
    /\ stage' = "udp"
    /\ indexer' = "run"
    /\ idxFlag' = FALSE
    /\ idxQueue' = {}
    /\ idxBatch' = {}
    /\ writer' = [d \in Devices |-> "none"]
    /\ flag' = {}
    /\ queue' = [d \in Devices |-> <<>>]
    /\ buffer' = [d \in Devices |-> {}]

Init ==
    /\ stage = "boot"
    /\ stopEvent = FALSE
    /\ failures = 0
    /\ failed = FALSE
    /\ service \in {"signal", "starting"}
    /\ pending = FALSE
    /\ waits \in BOOLEAN
    /\ udp = FALSE
    /\ tcp = FALSE
    /\ greeted = {}
    /\ conns = {}
    /\ writer = [d \in Devices |-> "none"]
    /\ flag = {}
    /\ queue = [d \in Devices |-> <<>>]
    /\ buffer = [d \in Devices |-> {}]
    /\ filed = {}
    /\ indexer = "none"
    /\ idxFlag = FALSE
    /\ idxQueue = {}
    /\ idxBatch = {}
    /\ indexed = {}
    /\ count = 0
    /\ late = {}

\* SvcDoRun() makes the loop, then the event, on the service's thread.
SvcDoRun ==
    /\ \/ service = "starting" /\ service' = "loop"
       \/ service = "loop" /\ service' = "ready"
    /\ UNCHANGED <<stage, stopEvent, failures, failed, pending, waits, sockets,
                   writers, index, count, late>>

\* SvcStop(), on another thread: it hands stop_event.set to the loop, if it
\* finds a loop and an event.  There is no second request after the first.
SvcStop ==
    /\ service # "signal"
    /\ stage # "exited"
    /\ ~pending
    /\ pending' = TRUE
    /\ service' = IF service = "ready" THEN "posted" ELSE service
    /\ UNCHANGED <<stage, stopEvent, failures, failed, waits, sockets, writers,
                   index, count, late>>

\* The event loop runs stop_event.set: called by a signal, or posted.
StopRequested ==
    /\ stage # "exited"
    /\ \/ service = "signal" /\ stage # "boot"
       \/ service = "posted"
    /\ ~stopEvent
    /\ stopEvent' = TRUE
    /\ UNCHANGED <<stage, failures, failed, host, sockets, writers, index,
                   count, late>>

\* run() comes to the first attempt to start, or not to any.
BeginRun ==
    /\ stage = "boot"
    /\ service \notin {"starting", "loop"}
    /\ IF stopEvent
       THEN stage' = "exited" /\ UNCHANGED <<writers, index>>
       ELSE NewServer /\ UNCHANGED <<filed, indexed>>
    /\ UNCHANGED <<stopEvent, failures, failed, host, sockets, count, late>>

UdpBound ==
    /\ stage = "udp"
    /\ udp' = TRUE
    /\ stage' = "tcp"
    /\ UNCHANGED <<stopEvent, failures, failed, host, tcp, greeted, conns,
                   writers, index, count, late>>

TcpBound ==
    /\ stage = "tcp"
    /\ tcp' = TRUE
    /\ stage' = "serving"
    /\ UNCHANGED <<stopEvent, failures, failed, host, udp, greeted, conns,
                   writers, index, count, late>>

\* stop() up to its first await: both sockets are closed.
CloseSockets ==
    /\ stage' = "closing"
    /\ udp' = FALSE
    /\ tcp' = FALSE
    /\ UNCHANGED <<greeted, conns>>

\* Faulty: a failed attempt is abandoned as it stands.
BadStartFails ==
    /\ stage \in {"udp", "tcp"}
    /\ failures < MaxFailures
    /\ failures' = failures + 1
    /\ stage' = "waiting"
    /\ UNCHANGED <<stopEvent, failed, host, sockets, writers, index, count, late>>

\* start() raises: the status file says so, and what was started is stopped.
StartFails ==
    /\ stage \in {"udp", "tcp"}
    /\ failures < MaxFailures
    /\ failures' = failures + 1
    /\ failed' = TRUE
    /\ CloseSockets
    /\ UNCHANGED <<stopEvent, host, writers, index, count, late>>

\* Faulty: gives up after the first failure.
BadRetry ==
    /\ stage = "waiting"
    /\ stopEvent
    /\ stage' = "exited"
    /\ UNCHANGED <<stopEvent, failures, failed, host, sockets, writers, index,
                   count, late>>

\* The retry interval is over, or the stop event ends it.
Retry ==
    /\ stage = "waiting"
    /\ IF stopEvent
       THEN stage' = "exited" /\ UNCHANGED <<writers, index>>
       ELSE NewServer /\ UNCHANGED <<filed, indexed>>
    /\ UNCHANGED <<stopEvent, failures, failed, host, sockets, count, late>>

\* run() wakes up from stop_event.wait().
Shutdown ==
    /\ stage = "serving"
    /\ stopEvent
    /\ CloseSockets
    /\ UNCHANGED <<stopEvent, failures, failed, host, writers, index, count, late>>

-----------------------------------------------------------------------------
(***************************************************************************)
(* The rest of SyslogServer.stop().                                        *)
(***************************************************************************)

Registered == {d \in Devices : writer[d] # "none"}

\* wait_closed() returns, stop_all() sets the flag of every writer there is.
StopWriters ==
    /\ stage = "closing"
    /\ waits => greeted \cup conns = {}
    /\ stage' = "writers"
    /\ flag' = flag \cup Registered
    /\ UNCHANGED <<stopEvent, failures, failed, host, sockets, writer, queue,
                   buffer, filed, index, count, late>>

\* Faulty: waits for a writer of every device, told to stop or not.
BadStopIndexerWaitsForAll ==
    /\ stage = "writers"
    /\ \A d \in Devices : writer[d] = "done"
    /\ stage' = "indexer"
    /\ idxFlag' = TRUE
    /\ UNCHANGED <<stopEvent, failures, failed, host, sockets, writers, indexer,
                   idxQueue, idxBatch, indexed, count, late>>

\* gather() returns once the writers it was given have; then indexer.stop().
StopIndexer ==
    /\ stage = "writers"
    /\ \A d \in flag : writer[d] = "done"
    /\ stage' = "indexer"
    /\ idxFlag' = TRUE
    /\ UNCHANGED <<stopEvent, failures, failed, host, sockets, writers, indexer,
                   idxQueue, idxBatch, indexed, count, late>>

\* The indexer's task and stop() end: on to the next attempt, or run() returns
\* and asyncio.run() cancels what is left.
Stopped ==
    /\ stage = "indexer"
    /\ indexer = "done"
    /\ failed' = FALSE
    /\ IF failed
       THEN stage' = "waiting" /\ UNCHANGED <<greeted, conns>>
       ELSE stage' = "exited" /\ greeted' = {} /\ conns' = {}
    /\ UNCHANGED <<stopEvent, failures, host, udp, tcp, writers, index, count,
                   late>>

-----------------------------------------------------------------------------
(***************************************************************************)
(* Messages.                                                               *)
(***************************************************************************)

\* registry.get_or_create(): the first message or connection of a device makes
\* its writer, at any time.
Created(d) == [writer EXCEPT ![d] = IF @ = "none" THEN "run" ELSE @]

Enqueue(d) ==
    /\ count < MaxMsgs
    /\ count' = count + 1
    /\ queue' = [queue EXCEPT ![d] = Append(@, count + 1)]
    /\ late' = IF stage \in {"writers", "indexer"} THEN late \cup {count + 1} ELSE late

\* datagram_received().
Datagram ==
    /\ udp
    /\ \E d \in Devices : Enqueue(d) /\ writer' = Created(d)
    /\ UNCHANGED <<process, sockets, flag, buffer, filed, index>>

\* A client connects: the handler's task is made, and begins a little later.
Connect ==
    /\ tcp
    /\ \E d \in Devices \ (greeted \cup conns) : greeted' = greeted \cup {d}
    /\ UNCHANGED <<process, udp, tcp, conns, writers, index, count, late>>

\* The handler begins by getting its device's writer, and then reads.
HandlerBegins ==
    /\ \E d \in greeted :
          /\ greeted' = greeted \ {d}
          /\ conns' = conns \cup {d}
          /\ writer' = Created(d)
    /\ UNCHANGED <<process, udp, tcp, flag, queue, buffer, filed, index, count, late>>

\* The handler reads a line; it does not know whether the server is stopping.
Line ==
    /\ \E d \in conns : Enqueue(d)
    /\ UNCHANGED <<process, sockets, writer, flag, buffer, filed, index>>

\* The client closes the connection, or it breaks.
Disconnect ==
    /\ \E d \in conns : conns' = conns \ {d}
    /\ UNCHANGED <<process, udp, tcp, greeted, writers, index, count, late>>

-----------------------------------------------------------------------------
(***************************************************************************)
(* Device writers and indexer.                                             *)
(***************************************************************************)

Alive == stage # "exited"

SetOf(s) == {s[i] : i \in DOMAIN s}

\* A message is taken off the queue and offered to the indexer at once.
Take ==
    /\ Alive
    /\ \E d \in Devices :
          /\ writer[d] = "run"
          /\ d \notin flag
          /\ queue[d] # <<>>
          /\ queue' = [queue EXCEPT ![d] = Tail(@)]
          /\ buffer' = [buffer EXCEPT ![d] = @ \cup {Head(queue[d])}]
          /\ idxQueue' = idxQueue \cup {Head(queue[d])}
    /\ UNCHANGED <<process, sockets, writer, flag, filed, indexer, idxFlag,
                   idxBatch, indexed, count, late>>

\* A flush of the loop.
Flush ==
    /\ Alive
    /\ \E d \in Devices :
          /\ writer[d] = "run"
          /\ buffer[d] # {}
          /\ filed' = filed \cup buffer[d]
          /\ buffer' = [buffer EXCEPT ![d] = {}]
    /\ UNCHANGED <<process, sockets, writer, flag, queue, index, count, late>>

\* Faulty: the writer returns without looking at its queue.
BadDrain ==
    /\ Alive
    /\ \E d \in flag :
          /\ writer[d] = "run"
          /\ writer' = [writer EXCEPT ![d] = "last"]
    /\ UNCHANGED <<process, sockets, flag, queue, buffer, filed, index, count, late>>

\* The loop has seen the flag: the queue joins the buffer and is offered.
Drain ==
    /\ Alive
    /\ \E d \in flag :
          /\ writer[d] = "run"
          /\ writer' = [writer EXCEPT ![d] = "last"]
          /\ buffer' = [buffer EXCEPT ![d] = @ \cup SetOf(queue[d])]
          /\ idxQueue' = idxQueue \cup SetOf(queue[d])
          /\ queue' = [queue EXCEPT ![d] = <<>>]
    /\ UNCHANGED <<process, sockets, flag, filed, indexer, idxFlag, idxBatch,
                   indexed, count, late>>

\* The last flush; the writer's task returns.
LastFlush ==
    /\ Alive
    /\ \E d \in Devices :
          /\ writer[d] = "last"
          /\ writer' = [writer EXCEPT ![d] = "done"]
          /\ filed' = filed \cup buffer[d]
          /\ buffer' = [buffer EXCEPT ![d] = {}]
    /\ UNCHANGED <<process, sockets, flag, queue, index, count, late>>

\* The indexer commits what it has taken.
Commit ==
    /\ Alive
    /\ indexer = "run"
    /\ idxQueue # {}
    /\ indexed' = indexed \cup idxQueue
    /\ idxQueue' = {}
    /\ UNCHANGED <<process, sockets, writers, indexer, idxFlag, idxBatch, count, late>>

IndexerDrain ==
    /\ Alive
    /\ indexer = "run"
    /\ idxFlag
    /\ indexer' = "last"
    /\ idxBatch' = idxQueue
    /\ idxQueue' = {}
    /\ UNCHANGED <<process, sockets, writers, idxFlag, indexed, count, late>>

LastCommit ==
    /\ Alive
    /\ indexer = "last"
    /\ indexer' = "done"
    /\ indexed' = indexed \cup idxBatch
    /\ idxBatch' = {}
    /\ UNCHANGED <<process, sockets, writers, idxFlag, idxQueue, count, late>>

-----------------------------------------------------------------------------
Steps ==
    \/ SvcDoRun
    \/ BeginRun
    \/ UdpBound
    \/ TcpBound
    \/ Retry
    \/ Shutdown
    \/ StopWriters
    \/ StopIndexer
    \/ Stopped
    \/ Take
    \/ Flush
    \/ Drain
    \/ LastFlush
    \/ Commit
    \/ IndexerDrain
    \/ LastCommit

Next ==
    \/ Steps
    \/ SvcStop
    \/ StopRequested
    \/ StartFails
    \/ Datagram
    \/ Connect
    \/ HandlerBegins
    \/ Line
    \/ Disconnect

Spec == Init /\ [][Next]_vars

\* The event loop runs every ready coroutine, so each step of the process that
\* stays possible is taken, a posted callback included; nothing is assumed of
\* clients, failures or stop requests.
Fairness ==
    /\ WF_vars(SvcDoRun)
    /\ WF_vars(StopRequested /\ service = "posted")
    /\ WF_vars(BeginRun)
    /\ WF_vars(UdpBound \/ StartFails)
    /\ WF_vars(TcpBound \/ StartFails)
    /\ WF_vars(Retry)
    /\ WF_vars(Shutdown)
    /\ WF_vars(StopWriters)
    /\ WF_vars(StopIndexer)
    /\ WF_vars(Stopped)
    /\ \A d \in Devices : WF_vars(Drain /\ writer[d] # writer'[d])
    /\ WF_vars(LastFlush)
    /\ WF_vars(IndexerDrain)
    /\ WF_vars(LastCommit)

FairSpec == Spec /\ Fairness

-----------------------------------------------------------------------------
(***************************************************************************)
(* Properties.                                                             *)
(***************************************************************************)

\* Every variable has its type.
TypeOK ==
    /\ stage \in Stage
    /\ stopEvent \in BOOLEAN
    /\ failures \in 0..MaxFailures
    /\ failed \in BOOLEAN
    /\ service \in Service
    /\ pending \in BOOLEAN
    /\ waits \in BOOLEAN
    /\ udp \in BOOLEAN
    /\ tcp \in BOOLEAN
    /\ greeted \subseteq Devices
    /\ conns \subseteq Devices
    /\ writer \in [Devices -> Task]
    /\ flag \subseteq Devices
    /\ queue \in [Devices -> Seq(1..MaxMsgs)]
    /\ buffer \in [Devices -> SUBSET (1..MaxMsgs)]
    /\ filed \subseteq 1..MaxMsgs
    /\ indexer \in Task
    /\ idxFlag \in BOOLEAN
    /\ idxQueue \subseteq 1..MaxMsgs
    /\ idxBatch \subseteq 1..MaxMsgs
    /\ indexed \subseteq 1..MaxMsgs
    /\ count \in 0..MaxMsgs
    /\ late \subseteq 1..MaxMsgs

\* Stopping loses nothing that arrived before the writers were told to stop:
\* when stop() has returned it is in a day file and in the index, whichever
\* socket it came from and however many attempts to start failed before.
StopLosesNothing ==
    stage \in {"waiting", "exited"} => (1..count) \ late \subseteq filed \cap indexed

\* Two attempts never run at the same time: when one waits or begins, the
\* sockets of the one before it are closed, its writers have returned and so
\* has its indexer, so no two writers append to one file.
AttemptsDoNotOverlap ==
    stage = "waiting" =>
        /\ ~udp /\ ~tcp /\ greeted \cup conns = {}
        /\ \A d \in Devices : writer[d] \in {"none", "done"}
        /\ indexer = "done"

\* A failure to start is retried: the receiver ends up serving, or was told
\* to stop.
EventuallyServes == <>(stage = "serving" \/ stopEvent)

\* A stop request ends the process, from any stage, whether it was the loop
\* or another thread that got it, unless wait_closed() waits for a client that
\* stays connected.  A service that has no loop yet when it is asked to stop
\* has not heard it.
StopTerminates ==
    (stopEvent \/ service = "posted") ~>
        \/ stage = "exited"
        \/ waits /\ stage = "closing" /\ greeted \cup conns # {}
=============================================================================
