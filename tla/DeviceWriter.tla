---------------------------- MODULE DeviceWriter ----------------------------
(***************************************************************************)
(* The raw-log writer of one device: DeviceWriter and its helpers in       *)
(* sylo/receiver/device_writer.py.                                         *)
(*                                                                         *)
(* Three actors touch the state.  Producers (the UDP and TCP callbacks)    *)
(* call enqueue() on the event loop.  The writer coroutine _run() takes    *)
(* messages off the queue, hands each to the indexer, and flushes its      *)
(* buffer one calendar day at a time.  Each day is written by an executor  *)
(* thread running _write_sync() while the coroutine is suspended, so       *)
(* producers, stop(), the clock and crashes interleave with every line     *)
(* that reaches the file.  Between two suspensions the coroutine runs      *)
(* alone, so what it does there is one step here.                          *)
(*                                                                         *)
(* A message is its acceptance number and its receipt day; a file is the   *)
(* sequence of the texts appended to it, each with the newline that ends   *)
(* it or without, whole or cut short.                                      *)
(*                                                                         *)
(* A definition whose name begins with Bad is a faulty variant of the one  *)
(* that follows it.  Nothing uses it; the project runs the model with the  *)
(* variant in place of the original to see the properties fail.            *)
(***************************************************************************)
EXTENDS Naturals, Sequences, FiniteSets

CONSTANTS
    Days,           \* calendar days (UTC dates) the receipt clock can show
    NoDay,          \* no flush under way
    HardLimit,      \* queue_hard_limit: capacity of the queue
    SoftLimit,      \* queue_soft_limit: backlog that counts a lag warning
    FlushMax,       \* flush_max_messages: buffer length that forces a flush
    WriteErrors,    \* TRUE: the file system calls of _write_sync may fail
    LateProducers,  \* TRUE: producers still run once stop() has been called
    MaxMsgs,        \* bound: messages accepted or dropped
    MaxLives        \* bound: process runs, the first included

ASSUME DeviceWriterAssumption ==
    /\ Days # {}
    /\ NoDay \notin Days
    /\ HardLimit \in Nat \ {0}
    /\ SoftLimit \in Nat
    /\ FlushMax \in Nat \ {0}
    /\ WriteErrors \in BOOLEAN
    /\ LateProducers \in BOOLEAN
    /\ MaxMsgs \in Nat
    /\ MaxLives \in Nat \ {0}

VARIABLES
    queue,      \* self._queue
    buffer,     \* _run's buffer of envelopes
    pc,         \* where the coroutine is: see Control
    stopping,   \* self._stopping
    final,      \* the flush under way is the one that ends _run
    syncing,    \* do_fsync of the flush under way
    todo,       \* days of by_date the flush has not reached yet
    cur,        \* day the executor thread is writing, or NoDay
    pos,        \* index in buffer of the last line the thread wrote
    sanitized,  \* self._sanitized_paths
    fsyncDue,   \* fsync_interval_seconds have passed since self._last_fsync
    stats,      \* the device's QueueStats
    offered,    \* ids passed to indexer.enqueue() by this process run
    files,      \* the day files of the device
    synced,     \* how many texts of each file are known to be on the disk
    accepted,   \* number of messages put on the queue so far, all runs
    lost,       \* ids an error or a crash took before they reached a file
    born,       \* value of accepted when this process run began
    lives       \* process runs so far

coroutine == <<buffer, pc, final, syncing, todo, cur, pos>>
disk      == <<files, synced>>
ghost     == <<lost, born, lives>>
vars == <<queue, coroutine, stopping, sanitized, fsyncDue, stats, offered,
          disk, accepted, ghost>>

Msg == [id : Nat \ {0}, day : Days]

\* A text in a file: the message it came from, whether all of the message is
\* there, and whether a newline follows it.
Text == [id : Nat \ {0}, whole : BOOLEAN, eol : BOOLEAN]

QueueStats == [queued : Nat, dropped : Nat, written : Nat, lag : Nat]

NoStats == [queued |-> 0, dropped |-> 0, written |-> 0, lag |-> 0]

\* get:   suspended in wait_for(queue.get(), flush_idle_seconds)
\* open:  suspended in run_in_executor, the thread has not touched the file
\* write: suspended in run_in_executor, the thread has the file open
\* done:  _run returned;  down: no process
Control == {"get", "open", "write", "done", "down"}

DaysOf(buf) == {buf[i].day : i \in DOMAIN buf}

IdsOf(msgs) == [i \in DOMAIN msgs |-> msgs[i].id]

-----------------------------------------------------------------------------
(***************************************************************************)
(* Control shared by the coroutine's steps.                                *)
(***************************************************************************)

\* No flush under way: the locals of _flush are gone.
NoFlush ==
    /\ final' = FALSE
    /\ syncing' = FALSE
    /\ todo' = {}
    /\ cur' = NoDay
    /\ pos' = 0

\* Hand the first day of days, in the order buf mentions them, to the
\* executor.
StartDay(buf, days) ==
    /\ \E i \in DOMAIN buf :
          /\ buf[i].day \in days
          /\ \A j \in 1..(i - 1) : buf[j].day \notin days
          /\ cur' = buf[i].day
          /\ todo' = days \ {buf[i].day}
    /\ pos' = 0
    /\ pc' = "open"

\* Faulty: forgets force_fsync.
BadStartFlush(buf, force) ==
    /\ buffer' = buf
    /\ final' = force
    /\ syncing' = fsyncDue
    /\ StartDay(buf, DaysOf(buf))

\* _flush: group by day and decide once whether this flush fsyncs.
StartFlush(buf, force) ==
    /\ buffer' = buf
    /\ final' = force
    /\ syncing' = (force \/ fsyncDue)
    /\ StartDay(buf, DaysOf(buf))

\* Faulty: does not offer the drained messages to the indexer.
BadDrainOffersNothing(buf, q, off) ==
    /\ queue' = <<>>
    /\ offered' = off
    /\ IF buf \o q = <<>>
       THEN pc' = "done" /\ buffer' = <<>> /\ NoFlush
       ELSE StartFlush(buf \o q, TRUE)

\* The shutdown drain: everything still queued joins the buffer and goes to
\* the indexer, without a suspension; then the last flush, if there is
\* anything to flush.
Drain(buf, q, off) ==
    /\ queue' = <<>>
    /\ offered' = off \o IdsOf(q)
    /\ IF buf \o q = <<>>
       THEN pc' = "done" /\ buffer' = <<>> /\ NoFlush
       ELSE StartFlush(buf \o q, TRUE)

\* Faulty: does not look at the flag again.
BadLoopTop(buf, q, off) ==
    /\ pc' = "get"
    /\ buffer' = buf
    /\ queue' = q
    /\ offered' = off
    /\ NoFlush

\* The head of `while not self._stopping`, with the locals it is reached with.
LoopTop(buf, q, off) ==
    IF stopping
    THEN Drain(buf, q, off)
    ELSE /\ pc' = "get"
         /\ buffer' = buf
         /\ queue' = q
         /\ offered' = off
         /\ NoFlush

\* Faulty: the buffer is not emptied after the flush.
BadDayDoneKeepsBuffer ==
    IF todo # {}
    THEN /\ StartDay(buffer, todo)
         /\ UNCHANGED <<buffer, final, syncing, queue, offered, fsyncDue>>
    ELSE /\ fsyncDue' = (fsyncDue /\ ~syncing)
         /\ IF final
            THEN /\ pc' = "done"
                 /\ buffer' = <<>>
                 /\ NoFlush
                 /\ UNCHANGED <<queue, offered>>
            ELSE LoopTop(buffer, queue, offered)

\* Faulty: the flush ends with its first day.
BadDayDoneOneDay ==
    /\ fsyncDue' = (fsyncDue /\ ~syncing)
    /\ IF final
       THEN /\ pc' = "done"
            /\ buffer' = <<>>
            /\ NoFlush
            /\ UNCHANGED <<queue, offered>>
       ELSE LoopTop(<<>>, queue, offered)

\* The executor call for cur has returned or raised: next day, or the end of
\* the flush and whatever follows it in _run.
DayDone ==
    IF todo # {}
    THEN /\ StartDay(buffer, todo)
         /\ UNCHANGED <<buffer, final, syncing, queue, offered, fsyncDue>>
    ELSE /\ fsyncDue' = (fsyncDue /\ ~syncing)
         /\ IF final
            THEN /\ pc' = "done"
                 /\ buffer' = <<>>
                 /\ NoFlush
                 /\ UNCHANGED <<queue, offered>>
            ELSE LoopTop(<<>>, queue, offered)

-----------------------------------------------------------------------------
(***************************************************************************)
(* Initial state: a first installation, no file yet.                       *)
(***************************************************************************)

Init ==
    /\ queue = <<>>
    /\ buffer = <<>>
    /\ pc = "get"
    /\ stopping = FALSE
    /\ final = FALSE
    /\ syncing = FALSE
    /\ todo = {}
    /\ cur = NoDay
    /\ pos = 0
    /\ sanitized = {}
    /\ fsyncDue = TRUE
    /\ stats = NoStats
    /\ offered = <<>>
    /\ files = [d \in Days |-> <<>>]
    /\ synced = [d \in Days |-> 0]
    /\ accepted = 0
    /\ lost = {}
    /\ born = 0
    /\ lives = 1

-----------------------------------------------------------------------------
(***************************************************************************)
(* Producers, clock, stop().                                               *)
(***************************************************************************)

\* put_nowait raises QueueFull.
Full == Len(queue) >= HardLimit

\* enqueue(): never blocks; past the soft limit it counts a warning, on a
\* full queue it drops the new message and counts that.
Enqueue ==
    /\ pc # "down"
    /\ LateProducers \/ ~stopping
    /\ accepted + stats.dropped < MaxMsgs
    /\ LET lag == stats.lag + (IF Len(queue) >= SoftLimit THEN 1 ELSE 0)
       IN \/ /\ ~Full
             /\ \E today \in Days :
                   queue' = Append(queue, [id |-> accepted + 1, day |-> today])
             /\ accepted' = accepted + 1
             /\ stats' = [stats EXCEPT !.lag = lag, !.queued = Len(queue) + 1]
          \/ /\ Full
             /\ stats' = [stats EXCEPT !.lag = lag, !.dropped = @ + 1]
             /\ UNCHANGED <<queue, accepted>>
    /\ UNCHANGED <<coroutine, stopping, sanitized, fsyncDue, offered, disk,
                   ghost>>

\* fsync_interval_seconds of the monotonic clock go by.
FsyncIntervalPasses ==
    /\ pc # "down"
    /\ ~fsyncDue
    /\ fsyncDue' = TRUE
    /\ UNCHANGED <<queue, coroutine, stopping, sanitized, stats, offered,
                   disk, accepted, ghost>>

\* stop() sets the flag and awaits the task; the coroutine sees the flag at
\* its next loop head.
Stop ==
    /\ pc \in {"get", "open", "write"}
    /\ ~stopping
    /\ stopping' = TRUE
    /\ UNCHANGED <<queue, coroutine, sanitized, fsyncDue, stats, offered,
                   disk, accepted, ghost>>

-----------------------------------------------------------------------------
(***************************************************************************)
(* The coroutine's two ways out of wait_for.                               *)
(***************************************************************************)

\* A message: buffer it, offer it to the indexer, flush a full buffer.
Get ==
    /\ pc = "get"
    /\ queue # <<>>
    /\ LET m   == Head(queue)
           buf == Append(buffer, m)
           off == Append(offered, m.id)
       IN /\ stats' = [stats EXCEPT !.queued = Len(queue) - 1]
          /\ IF Len(buf) >= FlushMax
             THEN /\ StartFlush(buf, FALSE)
                  /\ queue' = Tail(queue)
                  /\ offered' = off
             ELSE LoopTop(buf, Tail(queue), off)
    /\ UNCHANGED <<stopping, sanitized, fsyncDue, disk, accepted, ghost>>

\* Faulty: an idle timeout flushes nothing.
BadTimeout ==
    /\ pc = "get"
    /\ LoopTop(buffer, queue, offered)
    /\ UNCHANGED <<stopping, sanitized, fsyncDue, stats, disk, accepted, ghost>>

\* The idle timeout, which can win against a message that has just arrived:
\* flush what is buffered, then the loop head.
Timeout ==
    /\ pc = "get"
    /\ IF buffer # <<>>
       THEN StartFlush(buffer, FALSE) /\ UNCHANGED <<queue, offered>>
       ELSE LoopTop(<<>>, queue, offered)
    /\ UNCHANGED <<stopping, sanitized, fsyncDue, stats, disk, accepted, ghost>>

-----------------------------------------------------------------------------
(***************************************************************************)
(* _write_sync in the executor thread.                                     *)
(***************************************************************************)

\* _ensure_clean_tail: a file that does not end in a newline gets one.
CleanTail(f) ==
    IF f = <<>> THEN f ELSE [f EXCEPT ![Len(f)].eol = TRUE]

\* Faulty: no tail check.
BadOpenUnchecked ==
    /\ pc = "open"
    /\ pc' = "write"
    /\ UNCHANGED <<queue, buffer, final, syncing, todo, cur, pos, stopping,
                   sanitized, fsyncDue, stats, offered, disk, accepted, ghost>>

\* Faulty: opens a file it has not seen yet for writing, not appending.
BadOpenTruncates ==
    /\ pc = "open"
    /\ files' = IF cur \in sanitized THEN files ELSE [files EXCEPT ![cur] = <<>>]
    /\ pc' = "write"
    /\ UNCHANGED <<queue, buffer, final, syncing, todo, cur, pos, stopping,
                   sanitized, fsyncDue, stats, offered, synced, accepted, ghost>>

\* mkdir, the tail check on the first write to this path, open.
Open ==
    /\ pc = "open"
    /\ files' = IF cur \in sanitized
                THEN files
                ELSE [files EXCEPT ![cur] = CleanTail(@)]
    /\ pc' = "write"
    /\ UNCHANGED <<queue, buffer, final, syncing, todo, cur, pos, stopping,
                   sanitized, fsyncDue, stats, offered, synced, accepted, ghost>>

\* The line the thread writes next is that of buffer[i].
NextLine(i) ==
    /\ i \in (pos + 1)..Len(buffer)
    /\ buffer[i].day = cur
    /\ \A j \in (pos + 1)..(i - 1) : buffer[j].day # cur

\* The one f.write() of the batch reaches the file piece by piece; a piece is
\* a line and its newline.
WriteLine ==
    /\ pc = "write"
    /\ \E i \in DOMAIN buffer :
          /\ NextLine(i)
          /\ files' = [files EXCEPT ![cur] =
                Append(@, [id |-> buffer[i].id, whole |-> TRUE, eol |-> TRUE])]
          /\ pos' = i
    /\ UNCHANGED <<queue, buffer, pc, final, syncing, todo, cur, stopping,
                   sanitized, fsyncDue, stats, offered, synced, accepted, ghost>>

\* Ids of the lines of the day being written that are not in its file yet.
Unwritten == {buffer[i].id : i \in {k \in DOMAIN buffer :
                                       k > pos /\ buffer[k].day = cur}}

\* len(lines) of the day being written.
Counted == Cardinality({i \in DOMAIN buffer : buffer[i].day = cur})

\* All lines are written: fsync if this flush does, and the call returns.
Finish ==
    /\ pc = "write"
    /\ Unwritten = {}
    /\ synced' = IF syncing
                 THEN [synced EXCEPT ![cur] = Len(files[cur])]
                 ELSE synced
    /\ sanitized' = sanitized \cup {cur}
    /\ stats' = [stats EXCEPT !.written = @ + Counted]
    /\ DayDone
    /\ UNCHANGED <<stopping, files, accepted, ghost>>

\* Part of the next line of the batch, or all of it but its newline.
Fragment ==
    /\ pc = "write"
    /\ \E i \in DOMAIN buffer, w \in BOOLEAN :
          /\ NextLine(i)
          /\ files' = [files EXCEPT ![cur] =
                Append(@, [id |-> buffer[i].id, whole |-> w, eol |-> FALSE])]

\* Faulty: tries the same lines again after an error.
BadWriteFails ==
    /\ WriteErrors
    /\ pc \in {"open", "write"}
    /\ Fragment \/ UNCHANGED files
    /\ pc' = "open"
    /\ pos' = 0
    /\ UNCHANGED <<queue, buffer, final, syncing, todo, cur, stopping, sanitized,
                   fsyncDue, stats, offered, synced, accepted, ghost>>

\* An OSError out of any call of _write_sync: logged, and on to the next day.
\* The rest of this day's lines are gone; a short write may have left part of
\* the next one.
WriteFails ==
    /\ WriteErrors
    /\ pc \in {"open", "write"}
    /\ Fragment \/ UNCHANGED files
    /\ lost' = lost \cup Unwritten
    /\ DayDone
    /\ UNCHANGED <<stopping, sanitized, stats, synced, accepted, born,
                   lives>>

-----------------------------------------------------------------------------
(***************************************************************************)
(* The end of a process run, and the next one.                             *)
(***************************************************************************)

\* The day files are written in turn, so a message of the buffer is out of
\* the coroutine's hands once its line is in its file or its day has failed.
Waiting(k) ==
    \/ pc = "get"
    \/ buffer[k].day \in todo
    \/ buffer[k].day = cur /\ k > pos

Unsettled == {buffer[k].id : k \in {i \in DOMAIN buffer : Waiting(i)}}

\* Memory is gone: the queue, the buffer, and what this process knew.
MemoryLost ==
    /\ pc # "down"
    /\ queue' = <<>>
    /\ buffer' = <<>>
    /\ pc' = "down"
    /\ NoFlush
    /\ UNCHANGED <<stopping, sanitized, fsyncDue, stats, offered, accepted,
                   born, lives>>

Volatile == Unsettled \cup {queue[i].id : i \in DOMAIN queue}

\* The process is killed (or exits after a clean stop): what it wrote stays
\* in the files, the line it was writing possibly in part.
Exit ==
    /\ MemoryLost
    /\ Fragment \/ UNCHANGED files
    /\ lost' = lost \cup Volatile
    /\ UNCHANGED synced

\* The first n texts of f, the last one as the disk happens to have it.
Surviving(f, n, cut) ==
    [i \in 1..n |->
        IF i < n \/ cut = "none" THEN f[i]
        ELSE [id    |-> f[i].id,
              whole |-> f[i].whole /\ cut = "newline",
              eol   |-> FALSE]]

\* Ids of the messages a file has in full.
Whole(f) == {f[i].id : i \in {k \in DOMAIN f : f[k].whole}}

\* The host goes down: each file keeps at least what was synced, at most what
\* was written, and may end in the middle of a text.
PowerLoss ==
    /\ MemoryLost
    /\ \E keep \in [Days -> 0..accepted],
          cut \in [Days -> {"none", "newline", "text"}] :
          /\ \A d \in Days :
                /\ keep[d] \in synced[d]..Len(files[d])
                /\ cut[d] # "none" => keep[d] > synced[d]
          /\ files' = [d \in Days |-> Surviving(files[d], keep[d], cut[d])]
          /\ synced' = [d \in Days |->
                IF cut[d] # "none" THEN keep[d] - 1 ELSE keep[d]]
    /\ lost' = lost \cup Volatile
                    \cup UNION {Whole(files[d]) \ Whole(files'[d]) : d \in Days}

\* A new process: __init__ and start().
Restart ==
    /\ pc = "down"
    /\ lives < MaxLives
    /\ lives' = lives + 1
    /\ born' = accepted
    /\ pc' = "get"
    /\ stopping' = FALSE
    /\ sanitized' = {}
    /\ fsyncDue' = TRUE
    /\ stats' = NoStats
    /\ offered' = <<>>
    /\ UNCHANGED <<queue, buffer, final, syncing, todo, cur, pos, disk, accepted, lost>>

-----------------------------------------------------------------------------
Next ==
    \/ Enqueue
    \/ FsyncIntervalPasses
    \/ Stop
    \/ Get
    \/ Timeout
    \/ Open
    \/ WriteLine
    \/ Finish
    \/ WriteFails
    \/ Exit
    \/ PowerLoss
    \/ Restart

Spec == Init /\ [][Next]_vars

\* Fairness.  The event loop runs every ready task and timer, and the executor
\* runs every job, so the coroutine and the thread do not stop half way.  Once
\* the buffer is empty a timeout changes nothing, and the queue's head is
\* handed out at the next wait: weak fairness is enough for Get.
Fairness ==
    /\ WF_vars(Get)
    /\ WF_vars(Timeout)
    /\ WF_vars(Open)
    /\ WF_vars(WriteLine)
    /\ WF_vars(Finish)

FairSpec == Spec /\ Fairness

-----------------------------------------------------------------------------
(***************************************************************************)
(* Properties.                                                             *)
(***************************************************************************)

\* The day files implement the abstract log: the messages in the queue and
\* the buffer are its pending ones, the texts its entries.
Pending ==
    {buffer[k] : k \in {i \in DOMAIN buffer : Waiting(i)}}
        \cup {queue[i] : i \in DOMAIN queue}

Entries(f) == [i \in DOMAIN f |-> [id |-> f[i].id, whole |-> f[i].whole]]

Log == INSTANCE DeviceLog WITH
          pending <- Pending,
          log     <- [d \in Days |-> Entries(files[d])],
          durable <- synced

ImplementsDeviceLog == Log!Spec

\* Every variable has its type; the writer's progress is a day, a set of days
\* and a position in the buffer.
TypeOK ==
    /\ queue \in Seq(Msg)
    /\ buffer \in Seq(Msg)
    /\ pc \in Control
    /\ stopping \in BOOLEAN
    /\ final \in BOOLEAN
    /\ syncing \in BOOLEAN
    /\ todo \in SUBSET Days
    /\ cur \in Days \cup {NoDay}
    /\ cur \in Days <=> pc \in {"open", "write"}
    /\ pos \in Nat
    /\ sanitized \in SUBSET Days
    /\ fsyncDue \in BOOLEAN
    /\ stats \in QueueStats
    /\ offered \in Seq(Nat)
    /\ files \in [Days -> Seq(Text)]
    /\ synced \in [Days -> Nat]
    /\ accepted \in Nat
    /\ lost \in SUBSET Nat
    /\ born \in Nat
    /\ lives \in Nat

\* No message is ever appended to a text that has no newline: a torn tail,
\* left by a kill or a power loss, is closed before anything follows it
\* (_ensure_clean_tail and _sanitized_paths).
NoMergedLine ==
    \A d \in Days : \A i \in DOMAIN files[d] :
        i < Len(files[d]) => files[d][i].eol

\* A day file holds a device's messages in the order enqueue() accepted them,
\* each at most once, across flushes, write errors, crashes and restarts.
InOrder ==
    \A d \in Days : \A i, j \in DOMAIN files[d] :
        i < j => files[d][i].id < files[d][j].id

\* No message is lost silently: while the process runs, an accepted message
\* is in the queue, in the buffer, whole in a day file, or was taken by an
\* error or a crash.
Accounted ==
    1..accepted \subseteq
        Volatile \cup lost \cup UNION {Whole(files[d]) : d \in Days}

\* The indexer is offered exactly the messages of this process run that left
\* the queue, each once and in acceptance order, whatever path they took out
\* of it (the loop or the shutdown drain).
OfferedInOrder ==
    pc # "down" =>
        /\ Len(offered) + Len(queue) = accepted - born
        /\ \A i \in DOMAIN offered : offered[i] = born + i

\* What is on the disk after an fsync, or after a power loss, stays there for
\* good: no step, crash or repair of a torn tail takes it back, and a text
\* keeps the newline that ends it.
DurableStays ==
    [][\A d \in Days :
          /\ synced[d] <= Len(files'[d])
          /\ \A i \in 1..synced[d] :
                /\ files'[d][i].id = files[d][i].id
                /\ files'[d][i].whole = files[d][i].whole
                /\ files[d][i].eol => files'[d][i].eol]_vars

\* The flush that ends a run leaves each of its own lines durable ("then flush
\* with a forced fsync", line 160), whatever mix of days it holds.  Lines of
\* earlier flushes, to other files, need not be; nor any line if the run ends
\* with nothing in the buffer, since then there is no such flush (line 166).
LastFlushIsDurable ==
    [][final /\ pc = "write" /\ pc' = "done" =>
          \A k \in DOMAIN buffer :
              buffer[k].id \in
                  {files'[buffer[k].day][i].id : i \in 1..synced'[buffer[k].day]}]_vars

\* An accepted message leaves the queue and the buffer: it reaches its file,
\* or an error or a crash takes it.  It is not stuck behind an idle device, a
\* full queue or a shutdown.
EventuallySettled ==
    \A id \in 1..MaxMsgs : (id <= accepted) ~> (id \notin Volatile)

\* stop() returns: the drain and the last flush end.
StopReturns == stopping ~> pc \in {"done", "down"}
=============================================================================
