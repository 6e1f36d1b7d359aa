------------------------------- MODULE Indexer -------------------------------
(***************************************************************************)
(* The indexer shared by all devices: Indexer and _insert_batch in         *)
(* sylo/indexer/core.py, with apply_schema and insert_message of           *)
(* sylo/indexer/schema.py.                                                 *)
(*                                                                         *)
(* The device writers call enqueue() on the event loop.  The coroutine     *)
(* _run() buffers messages and flushes the buffer month by month; a month  *)
(* is one transaction of one SQLite file, run by the indexer's only        *)
(* executor thread while the coroutine is suspended.  The connections live *)
(* as long as the process, so a transaction that could not be committed is *)
(* still there when the next batch of its month arrives.                   *)
(*                                                                         *)
(* A message is its acceptance number and its receipt month.  The kinds of *)
(* failure a run admits are the members of Faults:                         *)
(*   "dir"       the index directory cannot be made (OSError)              *)
(*   "open"      a database cannot be opened or given its schema           *)
(*   "row"       SQLite refuses one INSERT into messages                   *)
(*   "fts"       SQLite refuses the INSERT into messages_fts               *)
(*   "rollback"  an INSERT fails and SQLite ends the transaction with it   *)
(*   "commit"    COMMIT fails, with or without ending the transaction      *)
(*                                                                         *)
(* Definitions whose names begin with Bad are faulty variants of the ones  *)
(* that follow them, used only to see the properties fail.                 *)
(***************************************************************************)
EXTENDS Naturals, Sequences, FiniteSets

CONSTANTS
    Months,     \* calendar months (UTC) the receipt clock can show
    NoMonth,    \* no batch under way
    HardLimit,  \* queue_hard_limit: capacity of the queue
    SoftLimit,  \* queue_soft_limit: backlog that counts a lag warning
    FlushMax,   \* flush_max_rows: buffer length that forces a flush
    Faults,     \* the failures that can happen
    MaxMsgs,    \* bound: messages accepted or refused
    MaxLives    \* bound: process runs, the first included

ASSUME IndexerAssumption ==
    /\ Months # {}
    /\ NoMonth \notin Months
    /\ HardLimit \in Nat \ {0}
    /\ SoftLimit \in Nat
    /\ FlushMax \in Nat \ {0}
    /\ Faults \subseteq {"dir", "open", "row", "fts", "rollback", "commit"}
    /\ MaxMsgs \in Nat
    /\ MaxLives \in Nat \ {0}

VARIABLES
    queue,      \* self._queue
    buffer,     \* _run's buffer of envelopes
    pc,         \* where the coroutine is: see Control
    stopping,   \* self._stopping
    final,      \* the flush under way is the one that ends _run
    todo,       \* months of by_month the flush has not reached yet
    cur,        \* month the executor thread is working on, or NoMonth
    pos,        \* index in buffer of the last row the thread tried
    inserted,   \* _insert_batch's counter
    conns,      \* months with a connection in self._connections
    tx,         \* per month, the rows of the open transaction
    table,      \* per month, the committed rows: what a search can see
    stats,      \* the indexer's QueueStats
    accepted,   \* number of messages put on the queue so far, all runs
    skipped,    \* ids whose own INSERT failed: logged as "skipping"
    failed,     \* ids of the batches logged and counted as dropped
    undone,     \* ids inserted without an error, then rolled back
    crashed,    \* ids the end of a process took
    refused,    \* messages a full queue turned away in this run
    born,       \* value of accepted when this process run began
    lives       \* process runs so far

coroutine == <<buffer, pc, final, todo, cur, pos, inserted>>
database  == <<conns, tx, table>>
ghost     == <<skipped, failed, undone, crashed>>
vars == <<queue, coroutine, stopping, database, stats, accepted, ghost,
          refused, born, lives>>

Msg == [id : Nat \ {0}, month : Months]

\* A row of messages, and whether messages_fts has its text.
Row == [id : Nat \ {0}, fts : BOOLEAN]

NoStats == [queued |-> 0, dropped |-> 0, written |-> 0, lag |-> 0]

\* get:    suspended in wait_for(queue.get(), flush_idle_seconds)
\* open:   suspended in run_in_executor, no connection at hand yet
\* insert: suspended in run_in_executor, in the loop over the rows
\* done:   _run returned;  closed: stop() closed the connections
\* failed: _run raised;    down: no process
Control == {"get", "open", "insert", "done", "closed", "failed", "down"}

MonthsOf(buf) == {buf[i].month : i \in DOMAIN buf}

\* Positions in the buffer of the batch of the current month.
Batch == {i \in DOMAIN buffer : buffer[i].month = cur}

IdsAt(ks) == {buffer[k].id : k \in ks}

IdsIn(rows) == {rows[i].id : i \in DOMAIN rows}

-----------------------------------------------------------------------------
(***************************************************************************)
(* Control shared by the coroutine's steps.                                *)
(***************************************************************************)

\* No flush under way: the locals of _flush are gone.
NoFlush ==
    /\ final' = FALSE
    /\ todo' = {}
    /\ cur' = NoMonth
    /\ pos' = 0
    /\ inserted' = 0

\* Hand the first month of months, in the order buf mentions them, to the
\* executor.
StartMonth(buf, months) ==
    /\ \E i \in DOMAIN buf :
          /\ buf[i].month \in months
          /\ \A j \in 1..(i - 1) : buf[j].month \notin months
          /\ cur' = buf[i].month
          /\ todo' = months \ {buf[i].month}
    /\ pos' = 0
    /\ inserted' = 0
    /\ pc' = "open"

StartFlush(buf, last) ==
    /\ buffer' = buf
    /\ final' = last
    /\ StartMonth(buf, MonthsOf(buf))

\* Faulty: stops without emptying the queue.
BadDrain(buf, q) ==
    /\ queue' = q
    /\ IF buf = <<>>
       THEN pc' = "done" /\ buffer' = <<>> /\ NoFlush
       ELSE StartFlush(buf, TRUE)

\* Faulty: what is left on the queue goes ahead of what is buffered.
BadDrainOrder(buf, q) ==
    /\ queue' = <<>>
    /\ IF buf \o q = <<>>
       THEN pc' = "done" /\ buffer' = <<>> /\ NoFlush
       ELSE StartFlush(q \o buf, TRUE)

\* The shutdown drain, then the last flush if there is anything to flush.
Drain(buf, q) ==
    /\ queue' = <<>>
    /\ IF buf \o q = <<>>
       THEN pc' = "done" /\ buffer' = <<>> /\ NoFlush
       ELSE StartFlush(buf \o q, TRUE)

\* The head of `while not self._stopping`.
LoopTop(buf, q) ==
    IF stopping
    THEN Drain(buf, q)
    ELSE pc' = "get" /\ buffer' = buf /\ queue' = q /\ NoFlush

\* Faulty: the buffer is not emptied after the flush.
BadMonthDone ==
    IF todo # {}
    THEN StartMonth(buffer, todo) /\ UNCHANGED <<buffer, final, queue>>
    ELSE IF final
         THEN pc' = "done" /\ buffer' = <<>> /\ NoFlush /\ UNCHANGED queue
         ELSE LoopTop(buffer, queue)

\* _insert_batch has returned or raised sqlite3.Error: the next month, or the
\* end of the flush and whatever follows it in _run.
MonthDone ==
    IF todo # {}
    THEN StartMonth(buffer, todo) /\ UNCHANGED <<buffer, final, queue>>
    ELSE IF final
         THEN pc' = "done" /\ buffer' = <<>> /\ NoFlush /\ UNCHANGED queue
         ELSE LoopTop(<<>>, queue)

-----------------------------------------------------------------------------
Init ==
    /\ queue = <<>>
    /\ buffer = <<>>
    /\ pc = "get"
    /\ stopping = FALSE
    /\ final = FALSE
    /\ todo = {}
    /\ cur = NoMonth
    /\ pos = 0
    /\ inserted = 0
    /\ conns = {}
    /\ tx = [m \in Months |-> <<>>]
    /\ table = [m \in Months |-> <<>>]
    /\ stats = NoStats
    /\ accepted = 0
    /\ skipped = {}
    /\ failed = {}
    /\ undone = {}
    /\ crashed = {}
    /\ refused = 0
    /\ born = 0
    /\ lives = 1

\* put_nowait raises QueueFull.
Full == Len(queue) >= HardLimit

\* enqueue(), called by a device writer: it never waits, not even when _run
\* has died.
Enqueue ==
    /\ pc # "down"
    /\ ~stopping
    /\ accepted + refused < MaxMsgs
    /\ LET lag == stats.lag + (IF Len(queue) >= SoftLimit THEN 1 ELSE 0)
       IN \/ /\ ~Full
             /\ \E now \in Months :
                   queue' = Append(queue, [id |-> accepted + 1, month |-> now])
             /\ accepted' = accepted + 1
             /\ stats' = [stats EXCEPT !.lag = lag, !.queued = Len(queue) + 1]
             /\ UNCHANGED refused
          \/ /\ Full
             /\ refused' = refused + 1
             /\ stats' = [stats EXCEPT !.lag = lag, !.dropped = @ + 1]
             /\ UNCHANGED <<queue, accepted>>
    /\ UNCHANGED <<coroutine, stopping, database, ghost, born, lives>>

Stop ==
    /\ pc \in {"get", "open", "insert"}
    /\ ~stopping
    /\ stopping' = TRUE
    /\ UNCHANGED <<queue, coroutine, database, stats, accepted, ghost, refused,
                   born, lives>>

\* wait_for returns a message.
Get ==
    /\ pc = "get"
    /\ queue # <<>>
    /\ LET buf == Append(buffer, Head(queue))
       IN IF Len(buf) >= FlushMax
          THEN StartFlush(buf, FALSE) /\ queue' = Tail(queue)
          ELSE LoopTop(buf, Tail(queue))
    /\ stats' = [stats EXCEPT !.queued = Len(queue) - 1]
    /\ UNCHANGED <<stopping, database, accepted, ghost, refused, born, lives>>

\* Faulty: an idle timeout flushes nothing.
BadTimeout ==
    /\ pc = "get"
    /\ LoopTop(buffer, queue)
    /\ UNCHANGED <<stopping, database, stats, accepted, ghost, refused, born,
                   lives>>

\* wait_for times out, possibly just as a message arrives.
Timeout ==
    /\ pc = "get"
    /\ IF buffer # <<>>
       THEN StartFlush(buffer, FALSE) /\ UNCHANGED queue
       ELSE LoopTop(<<>>, queue)
    /\ UNCHANGED <<stopping, database, stats, accepted, ghost, refused, born,
                   lives>>

-----------------------------------------------------------------------------
(***************************************************************************)
(* _insert_batch in the executor thread.                                   *)
(***************************************************************************)

\* A cached connection, or a new one with the schema applied.
Open ==
    /\ pc = "open"
    /\ pc' = "insert"
    /\ conns' = conns \cup {cur}
    /\ UNCHANGED <<queue, buffer, final, todo, cur, pos, inserted, stopping, tx,
                   table, stats, accepted, ghost, refused, born, lives>>

\* _flush's except clause: the batch counts as dropped, on with the next.
BatchFails ==
    /\ failed' = failed \cup IdsAt(Batch)
    /\ stats' = [stats EXCEPT !.dropped = @ + Cardinality(Batch)]
    /\ MonthDone

\* connect() or apply_schema() raises: nothing is cached, nothing was written.
OpenFails ==
    /\ "open" \in Faults
    /\ pc = "open"
    /\ cur \notin conns
    /\ BatchFails
    /\ UNCHANGED <<stopping, database, accepted, skipped, undone, crashed,
                   refused, born, lives>>

\* mkdir() raises OSError, which _flush does not catch: _run ends, and what
\* it had buffered is gone.
DirFails ==
    /\ "dir" \in Faults
    /\ pc = "open"
    /\ cur \notin conns
    /\ pc' = "failed"
    /\ buffer' = <<>>
    /\ crashed' = crashed \cup
          {buffer[i].id : i \in {k \in DOMAIN buffer :
                                    buffer[k].month \in todo \cup {cur}}}
    /\ NoFlush
    /\ UNCHANGED <<queue, stopping, database, stats, accepted, skipped, failed,
                   undone, refused, born, lives>>

\* The thread tries the row of buffer[i] next.
NextRow(i) ==
    /\ pc = "insert"
    /\ i \in Batch
    /\ i > pos
    /\ \A j \in Batch : j > pos => i <= j

\* Both INSERTs succeed.
InsertRow ==
    /\ \E i \in DOMAIN buffer :
          /\ NextRow(i)
          /\ tx' = [tx EXCEPT ![cur] =
                Append(@, [id |-> buffer[i].id, fts |-> TRUE])]
          /\ pos' = i
    /\ inserted' = inserted + 1
    /\ UNCHANGED <<queue, buffer, pc, final, todo, cur, stopping, conns, table,
                   stats, accepted, ghost, refused, born, lives>>

\* Faulty: an error ends the batch's loop, and the rows after it are gone.
BadRowFails ==
    /\ "row" \in Faults
    /\ \E i \in DOMAIN buffer :
          /\ NextRow(i)
          /\ skipped' = skipped \cup {buffer[i].id}
    /\ pos' = Len(buffer)
    /\ UNCHANGED <<queue, buffer, pc, final, todo, cur, inserted, stopping,
                   database, stats, accepted, failed, undone, crashed, refused, born,
                   lives>>

\* The INSERT into messages fails alone: the row is skipped.
RowFails ==
    /\ "row" \in Faults
    /\ \E i \in DOMAIN buffer :
          /\ NextRow(i)
          /\ skipped' = skipped \cup {buffer[i].id}
          /\ pos' = i
    /\ UNCHANGED <<queue, buffer, pc, final, todo, cur, inserted, stopping,
                   database, stats, accepted, failed, undone, crashed, refused, born,
                   lives>>

\* The INSERT into messages_fts fails alone: logged as skipped, but the row
\* of messages stays in the transaction.
FtsFails ==
    /\ "fts" \in Faults
    /\ \E i \in DOMAIN buffer :
          /\ NextRow(i)
          /\ tx' = [tx EXCEPT ![cur] =
                Append(@, [id |-> buffer[i].id, fts |-> FALSE])]
          /\ skipped' = skipped \cup {buffer[i].id}
          /\ pos' = i
    /\ UNCHANGED <<queue, buffer, pc, final, todo, cur, inserted, stopping, conns,
                   table, stats, accepted, failed, undone, crashed, refused, born,
                   lives>>

\* An INSERT fails and SQLite rolls the transaction back (a full disk, an I/O
\* error): the loop goes on as after any row error.
RollsBack ==
    /\ "rollback" \in Faults
    /\ \E i \in DOMAIN buffer :
          /\ NextRow(i)
          /\ skipped' = skipped \cup {buffer[i].id}
          /\ pos' = i
    /\ undone' = undone \cup (IdsIn(tx[cur]) \ failed)
    /\ tx' = [tx EXCEPT ![cur] = <<>>]
    /\ UNCHANGED <<queue, buffer, pc, final, todo, cur, inserted, stopping, conns,
                   table, stats, accepted, failed, crashed, refused, born, lives>>

LoopOver == pc = "insert" /\ \A i \in Batch : i <= pos

\* Faulty: counts the rows tried.
BadCommit ==
    /\ LoopOver
    /\ table' = [table EXCEPT ![cur] = @ \o tx[cur]]
    /\ tx' = [tx EXCEPT ![cur] = <<>>]
    /\ stats' = [stats EXCEPT !.written = @ + Cardinality(Batch)]
    /\ MonthDone
    /\ UNCHANGED <<stopping, conns, accepted, ghost, refused, born, lives>>

\* conn.commit() publishes the transaction: readers see all of it at once.
Commit ==
    /\ LoopOver
    /\ table' = [table EXCEPT ![cur] = @ \o tx[cur]]
    /\ tx' = [tx EXCEPT ![cur] = <<>>]
    /\ stats' = [stats EXCEPT !.written = @ + inserted]
    /\ MonthDone
    /\ UNCHANGED <<stopping, conns, accepted, ghost, refused, born, lives>>

\* conn.commit() raises: the batch counts as dropped, its rows are gone or
\* still in the transaction of the cached connection.
CommitFails ==
    /\ "commit" \in Faults
    /\ LoopOver
    /\ tx' \in {tx, [tx EXCEPT ![cur] = <<>>]}
    /\ BatchFails
    /\ UNCHANGED <<stopping, conns, table, accepted, skipped, undone, crashed,
                   refused, born, lives>>

-----------------------------------------------------------------------------
(***************************************************************************)
(* The end of a process run, and the next one.                             *)
(***************************************************************************)

\* stop() after the task: _close_all; SQLite discards open transactions.
Close ==
    /\ pc = "done"
    /\ stopping
    /\ pc' = "closed"
    /\ conns' = {}
    /\ tx' = [m \in Months |-> <<>>]
    /\ UNCHANGED <<queue, buffer, final, todo, cur, pos, inserted, stopping,
                   table, stats, accepted, ghost, refused, born, lives>>

\* Buffered messages whose batch has not ended.
Unsettled ==
    IdsAt({k \in DOMAIN buffer :
              pc = "get" \/ buffer[k].month \in todo \cup {cur}})

Volatile == Unsettled \cup {queue[i].id : i \in DOMAIN queue}

\* The process ends, killed or not; SQLite recovers to the last commit.
Exit ==
    /\ pc # "down"
    /\ pc' = "down"
    /\ queue' = <<>>
    /\ buffer' = <<>>
    /\ NoFlush
    /\ conns' = {}
    /\ tx' = [m \in Months |-> <<>>]
    /\ crashed' = crashed \cup Volatile
    /\ UNCHANGED <<stopping, table, stats, accepted, skipped, failed, undone,
                   refused, born, lives>>

Restart ==
    /\ pc = "down"
    /\ lives < MaxLives
    /\ lives' = lives + 1
    /\ born' = accepted
    /\ refused' = 0
    /\ pc' = "get"
    /\ stopping' = FALSE
    /\ stats' = NoStats
    /\ UNCHANGED <<queue, buffer, final, todo, cur, pos, inserted, database,
                   accepted, ghost>>

-----------------------------------------------------------------------------
Next ==
    \/ Enqueue
    \/ Stop
    \/ Get
    \/ Timeout
    \/ Open
    \/ OpenFails
    \/ DirFails
    \/ InsertRow
    \/ RowFails
    \/ FtsFails
    \/ RollsBack
    \/ Commit
    \/ CommitFails
    \/ Close
    \/ Exit
    \/ Restart

Spec == Init /\ [][Next]_vars

\* The event loop runs ready tasks and timers, the executor runs its jobs and
\* SQLite calls return.  Nothing is assumed of failures, producers or kills.
Fairness ==
    /\ WF_vars(Get)
    /\ WF_vars(Timeout)
    /\ WF_vars(Open)
    /\ WF_vars(InsertRow)
    /\ WF_vars(Commit)

FairSpec == Spec /\ Fairness

-----------------------------------------------------------------------------
(***************************************************************************)
(* Properties.                                                             *)
(***************************************************************************)

Indexed == UNION {IdsIn(table[m]) : m \in Months}

\* Every variable has its type, and the thread works on a month exactly while
\* the coroutine is suspended on a batch.
TypeOK ==
    /\ queue \in Seq(Msg)
    /\ buffer \in Seq(Msg)
    /\ pc \in Control
    /\ stopping \in BOOLEAN
    /\ final \in BOOLEAN
    /\ todo \in SUBSET Months
    /\ cur \in Months \cup {NoMonth}
    /\ cur \in Months <=> pc \in {"open", "insert"}
    /\ pos \in Nat
    /\ inserted \in Nat
    /\ conns \in SUBSET Months
    /\ tx \in [Months -> Seq(Row)]
    /\ table \in [Months -> Seq(Row)]
    /\ stats \in [queued : Nat, dropped : Nat, written : Nat, lag : Nat]
    /\ accepted \in Nat
    /\ skipped \in SUBSET Nat
    /\ failed \in SUBSET Nat
    /\ undone \in SUBSET Nat
    /\ crashed \in SUBSET Nat
    /\ refused \in Nat
    /\ born \in Nat
    /\ lives \in Nat

\* A month's rows are in acceptance order, each message at most once, and the
\* open transaction continues them: a batch that is left in a transaction by
\* a failed commit is neither repeated nor overtaken by the next.
RowsInOrder ==
    \A m \in Months :
        LET rows == table[m] \o tx[m]
        IN \A i, j \in DOMAIN rows : i < j => rows[i].id < rows[j].id

\* No message is lost without a trace in the log: one that is not indexed is
\* still on its way, its own INSERT failed, its batch was reported as dropped,
\* a rollback took it, or the process ended.
Accounted ==
    1..accepted \subseteq
        Volatile \cup Indexed \cup skipped \cup failed \cup undone \cup crashed

\* Ids of the rows that a full-text search can find.
FtsIds(rows) == {rows[i].id : i \in {k \in DOMAIN rows : rows[k].fts}}

Searchable == UNION {FtsIds(table[m]) : m \in Months}

\* The counter of written messages runs ahead of what a search finds by the
\* messages a rollback took and by no other: it counts rows of this run that
\* were committed with their full-text entry, not rows that were tried.
WrittenIsIndexed ==
    stats.written <= Cardinality({id \in Searchable \cup undone : id > born})

\* An accepted message does not stay in memory: its batch ends, whatever
\* SQLite does to it.  The one way out is an OSError, which ends _run.
EventuallySettled ==
    \A id \in 1..MaxMsgs :
        (id <= accepted) ~> (id \notin Volatile \/ pc = "failed")

\* stop() gets past its await: _run drains the queue and ends, or has raised.
StopReturns ==
    stopping ~> \/ pc \in {"done", "closed"} /\ queue = <<>> /\ buffer = <<>>
                \/ pc \in {"failed", "down"}

\* The k-th buffered message has not been tried.
Waiting(k) ==
    \/ pc = "get"
    \/ buffer[k].month \in todo
    \/ buffer[k].month = cur /\ k > pos

\* Messages whose rows are in a transaction, even one that failed to commit.
Staged == UNION {{[id |-> i, month |-> m] : i \in IdsIn(tx[m])} : m \in Months}

\* What SearchIndex sees of the indexer: the messages still to be tried, those
\* of the queue and those of the open transactions are its pending ones.
Pending ==
    {buffer[k] : k \in {i \in DOMAIN buffer : Waiting(i)}}
        \cup {queue[i] : i \in DOMAIN queue}
        \cup Staged

RowIds(rows) == [i \in DOMAIN rows |-> rows[i].id]

Index == INSTANCE SearchIndex WITH
            pending <- Pending,
            index   <- [m \in Months |-> RowIds(table[m])]

\* Readers can rely on the tables as SearchIndex has them: a month's table only
\* grows, by whole batches and at its end, a message is published at most once
\* and never after a newer one of its month, and what a rollback or the end of
\* a process took is not published later.  It holds through every failure: rows
\* that a failed commit left in the transaction of the cached connection go out
\* with the next batch, still ahead of it (core.py, lines 36-53 and 115-124).
ImplementsSearchIndex == Index!Spec
=============================================================================
