# sylo in TLA+

sylo records syslog messages of network devices, indexes them, and shows them in
a web application. This directory holds a TLA+ model of it: what is modelled is
checked by TLC on small instances, and the main safety results are proved by
TLAPS for every instance. Paths below are relative to the repository root; a
path like `receiver/main.py` is under `src/sylo/`.

## The system

Three processes, which share files and nothing else.

| component | source | state | operations |
|---|---|---|---|
| Syslog server and startup | `receiver/server.py`, `main.py`, `winservice.py` | sockets, TCP handlers, the stage of startup and shutdown, the service's loop and event | start with retry, datagrams, TCP lines, stop by signal or service manager |
| Device writer (one per device) | `receiver/device_writer.py` | a bounded queue, a buffer, which files have a clean tail, time of the last fsync; day files | `enqueue`, `_run`, `_flush`, `_write_sync`, `stop` |
| Indexer | `indexer/core.py`, `schema.py` | a bounded queue, a buffer, a cache of SQLite connections; monthly databases | `enqueue`, `_run`, `_flush`, `_insert_batch`, `stop` |
| Index rebuild | `indexer/rebuild.py` | none between runs | replace months from the day files |
| Parser, envelope | `parser.py`, `receiver/envelope.py` | none | pure functions |
| Receiver health | `receiver/health.py`, `main.py`, `webapp/receiver_health.py` | a status file; the last error and since when | mark running, mark error, heartbeat, read |
| Search, devices, live tail | `webapp/queries.py`, `routes/messages.py` | per stream a cursor for each month; per request what has been merged so far | poll, seed, page, search, list devices |
| Accounts | `webapp/appdb.py`, `auth.py`, `deps.py`, `routes/users.py`, `routes/auth.py` | tables `users` and `sessions`, what each handler has read | log in and out, session check, create, deactivate, delete |
| Login rate limiter | `webapp/auth.py`, `routes/auth.py` | failures and locks per address | check, record |
| Retention manager | `retention/core.py`, `main.py` | the list and cutoff of the pass under way | passes, retries |
| Settings page | `webapp/routes/settings.py` | `retention_days` | set |
| Packaging, application shell | `packaging/`, `deploy/`, `webapp/app.py` | none | wiring |

How they interact:

- The server calls `DeviceRegistry.get_or_create` and `DeviceWriter.enqueue` for
  each message, on the event loop.
- A writer's coroutine takes messages from its queue, parses each one and offers
  it to the indexer's queue, and hands batches to a thread that appends to
  `data_dir/<device>/<date>.log`. The coroutine waits for the thread while the
  server goes on enqueuing.
- The indexer's coroutine hands batches to a thread that inserts into
  `index_dir/<month>.sqlite3`, one transaction per month.
- A rebuild, run by hand while the receiver is stopped, makes those databases
  anew from the day files.
- The receiver writes a status file, at its attempts to start and every ten
  seconds after; the web application makes a banner of it on every page.
- The web application reads the databases while they are written, and keeps
  accounts in `app.sqlite3`. Its handlers run on several threads, and each call
  into `appdb` is a transaction of its own.
- The retention manager deletes databases and day files while both others run.

What is hard here: messages that arrive while a coroutine is suspended; timeouts
that race them; batches that span midnight or a month's end; file system and
SQLite calls that fail half way; kills and power losses at any of those points;
the order of a shutdown, asked for from any stage and any thread; readers
without a common snapshot, of databases that retention deletes; handlers that
act on rows another handler has changed since; a wall clock that is set; and two
calendars, local and UTC. `PROJECT.json` lists each such hazard at the line where
it bites, with the properties that cover it.

## The modules

| module | models | constants that bound it |
|---|---|---|
| `DeviceWriter` | one writer, its files, kills, power losses, restarts | queue limits, batch size, days, messages, process runs |
| `DeviceLog` | what a writer promises: the abstract log `DeviceWriter` implements | none |
| `Indexer` | the indexer, its databases and failures | queue limits, batch size, months, messages, process runs, kinds of failure |
| `SearchIndex` | what the databases promise their readers: the abstract index `Indexer` implements | none |
| `Receiver` | startup with retry, arrivals, stop requests, shutdown; writers and indexer reduced to what the order needs | devices, messages, failed attempts |
| `ReceiverHealth` | the status file, its writers' timers, its reader, the wall clock | errors, intervals, clock steps, time |
| `Parser` | `parse_syslog` and `to_line` as recursive functions on characters | longest tag |
| `SyslogText` | the grammars of RFC 5424 and RFC 3164: texts with the fields they mean | |
| `Recovery` | the two records of a message, failures, crashes, and rebuild; composes `Parser` | devices, days, texts, failed writes, crashes, rebuilds |
| `IndexReaders` | one live tail and one search or device list against the indexer's commits and retention's deletions | months, times per month, rows, pages |
| `Accounts` | users, sessions and concurrent handlers | threads, tokens, user ids |
| `LoginLimiter` | the limiter and the handlers that use it | addresses, threads, time |
| `Retention` | passes against the clock, the receiver and the setting | days, devices, failed passes |
| `MCRetention`, `MCIndexReaders`, `MCReceiverHealth`, `MCRecovery` | the calendar, rows, clock steps and texts of the runs, which a `.cfg` cannot write | |
| `DeviceWriterProofs`, `IndexerProofs`, `ReceiverProofs`, `ReceiverHealthProofs`, `RecoveryProofs`, `IndexReadersProofs`, `RetentionProofs` | theorems about the module they are named after | |
| `AccessProofs` | theorems about `Accounts` and `LoginLimiter`, which share no name and no state | |

Definitions whose names begin with `Bad` are faulty variants of the definition
that follows them: a dropped guard, a missing reset, an order swapped. They are
used by nothing. They record, with the `mutants` list of `PROJECT.json`, which
mistake in the code each property would catch.

### DeviceWriter

A message is an id (its place in the order `enqueue` accepted it) and a day. A
file is a sequence of texts: a text has the id, whether it is whole, and whether
a newline ends it. `pc` is where the coroutine is: `get` (waiting for a message,
line 141), `open` and `write` (the thread of `_write_sync`, lines 46-54), `done`,
or `down` when the process does not run. The code between two of these points
runs without an await and is one action: what follows a message, a timeout or a
day that has been written is one operator each (`LoopTop`, `DayDone`, `Drain`).
`Enqueue` and `Stop` may happen whenever the loop is free, so also while a batch
is being written. `Open` and each `WriteLine` are separate steps since a kill can
come between them. With `LateProducers` messages may still come after `stop()`:
the theorems cover both cases, the passing runs have it FALSE, which is what the
drain assumes, and `Receiver` models the server that breaks that assumption.
`Exit` ends or kills the process, `PowerLoss` also cuts each file to something
between what was synced and what was written.

`DeviceLog` is the abstract log: pending messages, a log per day that only grows,
a durable prefix that survives. `ImplementsDeviceLog` is the refinement
`INSTANCE DeviceLog WITH ...`, checked with write errors.

### Indexer

Same queue and loop. The thread opens a connection (or takes the cached one),
inserts row by row, and commits. `tx` is the open transaction of each month's
connection, `table` what has been committed, and a search sees only `table`. A row
is an id and whether its full-text entry was made: `insert_message` is two INSERTs
and the second can fail. The constant `Faults` says which calls may fail: the
directory, opening, one row's insert, its full-text entry, an insert that makes
SQLite roll back, the commit. The ghost sets `skipped`, `failed`, `undone`,
`crashed` say what took a message that is nowhere.

`SearchIndex` is the abstract index: pending messages, and a table per month that
grows at its end, by the oldest pending messages of that month at one go. A pending
message can be given up, a published row never changes. `ImplementsSearchIndex` is
the refinement: pending are the messages still to be tried and the rows of the open
transactions, those of a batch already reported as dropped included. It is what
`IndexReaders` assumes of the indexer: its cursors, positions in a table, rest on
tables that change at their end only. (The deletion of a database is a step of
`IndexReaders` and of `Retention`; rebuilding one, of `Recovery`.)

### Receiver

`stage` follows `_start_with_retry` and `SyslogServer.start/stop` call by call.
`greeted` and `conns` are TCP clients whose handler has or has not yet begun;
`waits` is whether `wait_closed()` waits for them: pyproject.toml admits Python
3.10 and later, and that changed with 3.12. The writer and the indexer have one
step per batch. The ghost `late` has the messages that arrived after the writers
were told to stop.

`service` is what can ask for a stop. A signal handler of the loop sets the stop
event at once. On Windows `SvcDoRun` makes the loop, then the event, and `SvcStop`,
on the service manager's thread, hands the loop a callback if it finds both; the
loop runs it at a later moment, perhaps while `_start_with_retry` sleeps, or
before its first attempt (stage `boot`).

### ReceiverHealth

The actions are the writes of `_start_with_retry` and `_heartbeat_loop`, with the
time between them: `now` is the monotonic clock of the event loop's timers, `skew`
what the wall clock is off by, and `SetClock` sets it. `Slack` is how late a timer
may fire. Any write may fail (`health.py` logs it and goes on), and the process
may be killed at any time. `Banner` is `read_receiver_health`. The ghosts say when
a receiver last served, which attempts failed when, and whether a write failed or
the clock was set forward since the last write that worked.

### Parser, SyslogText, Recovery

`Parser` reads a text from left to right as the regular expressions and the walk
over structured data do. A text is a number for the priority and a sequence of
characters; letters are one character, digits another, and every mark the parser
looks at is its own. It was compared with the Python parser on 58,713 texts of
these characters, without a difference. `SyslogText` builds messages by the RFCs'
grammars together with the fields their senders meant, and is the reference
`SentIsRead` compares the parser with.

`Recovery` is about the two records of a message: its line in a day file and its
row in the index. A writer takes a message into its buffer and offers it to the
indexer, whose queue may be full (`Take`). From there on lines and rows go their own
ways, in no order between the two:

- A flush writes lines one by one (`WriteLine`). A write may fail (`WriteFails`):
  the line is given up, and a part of it may be in the file. If this process had
  written the file before (`tail`), the next line continues that part and is spoilt
  with it (`Merged`); if not, the next first write ends it, as `_ensure_clean_tail`
  does.
- The indexer inserts rows in the order of a month's messages (`_insert_batch`) into
  the transaction of the month (`inserted`) and commits it (`Commit`). An INSERT may
  fail and cost its row, or take the transaction back with it; so may a COMMIT.
- The receiver ends at any moment, with one line torn, perhaps within its timestamp
  (`Ends`). A power loss, at any moment too, also while the receiver is down or a
  rebuild runs, cuts every day file somewhere, also inside a line, and takes the last
  commits of every database, which are not synced one by one: the databases are in WAL
  mode with `synchronous=NORMAL` (`schema.py:50-54`). Where the synced part of each
  ends is left open (`PowerLoss`).

A row is its message, its `source_ip` and the parsed fields. The live one has the
device's address, a rebuilt one the name of the directory (`Directory`), in which
`_sanitize_device_key` has put `_` for each `:`.

The actions of rebuild are the loops of `rebuild_indexer` and `_rebuild_file`: a
month's database is deleted and made anew at its first file (`OpenMonth`), a file is
read line by line (`at` counts them) into a transaction (`tx`) that is committed at
its end (`CommitFile`). A line without a separator is skipped; an INSERT may fail as
in the indexer; the command may be killed, or end with an exception, between any two
lines.

The ghosts name what a line was lost to (`cut` by an end or a power loss,
`unwritten` by a failed write, `merged` into what that had left), what a row was lost
to (`refused` by the full queue, `skipped` by a failed INSERT or COMMIT, `unsaved` by
an end or a power loss, `unread` as the files had no line to make it of), and the
months a rebuild left unfinished (`half`) or finished (`restored`). `RecordsAgree` is
that nothing else is ever missing.

### IndexReaders

A row is its receipt time, and a table the sequence of its rows in the order of
their ids. `cursor` is `_tail_generator`'s dictionary, with `Unseeded` for no
entry. A search chooses its months as `_relevant_month_keys` does, a list of
devices takes the newest; then for each month finds the file (`FindMonth`) and
reads it (`ReadMonth`); between the two the indexer may create or fill it and
retention may delete it (`DropMonth`). The ghosts `always` and `ever` have the
rows that match the request and were there all along, or at any time, since it
began: what a reader without a snapshot can promise is a page between the two.

### Accounts and LoginLimiter

In `Accounts` each step is one transaction of `appdb`, or one read of the session
check. `req` holds, per thread, what the handler has read. A new user gets the
largest id plus one, as SQLite does for a table without AUTOINCREMENT, so ids come
back. Ghosts: `late` (the request began with its user deactivated), `reused`
(between its reads of the session and of the user, the id it holds was given to a new
user) and `raced` (some handler wrote a user row while another was between its check
and its write).

In `LoginLimiter` each call of the limiter is a step, since it holds the limiter's
lock. Between `is_locked` and the record of the outcome other handlers pass. The
ghost `history` keeps failures the limiter has forgotten. It shares no state with
`Accounts`: a handler that is let through goes on to the actions of that module.

### Retention

A date is a number of days. A pass takes `today` (local), `keep` and its list
once, then deletes file by file. `Skews` is local date minus UTC date. A pass may
fail at any point; being killed leaves the same state.

## The runs

| run | question | bounds |
|---|---|---|
| `device_writer` | Are the day files right under kills, power losses and a restart? | 4 messages, 2 days, queue 2, batch 2, 2 process runs |
| `device_writer_errors` | Does the writer implement `DeviceLog`, account for every message, and make progress, when writes fail too? | 3 messages, 2 days, 2 process runs |
| `device_writer_merged_line` | Can a write error merge two lines? **Yes** | 3 messages |
| `indexer` | Are the databases right for those who read them, and do batches end, under every failure? | 3 messages, 2 months, 2 process runs |
| `receiver` | Does startup end up serving, and does stopping end and lose nothing? | 2 devices, 3 messages, 2 failed attempts |
| `receiver_health` | Is what a page says of the receiver true? | 2 errors, intervals of 1, 3 and 6 units of 10 s, slack 1, one clock step, 10 units |
| `recovery` | Are messages read as meant, and do the two records agree, under every failure and after a rebuild? | about 150 texts, 2 devices, 2 days of two months, 1 failed write, 2 crashes or power losses, 2 rebuilds |
| `index_readers` | Is what readers see a sensible view of rows that come and months that go? | 2 months, 3 rows, pages of one |
| `accounts` | Are accounts right with concurrent handlers? | 2 threads, 2 ids, 2 tokens |
| `login_limiter` | How many failures get through, and is each lock justified? | 2 addresses, 2 threads, 2 attempts, window 2, lock 2, 4 units of time |
| `retention` | Is only what is old deleted, and is it deleted at last? | 5 days, months of 2 days, 1 failure |
| `retention_orphan` | Does a retried pass finish the month? **No** | 1 failure |

The bounds are the smallest at which the interesting cases exist. A queue and a
batch of two with three or four messages reach a full queue, a full buffer, a
batch that spans two days, a drain with several messages and a drop. Two process
runs reach every recovery; a third starts from the same kinds of files as the
second. Two devices and three messages let one device's writer drain while the
other's is created, and two failed attempts let a stop request come before, between
and after them. Two threads are the least that race; the proofs about accounts
hold for any number. In `receiver_health` the three intervals have the proportions
of the code, the clock is set forward by more than the stale limit or back by less,
and ten units are a whole stale limit after a failed start. In `recovery` the
corpus has every text alone, and with a second message those that a torn line, a
line break or a shared month can spoil; one sequence has three lines in one file, so
that after a whole line one can be torn and the next merged with it. One failed
write is enough for that (INSERTs and COMMITs may fail without bound), two crashes
for a power loss before a rebuild and another in it or after it, and two rebuilds let
one be killed before another. One of the two devices has an IPv6 address. Months
of two days put every day next to a month's end. In `index_readers` two months and
pages of one row make every page boundary a boundary between databases or between
commits.

Runs stop where a real system may rest (no more messages, process ended, time
over), so deadlock is not checked, except in `accounts`, where some step is always
possible.

What the properties say is in the comments above them. The type invariants are
in the modules but in no run; those that carry proofs are proved.

### Disagreements between the code and its comments

Two runs end in a counterexample on purpose; each states a line of the
repository, quoted in `PROJECT.json` under `findings`.

1. After a failed write the next batch continues the torn line
   (`device_writer.py:27` says the write is all-or-nothing).
2. A pass that fails after the database is gone leaves day files no later pass
   finds (`retention/core.py:1-4`, `retention/main.py:38-41`).

Others are part of the models, as an exception in a property or a ghost variable:

- A rollback inside an INSERT takes the earlier rows of the batch, which stay
  counted (`indexer/core.py:25-27` has a bad row cost only itself): `undone` in
  `WrittenIsIndexed`.
- A mkdir that fails ends the indexer's task for good, while the heartbeat goes on
  saying that the receiver runs (`indexer/core.py:30`): `pc = "failed"` in
  `EventuallySettled` and `StopReturns`.
- A TCP handler outlives the listening socket, so a message can come after a
  writer's drain (`server.py:125-127`, `device_writer.py:159`): `late` in
  `StopLosesNothing`.
- A `SvcStop` that comes before the service has its loop and its event is not heard
  (`winservice.py:47`): `StopTerminates` begins with a posted callback.
- Two deactivations at once leave no active admin (`routes/users.py:113`): `raced`
  in `AdminRemains`.
- A session check reads the session and then its user (`auth.py:89-95`). If the user
  was deactivated before the request began, and is deleted and the id given to a new
  user between the two reads, the request is served as that new user, although
  `auth.py:97-99` has deactivation cut off every session: `reused` in
  `DeactivationRevokes`.
- The flush forced at a stop (`device_writer.py:159-167`) syncs the day files of its
  own buffer only; lines of other files written since the last timely fsync, or all
  of them if the buffer is empty, are not synced: `LastFlushIsDurable` speaks of the
  buffer of that flush.
- A rebuilt row is not always the one made at ingest (`rebuild.py:5-7`). A message
  with line breaks or with bytes that are not UTF-8 may be read differently from its
  line. And the `source_ip` of an IPv6 device is the name of its directory
  (`rebuild.py:33`), which has `_` for `:` (`device_writer.py:19-21`).
  `RebuiltRowIsLiveRow` says how far the equivalence is true.

Two concern details outside the models. The rest of an oversized TCP line arrives
as a message of its own (`server.py:59-60` says "drain and drop it"; seen by
running the source). And `list_devices` calls what SQLite picks for the
columns beside MAX() arbitrary (`queries.py:157`), while SQLite documents that they
are those of the row with the maximum; the model follows SQLite.

### Fairness

Only what the code schedules by itself is fair, and weakly.

- `DeviceWriter`, `Indexer`: taking a message that is there, the idle timeout of
  `wait_for`, and each call of the executor thread, since the event loop and the
  threads keep running while the process does. Nothing is assumed of arrivals, of
  `stop()`, of failures, or of crashes. `Timeout` is weakly fair and still cannot be
  starved: messages are finitely many.
- `Receiver`: the steps of startup, retry and shutdown, the drains and their last
  flushes, and a callback that was posted to the loop. Not the arrivals, the
  clients' disconnecting, the stop requests, nor the ordinary batches.
  `StopTerminates` has the exception that Python from 3.12 on really has: a client
  that stays connected.
- `IndexReaders`: the polls of a connected client.
- `Retention`: `run()` begins pass after pass, and a pass goes on. Failures
  are bounded by `MaxFailures`, which stands for failing not for ever.

## The proofs

| theorem | says | for every |
|---|---|---|
| `DeviceWriterProofs!Typing`, `Order`, `Offered`, `NoSilentLoss` | `[]TypeOK`, `[]InOrder`, `[]OfferedInOrder`, `[]Accounted` | number of days, messages and process runs, queue and batch limit, with write errors and late producers |
| `DeviceWriterProofs!LinesNotMerged`, `LastFlush` | `[]NoMergedLine`, `LastFlushIsDurable`, if no write fails in a running process | same, without write errors |
| `DeviceWriterProofs!Durability`, `Refinement` | `DurableStays`, `ImplementsDeviceLog` | same, with them |
| `IndexerProofs!Typing`, `Order`, `NoSilentLoss`, `Written`, `Refinement` | `[]TypeOK`, `[]RowsInOrder`, `[]Accounted`, `[]WrittenIsIndexed`, `ImplementsSearchIndex` | number of months, messages and process runs, queue and batch limit, choice of `Faults` |
| `RecoveryProofs!Typing`, `Agreement`, `Rebuilt` | `[]TypeOK`, `[]RecordsAgree`, `[]RebuiltIsTheFiles` | number of devices, days, months and messages, texts and addresses, places where a line is torn, failed writes, INSERTs and COMMITs, crashes, power losses and rebuilds |
| `ReceiverProofs!Typing`, `NoOverlap`, `NothingLost` | `[]TypeOK`, `[]AttemptsDoNotOverlap`, `[]StopLosesNothing` | number of devices, messages and failed attempts, both behaviours of `wait_closed()` |
| `ReceiverHealthProofs!Typing`, `HealthyIsTrue`, `ServingIsHealthy`, `ErrorIsTold` | `[]TypeOK`, `[]HealthyMeansServing`, `[]NoFalseAlarm`, `[]ErrorIsShown` | intervals, slack, set of errors, amounts and number of clock steps |
| `IndexReadersProofs!Typing`, `TailFollows`, `Pages`, `NextPage`, `Devices` | `[]TypeOK`, `[]TailHasNoGap`, `[]PageIsStable`, `[]HasMoreIsRight`, `[]DevicesAreRight` | number of months, times and rows, page size and offset, tail limit, names and addresses |
| `RetentionProofs!Typing`, `RetentionDaysKept`, `ActiveKept` | `[]TypeOK`, `KeepsRetentionDays`, `ActivePartitionKept` | calendar, setting, number of devices and files |
| `AccessProofs!Typing`, `NoSessionOutlivesItsUser`, `AdminStays`, `Revokes` | `[]TypeOK`, `[]SessionsHaveUsers`, `[]AdminRemains`, `[]DeactivationRevokes` | number of threads, ids and tokens |
| `AccessProofs!LimiterTyping`, `AttemptsLimited`, `LocksAreCaused` | `[]LimiterTypeOK`, `[]AttemptsAreLimited`, `[]LockedForCause` | number of handlers and addresses, attempts, window, lock and time |

So every safety property a passing run checks is proved, but for the three that
are about what the parser's recursive functions compute.

The assumptions are the named `ASSUME`s of the modules (positive limits, a
calendar in which a date is not after the end of its month, at least one
retention day, a local date within a day of UTC, texts of the characters `SyslogText`
knows, finitely many threads); TLC evaluates each of them. `LinesNotMerged` and
`LastFlush` assume in addition that no write fails, and say so in their statements.

The arguments:

- `Order`. That files are ordered is not inductive: the next line written could
  be older than the last. The invariant adds that ids grow along the buffer and
  then the queue, that everything in a day's file is older than what still waits
  for that day, and how far the flush under way has come (`todo`, `cur`, `pos`);
  a line that was written is then never written again, even if the flush of
  another day fails.
- `LinesNotMerged`. A text without newline can only be the last of its file, and
  then the file is not in `sanitized`, so `Open` closes it before `WriteLine`.
  The invariant fails exactly where a write error comes in, which is finding 1.
- `Offered`. While the process runs, what was offered is a row of consecutive ids, and
  the queue goes on where it ends (`OfferedUpTo`); the drain offers as the loop does.
- `LastFlush`. It is about the lines of the last flush and no others: lines an earlier
  flush left unsynced in another file stay so, as they do if that buffer is empty.
  Along the flush that ends a run, each day that is done has been synced past every
  line of its messages, and the lines of the current day are in its file as far as the
  thread has come (`LastFlushInv`).
- `NoSilentLoss` of the writer. An id leaves the queue for the buffer, and the buffer
  for a day's file as a whole text or for `failed`; that a flush does not skip one
  is `FlowInv` again.
- `Refinement` of the writer. The mapping takes each file to its entries, `synced` to the durable
  prefix, and the queue with the part of the buffer still to be written to the pending
  messages. `WriteLine` is the step that records a message, and by `OrderInv` it
  is the oldest pending one of its day; `Open`, taking a message and a timeout are
  stutters.
- `Durability`. The synced part is a prefix of the file; appending, cutting and
  closing a tail leave it alone.
- `Order` of the indexer. As for the writer, over the committed rows followed by the
  open transaction (`Rows`): a commit moves the border between the two, a rollback or
  a restart only takes rows away (`Shrinks`).
- `NoSilentLoss` of the indexer. The rows of a batch that have been tried are in the
  transaction or named by `skipped` or `undone` (`TriedInv`).
- `Written`. `stats.written` is at most the number of ids of this run that are
  searchable or undone and not of the batch at hand, and `inserted` at most the
  number of ids of the batch in the transaction or undone (`CountInv`), so that a
  commit adds disjoint sets.
- `Refinement` of the indexer. Two parts of `Pending` are followed apart: `Remaining`,
  in memory, and `Staged`, in a transaction. An INSERT moves a message from the one to
  the other, so it is a stutter; failures and rollbacks take from either. At a commit
  nothing of the month is left untried in the buffer and the queue is newer than any
  row (`RemainingIsNewer`), so the transaction has the month's oldest pending messages,
  and `OrderInv` puts them after the table's.
- `Agreement`. It is inductive together with `Placed` and `RebuildInv`. `Placed`
  says where an id can be: a message has one line at most, in its own file and in no
  buffer then (`LinesInv`), a line is in the buffer once (`BufferInv`), and what a
  failed write left at the end of a file is of a message in `unwritten`
  (`RaggedInv`), so that the line merged with it costs no third message. Each action
  takes an id from where it is to the next place or to a ghost; for a power loss
  `cut` and `unsaved` are by definition what it takes, and the work is to show that
  everything else of every file and table is still there (`LinesLeft`, `LeftRows`).
  `RebuildInv` is needed as a rebuild clears the ghosts of a month: afterwards a message
  has a line to be read or is in `unread` (`UnreadInv`), and every line of a month
  whose files have all been read has its row or is in `skipped`.
- `Rebuilt`. `RowsAre(s, L, k, ms)` says that the rows `s` are those of the lines `L`,
  once each, except for the failures `k` (`ms` are the messages, whose devices name
  the directories). It holds of a month made anew and the files read of it
  (`CommittedInv`), of the transaction and the lines read of the file at hand
  (`ReadingInv`), and appending, committing and a failed INSERT keep it, since files
  have no line in common. Emptying a month is what lets it begin, whatever an earlier
  rebuild left.
- `TailFollows`. The cursor is where the rows shown end and begins where the month
  was seeded (`SeedInv`); a page continues both.
- `Pages`, `NextPage`. A row that was there all along is of a month still to be read,
  or merged, or has more merged rows before it than the page needs (`MergedInv`); the
  limit of each month's query leaves out only such rows (`LeftOutIsBehind`).
- `Devices`. What has been aggregated are the groups of some set of rows of the
  months read, with every row that was there all along (`DevicesInv`); two months'
  groups merge into the groups of their union (`GroupsMerge`).
- `NoOverlap`, `NothingLost`. What `stop()` relies on is spread over the sockets, the
  handlers, the writers and the indexer, and the invariant has a part for each:
  a failed attempt had no TCP server and so has no handlers (`Sockets`), so every
  writer there is was told to stop, and those told have returned when the indexer's
  turn comes (`Told`, `IndexerLast`). On top of that `Messages` follows each punctual
  message: it is on a queue, or written and offered, and whoever has it (`InGoodHands`)
  is somebody `stop()` still waits for.
- `HealthyIsTrue`. The time in a file that says running was a moment of serving, and
  the wall clock is at most `back` behind what it was (`HeartbeatIsTrue`).
- `ServingIsHealthy`. Without a failed write or a forward step the file is no older
  than the last heartbeat, and a timer is at most `Slack` late (`HeartbeatIsFresh`).
- `ErrorIsTold`. `lastError` and `errorSince` are the last failure and the first of its
  row, whatever writes failed (`MemoryIsTrue`); the file has them when the last write
  worked (`FileIsTrue`).
- `RetentionDaysKept`, `ActiveKept`. What is left of a pass's list ended before
  `today - keep`, with `today <= now + 1`, and the clock only moves on. Since
  `keep >= 1`, the month being deleted ended before today in UTC as well. The
  one day of retention that the settings page insists on is exactly
  what makes the local calendar harmless.
- `AdminStays`. `AdminRemains` says nothing of handlers that have decided and not yet
  written. `SafeDecisions` does: without a race, carrying out any pending
  decision leaves an active admin. A write makes that false for other pending
  decisions, and is then itself a race.
- `Revokes`. `LateIsRevoked`: a request that began too late, and whose id was not
  given to another since (`reused`), has not passed the check, and its user is still
  inactive or gone, since nothing activates a user again.
- `AttemptsLimited`. A failure within the last window is still in the limiter's list, or
  a lock outlasts its window and the failures after it were of handlers already past
  the check, one each (`Open`). The limiter's list is the recent end of `history`
  (`Recent`).
- `LocksAreCaused`. A lock is set when the list, all within the window, has
  `max_attempts` entries (`Caused`), and a success empties list and history alike.

Out of the prover's reach, and left to TLC: liveness under fairness, anything
about ENABLED, and induction over data, so also everything about what `Parser`'s
recursive functions compute. No module here declares a
RECURSIVE operator; the largest id of a table is characterised instead of
computed (`NextIds`) for the same reason.

Model-checked only: `SentIsRead`, `NothingIsDropped` and `RebuiltRowIsLiveRow`, which
compare the parser with the grammars, and every liveness property.

## Not modelled

- Passwords and CSRF tokens: a wrong one ends a request without a change. Resetting
  a password changes no row the properties speak of.
- The text of full-text queries, HTML, the parsing of bounds and parameters, and the
  filters of a search other than its times.
- Digits of timestamps, and tabs.
- Reading configuration, the application shell, packaging: wiring that keeps no
  state of its own beyond the first-run bootstrap, which `Accounts` has.
- The Windows services of the retention manager and the web application: the same
  text around another `run()`.
- In `Receiver`, how much of an oversized TCP line is dropped.
- The exact duration of the timers of the writer, the indexer and the retries of
  startup: a timeout may come at any moment when it could. `ReceiverHealth` has those
  its properties are about.
- How long fsync is overdue: a flush finds the interval passed or not.
- In `Receiver`, a `server.stop()` that raises while a failed start is cleaned up
  (`main.py:63-66` logs it and goes on): writers and indexer do not fail there, and
  `Indexer` has what becomes of one that does.
- In `Indexer`, messages offered after `stop()`: the receiver stops its writers first,
  and `Receiver` has that order.
- In `IndexReaders`, a month that goes between the check for its file and the opening
  of it in the same poll (`messages.py:176-178`), which ends the stream with an error.
- In `Retention`, what appears in a month while it is being deleted: the code goes once
  through the files it has listed (`core.py:57-62`, `core.py:70-75`), the model goes on
  until the month is empty. The two differ only if the receiver makes a day file in a
  month that has expired.
- In `Recovery`, a deletion of a database that a power loss undoes: it is on the disk
  when the file system's journal is, before what is written to the new one.

## Plan

What is left, in the order of what it would add:

1. A small module for the framing of TCP lines, with the stream's buffer, for the
   oversized line above.
2. `IndexReaders` over `SearchIndex`: its `CommitRow` and `DropMonth` as steps of one
   abstract index with deletion, so that readers, indexer and retention share one
   specification of it.

## Running

    tlc -workers 2 -config DeviceWriter.cfg DeviceWriter.tla
    tlc -workers 2 -config IndexReaders.cfg MCIndexReaders.tla
    tlc -workers 2 -config ReceiverHealth.cfg MCReceiverHealth.tla
    tlc -workers 2 -config Recovery.cfg MCRecovery.tla
    tlc -workers 2 -config Retention.cfg MCRetention.tla
    tlapm ReceiverProofs.tla

The other configurations are named after their modules. `index_readers`,
`device_writer_errors` and `recovery` take one and a half to two and a half minutes on
two cores, each other run about a minute or less; `RecoveryProofs` takes about three
minutes, every other proof module less.
