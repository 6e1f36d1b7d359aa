---------------------------- MODULE IndexReaders ----------------------------
(***************************************************************************)
(* The webapp's readers of the monthly databases: the live tail            *)
(* (_tail_generator and _poll_new_rows in sylo/webapp/routes/messages.py), *)
(* the search and the list of devices (search_messages and list_devices in *)
(* sylo/webapp/queries.py).  They open a short-lived connection per read   *)
(* and keep nothing locked in between, while the indexer of one process    *)
(* creates databases and commits rows, and the retention manager of        *)
(* another deletes databases.                                              *)
(*                                                                         *)
(* A row is its receipt time; a table is the sequence of its rows in the   *)
(* order of their ids, which need not be the order of their times.  Month  *)
(* m holds the times (m-1)*Slots+1 .. m*Slots.                             *)
(*                                                                         *)
(* Definitions whose names begin with Bad are faulty variants of the ones  *)
(* that follow them, used only to see the properties fail.                 *)
(***************************************************************************)
EXTENDS Naturals, Sequences, FiniteSets

CONSTANTS
    LastMonth,  \* bound: months 1..LastMonth
    Slots,      \* bound: distinct receipt times in a month
    MaxRows,    \* bound: rows in all
    Unseeded,   \* the cursor None
    TailLimit,  \* LIMIT of a poll
    Recent,     \* recent_months_scanned
    Offsets,    \* offsets a client asks for
    Limits,     \* page sizes
    Bounds,     \* start and end times a client filters by; 0: no bound
    NoHost,     \* no host was parsed
    HostOf,     \* [Times -> names]: the host of the row of each time
    AddressOf   \* [Times -> names]: its source_ip

Months == 1..LastMonth
Times == 1..(LastMonth * Slots)

ASSUME IndexReadersAssumption ==
    /\ LastMonth \in Nat \ {0}
    /\ Slots \in Nat \ {0}
    /\ MaxRows \in Nat
    /\ Unseeded \notin Nat
    /\ TailLimit \in Nat \ {0}
    /\ Recent \in Nat \ {0}
    /\ Offsets \subseteq Nat
    /\ Limits \subseteq Nat \ {0}
    /\ Bounds \subseteq {0} \cup Times
    /\ DOMAIN HostOf = Times
    /\ DOMAIN AddressOf = Times

VARIABLES
    month,      \* the current UTC month
    file,       \* per month: no database, one without schema, a ready one
    table,      \* per month, its committed rows
    tail,       \* the live tail: idle, or read: about to query a database
    polled,     \* the month whose database it is about to query, or 0
    cursor,     \* last_id_by_month
    seed,       \* per month, the cursor of the first poll
    shown,      \* per month, ids of the rows sent to the client, in order
    gone,       \* months the retention manager has deleted
    query,      \* what a handler is doing: idle, search, devices
    offset,     \* the parameters of a search
    limit,
    range,      \* its start and end
    scan,       \* months it has not read yet
    at,         \* the month whose file it has found, or 0
    merged,     \* rows a search has read so far
    aggregated, \* devices it has found so far
    \* Ghosts.
    scope,      \* months it set out to read
    always,     \* rows it asks for that are there since it began
    ever        \* rows it asks for that were there at any time

clock  == <<month, file, table, gone>>
tailer == <<tail, polled, cursor, seed, shown>>
asked  == <<query, offset, limit, range, scope>>
found  == <<scan, at, merged, aggregated>>
reader == <<asked, found, always, ever>>
vars == <<clock, tailer, reader>>

MonthOf(t) == ((t - 1) \div Slots) + 1

Rows(m) == {table[m][i] : i \in DOMAIN table[m]}

AllRows == UNION {Rows(m) : m \in Months}

-----------------------------------------------------------------------------
Init ==
    /\ month = 1
    /\ file = [m \in Months |-> "none"]
    /\ table = [m \in Months |-> <<>>]
    /\ tail = "idle"
    /\ polled = 0
    /\ cursor = [m \in Months |-> Unseeded]
    /\ seed = [m \in Months |-> Unseeded]
    /\ shown = [m \in Months |-> <<>>]
    /\ gone = {}
    /\ query = "idle"
    /\ offset = 0
    /\ limit = 0
    /\ range = [start |-> 0, end |-> 0]
    /\ scan = {}
    /\ at = 0
    /\ merged = {}
    /\ aggregated = <<>>
    /\ scope = {}
    /\ always = {}
    /\ ever = {}

-----------------------------------------------------------------------------
(***************************************************************************)
(* The indexer and the clock.                                              *)
(***************************************************************************)

MonthBegins ==
    /\ month < LastMonth
    /\ month' = month + 1
    /\ UNCHANGED <<file, table, gone, tailer, reader>>

\* The indexer opens a month's first connection, then applies the schema.
CreateDatabase ==
    /\ \E m \in (1..month) \ gone :
          \/ file[m] = "none" /\ file' = [file EXCEPT ![m] = "empty"]
          \/ file[m] = "empty" /\ file' = [file EXCEPT ![m] = "ready"]
    /\ UNCHANGED <<month, table, gone, tailer, reader>>

\* The filter of _build_query.
Matches(t, r) ==
    /\ r.start # 0 => t >= r.start
    /\ r.end # 0 => t <= r.end

\* The indexer commits a row of this month, or a late one of the last.
CommitRow ==
    /\ Cardinality(AllRows) < MaxRows
    /\ \E t \in Times \ AllRows :
          /\ MonthOf(t) \in {month, month - 1} \ gone
          /\ file[MonthOf(t)] = "ready"
          /\ table' = [table EXCEPT ![MonthOf(t)] = Append(@, t)]
          /\ ever' = ever \cup {u \in {t} : MonthOf(u) \in scope /\ Matches(u, range)}
    /\ UNCHANGED <<month, file, gone, tailer, asked, found, always>>

\* The retention manager deletes the database of a month that is over, and
\* with it an empty one that a reader has made since.
DropMonth ==
    /\ \E m \in 1..(month - 1) :
          /\ file[m] # "none"
          /\ polled # m
          /\ file' = [file EXCEPT ![m] = "none"]
          /\ table' = [table EXCEPT ![m] = <<>>]
          /\ gone' = gone \cup {m}
          /\ always' = always \ Rows(m)
    /\ UNCHANGED <<month, tailer, asked, found, ever>>

-----------------------------------------------------------------------------
(***************************************************************************)
(* The live tail.                                                          *)
(***************************************************************************)

\* A round of the generator: the month of now, if it has a file.
BeginPoll ==
    /\ tail = "idle"
    /\ file[month] # "none"
    /\ tail' = "read"
    /\ polled' = month
    /\ UNCHANGED <<clock, cursor, seed, shown, reader>>

\* Faulty: a cursor of 0 counts as unseeded.
BadFirstPoll(m) == cursor[m] \in {Unseeded, 0}

\* last_id is None.
FirstPoll(m) == cursor[m] = Unseeded

\* rows[-1]["id"] if rows else last_id.
NewCursor(m, rows) ==
    IF rows = {} THEN cursor[m] ELSE cursor[m] + Cardinality(rows)

\* The first poll of a month takes the highest id and sends nothing.
SeedTail ==
    /\ tail = "read"
    /\ file[polled] = "ready"
    /\ FirstPoll(polled)
    /\ cursor' = [cursor EXCEPT ![polled] = Len(table[polled])]
    /\ seed' = [seed EXCEPT ![polled] =
                    IF @ = Unseeded THEN Len(table[polled]) ELSE @]
    /\ tail' = "idle"
    /\ polled' = 0
    /\ UNCHANGED <<clock, shown, reader>>

\* Faulty: a full page counts as too much at once and is polled again.
BadSendRows ==
    /\ tail = "read"
    /\ file[polled] = "ready"
    /\ ~FirstPoll(polled)
    /\ LET rows == {i \in DOMAIN table[polled] :
                       /\ i > cursor[polled]
                       /\ i <= cursor[polled] + TailLimit}
       IN IF Cardinality(rows) = TailLimit
          THEN UNCHANGED <<shown, cursor>>
          ELSE /\ shown' = [shown EXCEPT ![polled] =
                     @ \o [k \in 1..Cardinality(rows) |-> cursor[polled] + k]]
               /\ cursor' = [cursor EXCEPT ![polled] = NewCursor(polled, rows)]
    /\ tail' = "idle"
    /\ polled' = 0
    /\ UNCHANGED <<clock, seed, reader>>

\* A later poll sends the rows above the cursor, at most TailLimit of them.
SendRows ==
    /\ tail = "read"
    /\ file[polled] = "ready"
    /\ ~FirstPoll(polled)
    /\ LET rows == {i \in DOMAIN table[polled] :
                       /\ i > cursor[polled]
                       /\ i <= cursor[polled] + TailLimit}
       IN /\ shown' = [shown EXCEPT ![polled] =
                @ \o [k \in 1..Cardinality(rows) |-> cursor[polled] + k]]
          /\ cursor' = [cursor EXCEPT ![polled] = NewCursor(polled, rows)]
    /\ tail' = "idle"
    /\ polled' = 0
    /\ UNCHANGED <<clock, seed, reader>>

\* The stream ends: the database has no table yet and the poll raises, or the
\* client goes away.  The client's next stream starts from scratch.
Reconnect ==
    /\ \/ tail = "read" /\ file[polled] = "empty"
       \/ tail = "idle" /\ \E m \in Months : cursor[m] # Unseeded
    /\ tail' = "idle"
    /\ polled' = 0
    /\ cursor' = [m \in Months |-> Unseeded]
    /\ seed' = [m \in Months |-> Unseeded]
    /\ shown' = [m \in Months |-> <<>>]
    /\ UNCHANGED <<clock, reader>>

-----------------------------------------------------------------------------
(***************************************************************************)
(* The search and the list of devices.                                     *)
(***************************************************************************)

\* _available_month_keys.
Available == {m \in Months : file[m] # "none"}

\* available[: recent_months_scanned].
RecentMonths == {m \in Available : Cardinality({n \in Available : n > m}) < Recent}

NoRange == [start |-> 0, end |-> 0]

\* _relevant_month_keys: the most recent months, or all months of the range.
Relevant(r) ==
    IF r = NoRange
    THEN RecentMonths
    ELSE {m \in Available : /\ r.start = 0 \/ m >= MonthOf(r.start)
                            /\ r.end = 0 \/ m <= MonthOf(r.end)}

\* Place of t among the rows of S, newest first.
Rank(t, S) == Cardinality({u \in S : u > t})

Newest(S) == CHOOSE t \in S : Rank(t, S) = 0

\* Faulty: no row beyond the page is asked for.
BadPerMonthLimit == offset + limit

\* per_month_limit.
PerMonthLimit == offset + limit + 1

\* What a query of month m returns: the newest rows that match.
Top(m) ==
    LET S == {t \in Rows(m) : Matches(t, range)}
    IN {t \in S : Rank(t, S) < PerMonthLimit}

\* The rows a request is about are those of the months it lists; of a range,
\* those of every month there is.
Begin(months, all) ==
    /\ query = "idle"
    /\ scan' = months
    /\ scope' = all
    /\ always' = {t \in UNION {Rows(m) : m \in all} : Matches(t, range')}
    /\ ever' = always'
    /\ UNCHANGED <<clock, tailer, at, merged, aggregated>>

\* A request to search: the months are listed once.
BeginSearch ==
    /\ query' = "search"
    /\ offset' \in Offsets
    /\ limit' \in Limits
    /\ range' \in [start : Bounds, end : Bounds]
    /\ Begin(Relevant(range'), IF range' = NoRange THEN RecentMonths ELSE Available)

\* A request that lists the devices.
BeginDevices ==
    /\ query' = "devices"
    /\ UNCHANGED <<offset, limit, range>>
    /\ Begin(RecentMonths, RecentMonths)

\* COALESCE(host, source_ip).
DeviceKey(t) == IF HostOf[t] = NoHost THEN AddressOf[t] ELSE HostOf[t]

\* A group of the rows S of one device: SQLite takes the bare columns from the
\* row that has the MAX().
Device(S) ==
    LET t == Newest(S)
    IN [source_ip |-> AddressOf[t], host |-> HostOf[t], last_seen |-> t,
        message_count |-> Cardinality(S)]

GroupsOf(rows) ==
    [k \in {DeviceKey(t) : t \in rows} |-> Device({t \in rows : DeviceKey(t) = k})]

\* Faulty: what the last month says of a device replaces the rest.
BadMergedDevice(old, new) == [new EXCEPT !.message_count = @ + old.message_count]

\* A device that two months have: its columns are those of its later row.
MergedDevice(old, new) ==
    LET count == old.message_count + new.message_count
    IN IF new.last_seen > old.last_seen
       THEN [new EXCEPT !.message_count = count]
       ELSE [old EXCEPT !.message_count = count]

Aggregated(old, new) ==
    [k \in DOMAIN old \cup DOMAIN new |->
        IF k \notin DOMAIN new THEN old[k]
        ELSE IF k \notin DOMAIN old THEN new[k] ELSE MergedDevice(old[k], new[k])]

\* The next month, newest first: passed over if its file has gone.
FindMonth ==
    /\ at = 0
    /\ \E m \in scan :
          /\ \A n \in scan : n <= m
          /\ IF file[m] = "none"
             THEN scan' = scan \ {m} /\ at' = 0
             ELSE scan' = scan /\ at' = m
    /\ UNCHANGED <<clock, tailer, asked, merged, aggregated, always, ever>>

\* Faulty: an OperationalError ends the request.
BadRemaining == IF file[at] = "ready" THEN scan \ {at} ELSE {}

\* The months after the one that is read, be it with an error.
Remaining == scan \ {at}

\* Its database is opened and read.  connect() makes an empty one of a file
\* that went away since; one without a table raises OperationalError and is
\* passed over, so it adds nothing.
ReadMonth ==
    /\ at # 0
    /\ file' = [file EXCEPT ![at] = IF @ = "none" THEN "empty" ELSE @]
    /\ scan' = Remaining
    /\ at' = 0
    /\ merged' = IF query = "search" THEN merged \cup Top(at) ELSE merged
    /\ aggregated' = IF query = "devices"
                     THEN Aggregated(aggregated, GroupsOf(Rows(at)))
                     ELSE aggregated
    /\ UNCHANGED <<month, table, gone, tailer, asked, always, ever>>

Done == query # "idle" /\ scan = {}

\* The response is sent.
Respond ==
    /\ Done
    /\ query' = "idle"
    /\ offset' = 0
    /\ limit' = 0
    /\ range' = NoRange
    /\ merged' = {}
    /\ aggregated' = <<>>
    /\ scope' = {}
    /\ always' = {}
    /\ ever' = {}
    /\ UNCHANGED <<clock, tailer, scan, at>>

\* merged[offset : offset + limit], newest first.
Page == {t \in merged : Rank(t, merged) \in offset..(offset + limit - 1)}

HasMore == Cardinality(merged) > offset + limit

-----------------------------------------------------------------------------
Next ==
    \/ MonthBegins
    \/ CreateDatabase
    \/ CommitRow
    \/ DropMonth
    \/ BeginPoll
    \/ SeedTail
    \/ SendRows
    \/ Reconnect
    \/ BeginSearch
    \/ BeginDevices
    \/ FindMonth
    \/ ReadMonth
    \/ Respond

Spec == Init /\ [][Next]_vars

\* The generator polls for as long as the client is there.
Fairness ==
    /\ WF_vars(BeginPoll)
    /\ WF_vars(SeedTail)
    /\ WF_vars(SendRows)

FairSpec == Spec /\ Fairness

-----------------------------------------------------------------------------
(***************************************************************************)
(* Properties.                                                             *)
(***************************************************************************)

\* Types; aggregated is left out, a function from names to the records of
\* Device.
TypeOK ==
    /\ month \in Months
    /\ file \in [Months -> {"none", "empty", "ready"}]
    /\ table \in [Months -> Seq(Times)]
    /\ tail \in {"idle", "read"}
    /\ polled \in {0} \cup Months
    /\ tail = "read" => polled # 0
    /\ cursor \in [Months -> Nat \cup {Unseeded}]
    /\ seed \in [Months -> Nat \cup {Unseeded}]
    /\ shown \in [Months -> Seq(Nat)]
    /\ gone \subseteq Months
    /\ query \in {"idle", "search", "devices"}
    /\ offset \in Nat
    /\ limit \in Nat
    /\ range \in [start : {0} \cup Times, end : {0} \cup Times]
    /\ scan \subseteq Months
    /\ at \in {0} \cup Months
    /\ merged \subseteq Times
    /\ scope \subseteq Months
    /\ always \subseteq Times
    /\ ever \subseteq Times

\* From its first poll of a month on, the live tail sends every row of that
\* month up to its cursor, each once and in the order of the ids: nothing
\* between two polls is skipped (messages.py, lines 141-146) and no page limit
\* loses a row.
TailHasNoGap ==
    \A m \in Months :
        cursor[m] # Unseeded =>
            /\ seed[m] + Len(shown[m]) = cursor[m]
            /\ \A i \in DOMAIN shown[m] : shown[m][i] = seed[m] + i

\* A page read while rows are committed and a month is deleted is as good as
\* one of a single moment: its rows match, none that ranks before the page all
\* along is in it, and none that ranks inside it all along is missing.  With
\* no change in between the page is exact.
PageIsStable ==
    Done /\ query = "search" =>
        /\ \A t \in Page : /\ t \in ever
                           /\ Rank(t, ever) >= offset
                           /\ Rank(t, always) < offset + limit
        /\ \A t \in always :
              Rank(t, always) >= offset /\ Rank(t, ever) < offset + limit
                  => t \in Page

\* The "next page" link: it is there if there were all along more rows than the
\* page shows, and not if there were never.
HasMoreIsRight ==
    Done /\ query = "search" =>
        /\ Cardinality(always) > offset + limit => HasMore
        /\ HasMore => Cardinality(ever) > offset + limit

\* The list of devices has each device once, by its host or, without one, its
\* address, whatever months know of it and whatever happens to them meanwhile:
\* its count is one of the times of the request, and what is shown with it is
\* that of its latest row.
DevicesAreRight ==
    Done /\ query = "devices" =>
        /\ {DeviceKey(t) : t \in always} \subseteq DOMAIN aggregated
        /\ \A k \in DOMAIN aggregated :
              LET d == aggregated[k]
                  known(S) == {t \in S : DeviceKey(t) = k}
              IN /\ d.last_seen \in known(ever)
                 /\ \A t \in known(always) : t <= d.last_seen
                 /\ d.message_count \in
                       Cardinality(known(always))..Cardinality(known(ever))
                 /\ d.source_ip = AddressOf[d.last_seen]
                 /\ d.host = HostOf[d.last_seen]

\* A row committed to a month the tail follows is sent while the month lasts
\* and the client stays.
RowsAreShown ==
    \A m \in Months, n \in 1..MaxRows :
        (cursor[m] # Unseeded /\ Len(table[m]) >= n)
            ~> (cursor[m] = Unseeded \/ cursor[m] >= n \/ month # m)
=============================================================================
