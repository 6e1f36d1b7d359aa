------------------------------ MODULE Recovery ------------------------------
(***************************************************************************)
(* The two records of a message, its line in a day file and its row in the *)
(* index, through crashes, and the command that makes the index anew from  *)
(* the day files: rebuild_indexer() in sylo/indexer/rebuild.py.            *)
(*                                                                         *)
(* A device's writer parses each message, puts it in its buffer and offers *)
(* it to the indexer; lines reach the file one after the other, rows reach *)
(* the database by commits, in no order between the two; either may fail.  *)
(* How, is in modules DeviceWriter and Indexer; here a write has one line. *)
(* Module Parser reads the texts.                                          *)
(*                                                                         *)
(* Definitions whose names begin with Bad are faulty variants, used only   *)
(* to see the properties fail.                                             *)
(***************************************************************************)
EXTENDS SyslogText

CONSTANTS
    Devices,    \* the devices, as numbers in the order of their directories
    Address,    \* [Devices -> sequences of characters]: the source_ip of each
    Days,       \* the names of day files, as numbers in their order
    Months,
    MonthOf,    \* [Days -> Months]: the first seven characters of the name
    Corpus,     \* sequences of what may come: a device, the day, the message
    CutAt,      \* where a line may be torn: how many characters of the text are
                \* left, or InStamp
    MaxFailures,\* bound: lines given up as the write failed
    MaxCrashes, \* bound: ends of the receiver and power losses
    MaxRebuilds \* bound: times the command is started

\* All that may come.
Arrivals == UNION {ToSet(s) : s \in Corpus}

ASSUME RecoveryAssumption ==
    /\ Devices \cup Days \subseteq Nat
    /\ Address \in [Devices -> Seq(STRING)]
    /\ MonthOf \in [Days -> Months]
    /\ CutAt \subseteq Int
    /\ Corpus \subseteq Seq(Arrivals)
    /\ \A m \in Arrivals : /\ m.device \in Devices /\ m.day \in Days
                           /\ m.is.raw \in [pri : Int, text : Seq(Chars)]

VARIABLES
    sent,       \* what comes in this behaviour
    msgs,       \* messages a writer has taken so far: device, day, what it is
    buffer,     \* per device, ids of messages not yet in their file
    offered,    \* ids the indexer has in its queue or its batch
    inserted,   \* per month, the rows of its open transaction
    made,       \* the day files there are, empty ones included
    file,       \* per device and day, its lines
    tail,       \* per device and day: "clean" if this process has written the
                \* file; "ragged" if since then a failed write has left a part
                \* of a line at its end; else "unknown"
    table,      \* per month, the committed rows
    stage,      \* "live", "down" or "rebuild"
    months,     \* the months the command was given
    todo,       \* day files it has not read yet
    opened,     \* months whose database it has made anew
    at,         \* how many lines of the next of them it has read
    tx,         \* the rows it has inserted since its last commit
    crashes, rebuilds,
    \* Ghosts: the ids of messages whose line is not, or not whole, in its file
    cut,        \* as the receiver ended before, or a power loss took it
    unwritten,  \* as the write failed
    merged,     \* as it was appended to what a failed write had left
    \* and of those whose row is not in the index
    refused,    \* as the queue of the indexer was full
    skipped,    \* as it could not be inserted, or its transaction was taken back
    unsaved,    \* as the receiver ended before, or a power loss took it
    unread,     \* as no file had a line to make it of when the month was made anew
    \* and the months
    half,       \* the command was given, and has made anew in part
    restored    \* it has finished since the receiver last ran or power was lost

written == <<made, file, tail>>
receiver == <<msgs, buffer, offered, inserted, written>>
lines_lost == <<cut, unwritten, merged>>
rows_lost == <<refused, skipped, unsaved, unread>>
command == <<months, todo, opened, at, tx>>
bounds == <<crashes, rebuilds>>
vars == <<sent, receiver, table, stage, command, bounds, lines_lost, rows_lost,
          half, restored>>

Files == Devices \X Days

\* Directories cannot have a colon in their name on Windows.
_sanitize_device_key(ip) == [i \in DOMAIN ip |-> IF ip[i] = ":" THEN "_" ELSE ip[i]]

\* The name of the directory a file is in.
Directory(f) == _sanitize_device_key(Address[f[1]])

\* A line: whose it is, its text, and whether the text is all of it.  A line
\* torn in its timestamp has no text.
Line(id) == [id |-> id, raw |-> to_line(msgs[id].is.raw), whole |-> TRUE]

InStamp == -1
NoText == [pri |-> NoPri, text |-> None]

Torn(line, k) ==
    IF k = InStamp \/ line.raw = NoText
    THEN [line EXCEPT !.raw = NoText, !.whole = FALSE]
    ELSE LET n == Min({k, Len(line.raw.text)})
         IN [line EXCEPT !.raw.text = SubSeq(@, 1, n),
                         !.whole = @ /\ n = Len(line.raw.text)]

\* What comes before a line's text, as characters: the time and the number of
\* the priority.
Stamp == <<"1", "-", "1", ":", "1">>
Priority == <<"a", "1", "a">>

\* A line whose break is missing, with the next one after it.  It goes by the
\* message it begins with; if that is torn in its timestamp the text is the
\* other's.
Merged(line, next) ==
    [id |-> line.id,
     raw |-> IF line.raw = NoText THEN next.raw
             ELSE [line.raw EXCEPT !.text =
                       @ \o (IF next.raw = NoText THEN Stamp
                             ELSE Stamp \o <<"sp">> \o Priority \o next.raw.text)],
     whole |-> FALSE]

Row(id, source_ip, fields) == [id |-> id, source_ip |-> source_ip, is |-> fields]

\* MessageEnvelope.from_raw(): the fields the writer offers.
from_raw(raw) == _parse_syslog(raw)

Init ==
    /\ sent \in Corpus
    /\ msgs = <<>>
    /\ buffer = [d \in Devices |-> <<>>]
    /\ offered = {}
    /\ inserted = [m \in Months |-> <<>>]
    /\ made = {}
    /\ file = [f \in Files |-> <<>>]
    /\ tail = [f \in Files |-> "unknown"]
    /\ table = [m \in Months |-> <<>>]
    /\ stage = "live"
    /\ months = {}
    /\ todo = {}
    /\ opened = {}
    /\ at = 0
    /\ tx = <<>>
    /\ crashes = 0
    /\ rebuilds = 0
    /\ cut = {} /\ unwritten = {} /\ merged = {}
    /\ refused = {} /\ skipped = {} /\ unsaved = {} /\ unread = {}
    /\ half = {} /\ restored = {}

-----------------------------------------------------------------------------
(***************************************************************************)
(* The receiver.                                                           *)
(***************************************************************************)

Envelope(m) ==
    [device |-> m.device, day |-> m.day, is |-> m.is, row |-> from_raw(m.is.raw)]

\* A writer takes a message: into its buffer, and offered at once, unless the
\* queue of the indexer is full.
Take(d) ==
    /\ stage = "live"
    /\ Len(msgs) < Len(sent)
    /\ LET next == sent[Len(msgs) + 1]
       IN /\ next.device = d
          /\ msgs' = Append(msgs, Envelope(next))
    /\ buffer' = [buffer EXCEPT ![d] = Append(@, Len(msgs) + 1)]
    /\ \/ /\ offered' = offered \cup {Len(msgs) + 1}
          /\ UNCHANGED refused
       \/ /\ offered # {}
          /\ refused' = refused \cup {Len(msgs) + 1}
          /\ UNCHANGED offered
    /\ UNCHANGED <<sent, inserted, written, table, stage, command, bounds,
                   lines_lost, skipped, unsaved, unread, half, restored>>

FileOf(id) == <<msgs[id].device, msgs[id].day>>

MonthFor(id) == MonthOf[msgs[id].day]

Buffered == UNION {ToSet(buffer[d]) : d \in Devices}

IdsOf(rows) == {r.id : r \in ToSet(rows)}

Inserted == UNION {IdsOf(inserted[m]) : m \in Months}

\* The files with one more line at the end of f.
Put(f, line) ==
    [file EXCEPT ![f] = IF tail[f] = "ragged"
                        THEN Append(Front(@), Merged(Last(@), line))
                        ELSE Append(@, line)]

\* The next line of a flush.  The first write of a process to a file ends the
\* line that was torn before; later ones do not look.
WriteLine(d) ==
    /\ stage = "live"
    /\ buffer[d] # <<>>
    /\ LET id == Head(buffer[d])
           f == FileOf(id)
       IN /\ made' = made \cup {f}
          /\ file' = Put(f, Line(id))
          /\ tail' = [tail EXCEPT ![f] = "clean"]
          /\ merged' = IF tail[f] = "ragged" THEN merged \cup {id} ELSE merged
    /\ buffer' = [buffer EXCEPT ![d] = Tail(@)]
    /\ UNCHANGED <<sent, msgs, offered, inserted, table, stage, command, bounds,
                   cut, unwritten, rows_lost, half, restored>>

\* The write fails, and the line is given up; a part of it may be in the file.
\* (When it is the fsync that fails all of it is there, as after WriteLine.)
WriteFails(d) ==
    /\ stage = "live"
    /\ Cardinality(unwritten) < MaxFailures
    /\ buffer[d] # <<>>
    /\ LET id == Head(buffer[d])
           f == FileOf(id)
       IN /\ \/ /\ made' \in {made, made \cup {f}}
                /\ UNCHANGED <<file, tail>>
             \/ /\ made' = made \cup {f}
                /\ \E k \in CutAt : file' = Put(f, Torn(Line(id), k))
                /\ tail' = [tail EXCEPT ![f] = IF @ = "unknown" THEN @ ELSE "ragged"]
          /\ unwritten' = unwritten \cup {id}
    /\ buffer' = [buffer EXCEPT ![d] = Tail(@)]
    /\ UNCHANGED <<sent, msgs, offered, inserted, table, stage, command, bounds,
                   cut, merged, rows_lost, half, restored>>

\* The row of a message as the indexer inserts it.
LiveRow(id) == Row(id, Address[msgs[id].device], msgs[id].row)

\* The indexer inserts the row of the next message of a month.  If that fails
\* the row is left out, and the open transaction may be taken back too.
_insert_batch(id) ==
    /\ stage = "live"
    /\ id \in offered
    /\ \A other \in offered : MonthFor(other) = MonthFor(id) => id <= other
    /\ offered' = offered \ {id}
    /\ LET m == MonthFor(id)
       IN \/ /\ inserted' = [inserted EXCEPT ![m] = Append(@, LiveRow(id))]
             /\ UNCHANGED skipped
          \/ /\ skipped' = skipped \cup {id}
             /\ UNCHANGED inserted
          \/ /\ skipped' = skipped \cup {id} \cup IdsOf(inserted[m])
             /\ inserted' = [inserted EXCEPT ![m] = <<>>]
    /\ UNCHANGED <<sent, msgs, buffer, written, table, stage, command, bounds,
                   lines_lost, refused, unsaved, unread, half, restored>>

\* It commits what it inserted.  If that fails the rows are taken back; or they
\* wait for the next commit, and nothing changes here.
Commit(m) ==
    /\ stage = "live"
    /\ inserted[m] # <<>>
    /\ inserted' = [inserted EXCEPT ![m] = <<>>]
    /\ \/ /\ table' = [table EXCEPT ![m] = @ \o inserted[m]]
          /\ UNCHANGED skipped
       \/ /\ skipped' = skipped \cup IdsOf(inserted[m])
          /\ UNCHANGED table
    /\ UNCHANGED <<sent, msgs, buffer, offered, written, stage, command, bounds,
                   lines_lost, refused, unsaved, unread, half, restored>>

\* The receiver is gone, and everything it had in memory.
Gone ==
    /\ crashes < MaxCrashes
    /\ crashes' = crashes + 1
    /\ stage' = "down"
    /\ buffer' = [d \in Devices |-> <<>>]
    /\ offered' = {}
    /\ inserted' = [m \in Months |-> <<>>]
    /\ tail' = [f \in Files |-> "unknown"]

\* The receiver ends, by a stop or a kill: of one line being written a part is
\* left.
Ends ==
    /\ stage = "live"
    /\ Gone
    /\ \/ UNCHANGED <<made, file>>
       \/ \E d \in Devices, k \in CutAt :
             /\ buffer[d] # <<>>
             /\ LET id == Head(buffer[d])
                IN /\ made' = made \cup {FileOf(id)}
                   /\ file' = Put(FileOf(id), Torn(Line(id), k))
    /\ cut' = cut \cup Buffered
    /\ unsaved' = unsaved \cup offered \cup Inserted
    /\ UNCHANGED <<sent, msgs, table, command, rebuilds, unwritten, merged,
                   refused, skipped, unread, half, restored>>

\* What a power loss may leave of the lines of a file, or of the rows of a
\* month: an end of them was not on the disk yet.
Left(s) == {SubSeq(s, 1, n) : n \in 0..Len(s)}

LeftOfFile(s) ==
    Left(s) \cup {Append(SubSeq(s, 1, n - 1), Torn(s[n], k)) :
                      n \in DOMAIN s, k \in CutAt}

\* The machine loses power: every file may lose its last lines and a part of
\* another, and every database its last commits, as neither is synced to the
\* disk each time.  Where the synced part ends is left open.
PowerLoss ==
    /\ Gone
    /\ \E left \in [made -> UNION {LeftOfFile(file[f]) : f \in made}] :
          /\ \A f \in made : left[f] \in LeftOfFile(file[f])
          /\ file' = [f \in Files |-> IF f \in made THEN left[f] ELSE <<>>]
    /\ table' \in [Months -> UNION {Left(table[m]) : m \in Months}]
    /\ \A m \in Months : table'[m] \in Left(table[m])
    /\ at' = 0
    /\ tx' = <<>>
    /\ cut' = cut \cup Buffered
               \cup UNION {{l.id : l \in ToSet(file[f]) \ ToSet(file'[f])} : f \in Files}
    /\ unsaved' = unsaved \cup offered \cup Inserted
                   \cup UNION {IdsOf(table[m]) \ IdsOf(table'[m]) : m \in Months}
    /\ restored' = {}
    /\ UNCHANGED <<sent, msgs, made, months, todo, opened, rebuilds, unwritten,
                   merged, refused, skipped, unread, half>>

Restart ==
    /\ stage = "down"
    /\ stage' = "live"
    /\ restored' = {}
    /\ UNCHANGED <<sent, receiver, table, command, bounds, lines_lost, rows_lost,
                   half>>

-----------------------------------------------------------------------------
(***************************************************************************)
(* rebuild_indexer(), while the receiver is stopped.                       *)
(***************************************************************************)

\* Faulty: every month.
BadAsked(ms) == made

\* The day files of the months ms.
Asked(ms) == {f \in made : MonthOf[f[2]] \in ms}

RebuildStarts ==
    /\ stage = "down"
    /\ rebuilds < MaxRebuilds
    /\ rebuilds' = rebuilds + 1
    /\ stage' = "rebuild"
    /\ months' \in (SUBSET Months) \ {{}}
    /\ todo' = Asked(months')
    /\ opened' = {}
    /\ UNCHANGED <<sent, receiver, table, at, tx, crashes, lines_lost, rows_lost,
                   half, restored>>

\* The next file, device by device and then day by day.
NextFile(f) ==
    /\ f \in todo
    /\ \A g \in todo : f[1] < g[1] \/ (f[1] = g[1] /\ f[2] <= g[2])

\* Faulty: the old database is kept.
BadEmptied(m) == table

\* The database of a month is deleted, and made with the schema.
Emptied(m) == [table EXCEPT ![m] = <<>>]

\* Ids whose line has something to parse.
Readable ==
    {id \in DOMAIN msgs : \E l \in ToSet(file[FileOf(id)]) : l.id = id /\ l.raw # NoText}

\* The first file of a month makes its database anew.  What rows were lost for
\* does not matter any more, only what there is to read.
OpenMonth(f) ==
    /\ stage = "rebuild"
    /\ NextFile(f)
    /\ MonthOf[f[2]] \notin opened
    /\ LET m == MonthOf[f[2]]
           others == {id \in DOMAIN msgs : MonthFor(id) # m}
       IN /\ opened' = opened \cup {m}
          /\ table' = Emptied(m)
          /\ restored' = restored \ {m}
          /\ half' = half \cup ({m} \cap months)
          /\ refused' = refused \cap others
          /\ skipped' = skipped \cap others
          /\ unsaved' = unsaved \cap others
          /\ unread' = (unread \cap others) \cup (DOMAIN msgs \ (others \cup Readable))
    /\ UNCHANGED <<sent, receiver, stage, months, todo, at, tx, bounds, lines_lost>>

\* The next line of a file.  One without a separator is skipped, and so is
\* one whose INSERT fails, which may take the transaction back too; if it is
\* the entry for full-text search that fails the row stays.
_rebuild_file(f) ==
    /\ stage = "rebuild"
    /\ NextFile(f)
    /\ MonthOf[f[2]] \in opened
    /\ at < Len(file[f])
    /\ at' = at + 1
    /\ LET line == file[f][at + 1]
       IN \/ /\ line.raw = NoText
             /\ UNCHANGED <<tx, skipped>>
          \/ /\ line.raw # NoText
             /\ tx' = Append(tx, Row(line.id, Directory(f), _parse_syslog(line.raw)))
             /\ UNCHANGED skipped
          \/ /\ line.raw # NoText
             /\ skipped' = skipped \cup {line.id}
             /\ UNCHANGED tx
          \/ /\ line.raw # NoText
             /\ skipped' = skipped \cup {line.id} \cup IdsOf(tx)
             /\ tx' = <<>>
    /\ UNCHANGED <<sent, receiver, table, stage, months, todo, opened, bounds,
                   lines_lost, refused, unsaved, unread, half, restored>>

\* The rows of a file are committed together.
CommitFile(f) ==
    /\ stage = "rebuild"
    /\ NextFile(f)
    /\ MonthOf[f[2]] \in opened
    /\ at = Len(file[f])
    /\ table' = [table EXCEPT ![MonthOf[f[2]]] = @ \o tx]
    /\ todo' = todo \ {f}
    /\ at' = 0
    /\ tx' = <<>>
    /\ UNCHANGED <<sent, receiver, stage, months, opened, bounds, lines_lost,
                   rows_lost, half, restored>>

RebuildReturns ==
    /\ stage = "rebuild"
    /\ todo = {}
    /\ stage' = "down"
    /\ restored' = restored \cup opened
    /\ half' = half \ opened
    /\ UNCHANGED <<sent, receiver, table, command, bounds, lines_lost, rows_lost>>

\* The command is killed, or ends with an exception: what was not committed is
\* taken back.
RebuildKilled ==
    /\ stage = "rebuild"
    /\ stage' = "down"
    /\ at' = 0
    /\ tx' = <<>>
    /\ UNCHANGED <<sent, receiver, table, months, todo, opened, bounds, lines_lost,
                   rows_lost, half, restored>>

Next ==
    \/ \E d \in Devices : Take(d) \/ WriteLine(d) \/ WriteFails(d)
    \/ \E id \in offered : _insert_batch(id)
    \/ \E m \in Months : Commit(m)
    \/ Ends
    \/ PowerLoss
    \/ Restart
    \/ RebuildStarts
    \/ \E f \in Files : OpenMonth(f) \/ _rebuild_file(f) \/ CommitFile(f)
    \/ RebuildReturns
    \/ RebuildKilled

Spec == Init /\ [][Next]_vars

-----------------------------------------------------------------------------
Ids == DOMAIN msgs

\* A message a writer took, with the row it offered.
Taken == {Envelope(m) : m \in Arrivals}

LineRecords == [id : Nat, raw : [pri : Int, text : Seq(Chars)] \cup {NoText},
                whole : BOOLEAN]

Indexed == UNION {IdsOf(table[m]) : m \in Months}

TypeOK ==
    /\ sent \in Corpus
    /\ msgs \in Seq(Taken)
    /\ buffer \in [Devices -> Seq(Ids)]
    /\ offered \subseteq Ids
    /\ DOMAIN inserted = Months
    /\ \A m \in Months : inserted[m] \in Seq(ToSet(inserted[m]))
    /\ made \subseteq Files
    /\ file \in [Files -> Seq(LineRecords)]
    /\ tail \in [Files -> {"unknown", "clean", "ragged"}]
    /\ DOMAIN table = Months
    /\ \A m \in Months : table[m] \in Seq(ToSet(table[m]))
    /\ stage \in {"live", "down", "rebuild"}
    /\ months \subseteq Months
    /\ todo \subseteq Files
    /\ opened \subseteq Months
    /\ at \in Nat
    /\ tx \in Seq(ToSet(tx))
    /\ IdsOf(tx) \cup Inserted \cup Indexed \subseteq Ids
    /\ cut \cup unwritten \cup merged \subseteq Ids
    /\ refused \cup skipped \cup unsaved \cup unread \subseteq Ids
    /\ half \cup restored \subseteq Months

LinesOf(m) == UNION {ToSet(file[f]) : f \in Asked({m})}

Filed == {id \in Ids : \E l \in ToSet(file[FileOf(id)]) : l.id = id /\ l.whole}

\* A message that follows RFC 5424 or RFC 3164 is indexed with the fields its
\* sender meant: nothing of its structured data is in the message, nothing of
\* the message is taken for structured data, whatever its values quote and
\* escape.
SentIsRead ==
    \A id \in Ids : "msg" \in DOMAIN msgs[id].is =>
        msgs[id].row = Meant(msgs[id].is)

\* The parser never drops text it cannot place, whatever it is given.  The
\* message is an end of what was received, and what comes before it ends in
\* a space or in a mark that ends a header, a tag or structured data.  A
\* priority that is none stays in the message, and so does everything if no
\* field was found.
NothingIsDropped ==
    \A id \in Ids :
        LET raw == msgs[id].is.raw
            s == _decode(raw.text)
            row == msgs[id].row
        IN /\ \E i \in 1..(Len(s) + 1) :
                 /\ row.message = From(s, i)
                 /\ i > 1 => s[i - 1] \in {"sp", "nl", ":", "-", "]"}
           /\ raw.pri = IF row.facility = NoPri THEN row.pri
                                                ELSE 8 * row.facility + row.severity
           /\ row.host = None /\ row.tag = None /\ row.malformed => row.message = s

\* The two records agree.  A message whose line is not in its file, whole, is
\* on its way there, or a crash or power loss took it, or a failed write, or it
\* was appended to what a failed write had left.  One whose row is not in the
\* index is on its way, or the queue was full, or the INSERT or COMMIT failed,
\* or a crash or power loss took it; but once a rebuild has made its month anew
\* only an INSERT of the rebuild that failed, or a file without its line, is
\* an excuse.  A month that a rebuild was not asked for loses nothing, and one
\* it was asked for nothing until its own database is made anew.
RecordsAgree ==
    \A id \in Ids :
        /\ id \in Filed \cup Buffered \cup cut \cup unwritten \cup merged
        /\ MonthFor(id) \notin half =>
              id \in IdsOf(table[MonthFor(id)]) \cup IdsOf(inserted[MonthFor(id)])
                     \cup offered
                     \cup refused \cup skipped \cup unsaved \cup unread

\* After a rebuild the index of a month is what its day files say: each line
\* with a text whose INSERT worked has its row, once, with the name of its
\* directory for the source_ip, and there is no other row; whatever the index
\* had before, and however many rebuilds were killed before.
RebuiltIsTheFiles ==
    \A m \in restored :
        LET lines == {l \in LinesOf(m) : l.raw # NoText /\ l.id \notin skipped}
        IN /\ ToSet(table[m]) = {Row(l.id, Directory(FileOf(l.id)), _parse_syslog(l.raw)) :
                                     l \in lines}
           /\ Len(table[m]) = Cardinality(lines)

Spaced(s) == [i \in DOMAIN s |-> IF s[i] = "nl" THEN "sp" ELSE s[i]]

\* "A rebuilt index is equivalent to one built at ingest time" (rebuild.py,
\* lines 5-7), as far as that is true.  The source_ip of a rebuilt row is the
\* device's unless that is an IPv6 address, whose colons the directory has as
\* underscores.  A row made from a whole line has the fields of the row made
\* when the message came, with spaces for line breaks in the message and maybe
\* without the first.  Messages whose line breaks stand where RFC 5424 has
\* spaces, and those with bytes that are not UTF-8, may be read differently.
RebuiltRowIsLiveRow ==
    \A m \in restored : \A r \in ToSet(table[m]) :
        LET s == msgs[r.id].is.raw.text
            live == LiveRow(r.id)
        IN /\ ":" \notin ToSet(live.source_ip) => r.source_ip = live.source_ip
           /\ /\ \E l \in LinesOf(m) : l.id = r.id /\ l.whole
              /\ "bad" \notin ToSet(s)
              /\ Has5424Header(s) = Has5424Header(Spaced(s))
              => /\ r.is = [live.is EXCEPT !.message = r.is.message]
                 /\ r.is.message \in {Spaced(live.is.message),
                                      DropSpace(Spaced(live.is.message))}
                 /\ "nl" \notin ToSet(s) => r.is = live.is
=============================================================================
