------------------------------ MODULE Retention ------------------------------
(***************************************************************************)
(* The retention manager: run() in sylo/retention/main.py and the pass in  *)
(* sylo/retention/core.py.  It is a process of its own: it deletes files   *)
(* of monthly partitions one by one, while the receiver goes on writing,   *)
(* the clock goes on and an administrator may change retention_days.       *)
(*                                                                         *)
(* A date is a number of days.  The receiver names its files by the UTC    *)
(* date, the pass takes today from the local calendar: the two differ by   *)
(* at most a day.                                                          *)
(*                                                                         *)
(* Definitions whose names begin with Bad are faulty variants of the ones  *)
(* that follow them, used only to see the properties fail.                 *)
(***************************************************************************)
EXTENDS Integers, FiniteSets

CONSTANTS
    MaxDay,         \* bound: the last UTC date
    MonthOf,        \* the month of a date
    MonthEnd,       \* _month_end: the last date of a month
    Devices,        \* directories under data_dir
    DayChoices,     \* values of retention_days an administrator may set
    Skews,          \* local date minus UTC date
    IndexMisses,    \* TRUE: a message may be in its file and not in the index
    MaxFailures     \* bound: passes that fail

Dates == 0..(MaxDay + 1)

Months == {MonthOf[d] : d \in Dates}

\* routes/settings.py refuses fewer days than one.
ASSUME RetentionAssumption ==
    /\ MaxDay \in Nat \ {0}
    /\ MonthOf \in [Dates -> Nat]
    /\ MonthEnd \in [Months -> Nat]
    /\ \A d \in Dates : d <= MonthEnd[MonthOf[d]]
    /\ DayChoices \subseteq Nat \ {0}
    /\ DayChoices # {}
    /\ Skews \subseteq {-1, 0, 1}
    /\ Skews # {}
    /\ IndexMisses \in BOOLEAN
    /\ MaxFailures \in Nat

VARIABLES
    now,        \* the UTC date
    days,       \* the setting retention_days
    index,      \* per month, the files of its database
    raw,        \* day files: <<device, date>>
    phase,      \* idle, or what the pass is deleting: index, raw
    today,      \* the pass's today
    keep,       \* the pass's retention_days
    todo,       \* expired months the pass has not begun
    cur,        \* the month being deleted
    failures,   \* passes that failed so far
    swept       \* cutoff of the last pass that completed, 0 before the first

setting == <<now, days>>
store   == <<index, raw>>
pass    == <<phase, today, keep, todo, cur>>
vars == <<setting, store, pass, failures, swept>>

\* The database in WAL mode and its sidecars, in the order they are deleted.
Suffixes == <<"db", "wal", "shm">>
Files == {Suffixes[i] : i \in 1..3}

Partition(m) == {f \in raw : MonthOf[f[2]] = m}

-----------------------------------------------------------------------------
Init ==
    /\ now = 1
    /\ days \in DayChoices
    /\ index = [m \in Months |-> {}]
    /\ raw = {}
    /\ phase = "idle"
    /\ today = 0
    /\ keep = 0
    /\ todo = {}
    /\ cur = 0
    /\ failures = 0
    /\ swept = 0

Midnight ==
    /\ now < MaxDay
    /\ now' = now + 1
    /\ UNCHANGED <<days, store, pass, failures, swept>>

\* retention_submit().
SetDays ==
    /\ days' \in DayChoices
    /\ UNCHANGED <<now, store, pass, failures, swept>>

\* The receiver flushes messages of today, or of yesterday still buffered, to
\* a day file and to the month's database.
Record ==
    /\ \E dev \in Devices, d \in {now, now - 1} \cap (Dates \ {0}) :
          /\ raw' = raw \cup {<<dev, d>>}
          /\ \/ index' = [index EXCEPT ![MonthOf[d]] = Files]
             \/ IndexMisses /\ UNCHANGED index
    /\ UNCHANGED <<setting, pass, failures, swept>>

-----------------------------------------------------------------------------
(***************************************************************************)
(* A pass.                                                                 *)
(***************************************************************************)

\* Faulty: a month expires with its last day still inside the limit.
BadExpired(t, k) ==
    {m \in Months : /\ "db" \in index[m]
                    /\ m # MonthOf[t]
                    /\ MonthEnd[m] <= t - k}

\* _expired_month_keys: months that have a database, are not the month of
\* today, and ended before the cutoff.
Expired(t, k) ==
    {m \in Months : /\ "db" \in index[m]
                    /\ m # MonthOf[t]
                    /\ MonthEnd[m] < t - k}

Idle ==
    /\ phase' = "idle"
    /\ today' = 0
    /\ keep' = 0
    /\ todo' = {}
    /\ cur' = 0

\* The oldest month of ms is next; with none left the pass has completed.
NextMonth(ms, t, k) ==
    IF ms = {}
    THEN /\ Idle
         /\ swept' = t - k
    ELSE /\ \E m \in ms :
              /\ \A n \in ms : m <= n
              /\ cur' = m
              /\ todo' = ms \ {m}
         /\ phase' = "index"
         /\ today' = t
         /\ keep' = k
         /\ UNCHANGED swept

\* run_retention() begins: today, the setting and the list are read once.
BeginPass ==
    /\ phase = "idle"
    /\ \E s \in Skews :
          NextMonth(Expired(now + s, days), now + s, days)
    /\ UNCHANGED <<setting, store, failures>>

\* _delete_index_month: the files in their order, those that are there.
UnlinkIndex ==
    /\ phase = "index"
    /\ \E i \in 1..3 :
          /\ Suffixes[i] \in index[cur]
          /\ \A j \in 1..(i - 1) : Suffixes[j] \notin index[cur]
          /\ index' = [index EXCEPT ![cur] = @ \ {Suffixes[i]}]
    /\ UNCHANGED <<setting, raw, pass, failures, swept>>

IndexDone ==
    /\ phase = "index"
    /\ index[cur] = {}
    /\ phase' = "raw"
    /\ UNCHANGED <<setting, store, today, keep, todo, cur, failures, swept>>

\* _delete_raw_month: the day files of the month, of every device.
UnlinkRaw ==
    /\ phase = "raw"
    /\ \E f \in Partition(cur) : raw' = raw \ {f}
    /\ UNCHANGED <<setting, index, pass, failures, swept>>

MonthDone ==
    /\ phase = "raw"
    /\ Partition(cur) = {}
    /\ NextMonth(todo, today, keep)
    /\ UNCHANGED <<setting, store, failures>>

\* Faulty: an exception ends the loop of run() as well.
BadPassFails ==
    /\ phase \in {"index", "raw"}
    /\ failures < MaxFailures
    /\ failures' = failures + 1
    /\ phase' = "dead"
    /\ UNCHANGED <<setting, store, today, keep, todo, cur, swept>>

\* An unlink raises, or the process is killed: the next pass starts over.
PassFails ==
    /\ phase \in {"index", "raw"}
    /\ failures < MaxFailures
    /\ failures' = failures + 1
    /\ Idle
    /\ UNCHANGED <<setting, store, swept>>

-----------------------------------------------------------------------------
Next ==
    \/ Midnight
    \/ SetDays
    \/ Record
    \/ BeginPass
    \/ UnlinkIndex
    \/ IndexDone
    \/ UnlinkRaw
    \/ MonthDone
    \/ PassFails

Spec == Init /\ [][Next]_vars

\* run() makes a pass again and again, and a pass that does not fail goes on.
Fairness ==
    /\ WF_vars(BeginPass)
    /\ WF_vars(UnlinkIndex)
    /\ WF_vars(IndexDone)
    /\ WF_vars(UnlinkRaw)
    /\ WF_vars(MonthDone)

FairSpec == Spec /\ Fairness

-----------------------------------------------------------------------------
(***************************************************************************)
(* Properties.                                                             *)
(***************************************************************************)

\* Every variable has its type; a pass works on a month of the calendar that
\* ended before its cutoff.
TypeOK ==
    /\ now \in 1..MaxDay
    /\ days \in DayChoices
    /\ index \in [Months -> SUBSET Files]
    /\ raw \subseteq Devices \X Dates
    /\ phase \in {"idle", "index", "raw"}
    /\ today \in Dates
    /\ keep \in DayChoices \cup {0}
    /\ todo \subseteq Months
    /\ failures \in 0..MaxFailures
    /\ swept \in Int
    /\ phase # "idle" => /\ keep \in DayChoices
                         /\ today <= now + 1
                         /\ \A m \in todo \cup {cur} :
                               m \in Months /\ MonthEnd[m] < today - keep

\* No data younger than retention_days, as it was when the pass began, is
\* deleted, wherever the host's time zone is and however long the pass takes:
\* counted in UTC dates, a deleted file is at least that many days old.
KeepsRetentionDays ==
    [][/\ \A f \in raw \ raw' : now - f[2] >= keep
       /\ \A m \in Months :
             index[m] \ index'[m] # {} => now - MonthEnd[m] >= keep]_vars

\* The partition the receiver is writing is never touched ("never the active
\* partition", core.py, line 46), although its month is a UTC month and the
\* safeguard compares with the local one.
ActivePartitionKept ==
    [][/\ \A f \in raw \ raw' : MonthOf[f[2]] # MonthOf[now]
       /\ index[MonthOf[now]] \subseteq index'[MonthOf[now]]]_vars

\* A month that is expired for every choice of retention_days and time zone
\* leaves the index, as long as passes do not fail for ever.
LongExpired(m) == \A k \in DayChoices, s \in Skews : MonthEnd[m] < now + s - k

IndexEventuallyDropped ==
    \A m \in Months :
        (LongExpired(m) /\ "db" \in index[m]) ~> ("db" \notin index[m])

\* A pass that has completed leaves no day file of a month that had expired:
\* it drops "whole monthly partitions" "on both sides of the storage layout"
\* (core.py, lines 1-4), and a pass that failed is "retried" (main.py, line
\* 41).
ExpiredRawIsGone ==
    \A f \in raw : MonthEnd[MonthOf[f[2]]] >= swept
=============================================================================
