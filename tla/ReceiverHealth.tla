--------------------------- MODULE ReceiverHealth ---------------------------
(***************************************************************************)
(* The status file of the receiver: ReceiverHealth in                      *)
(* sylo/receiver/health.py, written by _start_with_retry and               *)
(* _heartbeat_loop in sylo/receiver/main.py, and read for the banner of    *)
(* every page by read_receiver_health in sylo/webapp/receiver_health.py.   *)
(*                                                                         *)
(* Module Receiver has the steps of startup and shutdown; here they are    *)
(* reduced to their durations.  The timers of the event loop follow the    *)
(* monotonic clock (now), the file and its reader the wall clock, which    *)
(* may be set back or forward.  A write to the file may fail, which is     *)
(* logged and no more.  The rename makes a write one step for readers.     *)
(*                                                                         *)
(* Definitions whose names begin with Bad are faulty variants, used only   *)
(* to see the properties fail.                                             *)
(***************************************************************************)
EXTENDS Integers, Sequences

CONSTANTS
    Errors,         \* texts of the exceptions start() can raise
    Heartbeat,      \* _HEARTBEAT_INTERVAL_SECONDS
    RetryInterval,  \* _RETRY_INTERVAL_SECONDS
    StaleAfter,     \* _STALE_AFTER_SECONDS
    None,           \* no value
    Slack,          \* how late a timer may fire, how long start() and the
                    \* stop() after its failure may take
    ClockSteps,     \* amounts by which the wall clock is set
    MaxSteps,       \* bound: how often it is set
    MaxTime         \* bound: the monotonic clock

ASSUME HealthAssumption ==
    /\ {Heartbeat, RetryInterval, StaleAfter} \subseteq Nat \ {0}
    /\ {Slack, MaxSteps, MaxTime} \subseteq Nat
    /\ ClockSteps \subseteq Int
    /\ None \notin Errors \cup Int \cup {"running", "error"}

VARIABLES
    now,        \* monotonic time
    skew,       \* wall clock minus monotonic time
    stage,      \* where run() is: see Stage
    began,      \* when it got there, or when the last heartbeat was
    lastError,  \* _last_error, or None
    errorSince, \* _error_since, or None
    file,       \* receiver_status.json, or NoFile
    steps,      \* how often the clock was set
    \* Ghosts.
    served,     \* the last moment a receiver was serving, or Never
    failures,   \* this process's failed attempts, with their wall times
    back,       \* how far the clock was set back, in all
    doubtful    \* since the last write that succeeded, one failed or the
                \* clock was set forward

memory == <<lastError, errorSince>>
ghosts == <<served, failures, back, doubtful>>
vars == <<now, skew, stage, began, memory, file, steps, ghosts>>

\* off: no process, or one that is stopping.  cleanup: in stop() after a
\* failed start().  waiting: between two attempts.
Stage == {"off", "starting", "cleanup", "waiting", "serving"}

Never == -1
NoFile == [state |-> None]

wall == now + skew

Init ==
    /\ now = 0
    /\ skew = 0
    /\ stage = "off"
    /\ began = 0
    /\ lastError = None
    /\ errorSince = None
    /\ file = NoFile
    /\ steps = 0
    /\ served = Never
    /\ failures = <<>>
    /\ back = 0
    /\ doubtful = FALSE

Enter(s) == stage' = s /\ began' = now

\* _write(): the new content, or after an OSError what was there.
Write(state, error, since) ==
    \/ /\ file' = [state |-> state, updated_at |-> wall, error |-> error,
                   error_since |-> since]
       /\ doubtful' = FALSE
    \/ /\ file' = file
       /\ doubtful' = TRUE

mark_running ==
    /\ lastError' = None
    /\ errorSince' = None
    /\ Write("running", None, None)

\* Faulty: every attempt counts as the first.
BadSince(error) == wall

\* The time of the first of the failures in a row that have this error.
Since(error) == IF error # lastError THEN wall ELSE errorSince

mark_failed(error) ==
    /\ lastError' = error
    /\ errorSince' = Since(error)
    /\ Write("error", error, Since(error))

-----------------------------------------------------------------------------
(***************************************************************************)
(* The receiver process.                                                   *)
(***************************************************************************)

ProcessStarts ==
    /\ stage = "off"
    /\ Enter("starting")
    /\ lastError' = None
    /\ errorSince' = None
    /\ failures' = <<>>
    /\ UNCHANGED <<now, skew, file, steps, served, back, doubtful>>

Serve ==
    /\ stage = "starting"
    /\ Enter("serving")
    /\ mark_running
    /\ served' = now
    /\ UNCHANGED <<now, skew, steps, failures, back>>

Fail(error) ==
    /\ stage = "starting"
    /\ Enter("cleanup")
    /\ mark_failed(error)
    /\ failures' = Append(failures, [at |-> wall, error |-> error])
    /\ UNCHANGED <<now, skew, steps, served, back>>

CleanedUp ==
    /\ stage = "cleanup"
    /\ Enter("waiting")
    /\ UNCHANGED <<now, skew, memory, file, steps, ghosts>>

Retry ==
    /\ stage = "waiting"
    /\ now - began >= RetryInterval
    /\ Enter("starting")
    /\ UNCHANGED <<now, skew, memory, file, steps, ghosts>>

\* Faulty: only the first mark_running() of a process writes.
BadBeat ==
    /\ stage = "serving"
    /\ now - began >= Heartbeat
    /\ Enter("serving")
    /\ UNCHANGED <<now, skew, memory, file, steps, ghosts>>

Beat ==
    /\ stage = "serving"
    /\ now - began >= Heartbeat
    /\ Enter("serving")
    /\ mark_running
    /\ UNCHANGED <<now, skew, steps, served, failures, back>>

\* Stopped or killed, at any time.
Exit ==
    /\ stage # "off"
    /\ Enter("off")
    /\ UNCHANGED <<now, skew, memory, file, steps, ghosts>>

-----------------------------------------------------------------------------
(***************************************************************************)
(* Time.                                                                   *)
(***************************************************************************)

\* How long the process may stay where it is.
Limit == CASE stage = "serving" -> Heartbeat + Slack
           [] stage = "waiting" -> RetryInterval + Slack
           [] stage = "off" -> MaxTime
           [] OTHER -> Slack

Tick ==
    /\ now < MaxTime
    /\ now - began < Limit
    /\ now' = now + 1
    /\ served' = IF stage = "serving" THEN now + 1 ELSE served
    /\ UNCHANGED <<skew, stage, began, memory, file, steps, failures, back,
                   doubtful>>

\* The wall clock is set by k.
SetClock(k) ==
    /\ steps < MaxSteps
    /\ steps' = steps + 1
    /\ skew' = skew + k
    /\ back' = IF k < 0 THEN back - k ELSE back
    /\ doubtful' = (doubtful \/ k > 0)
    /\ UNCHANGED <<now, stage, began, memory, file, served, failures>>

Next ==
    \/ ProcessStarts
    \/ Serve
    \/ \E error \in Errors : Fail(error)
    \/ CleanedUp
    \/ Retry
    \/ Beat
    \/ Exit
    \/ Tick
    \/ \E k \in ClockSteps : SetClock(k)

Spec == Init /\ [][Next]_vars

-----------------------------------------------------------------------------
(***************************************************************************)
(* The reader.                                                             *)
(***************************************************************************)

\* Faulty: a file that is there is believed.
BadIsStale == FALSE

IsStale == wall - file.updated_at > StaleAfter

\* read_receiver_health().
Banner == CASE file = NoFile -> "unknown"
            [] file # NoFile /\ IsStale -> "down"
            [] file # NoFile /\ ~IsStale -> IF file.state = "error" THEN "error"
                                                                  ELSE "healthy"

-----------------------------------------------------------------------------
RunningFile == [state : {"running"}, updated_at : Int, error : {None},
                error_since : {None}]

ErrorFile == [state : {"error"}, updated_at : Int, error : Errors,
              error_since : Int]

\* Every variable has its type; the file has an error and since when exactly
\* while its state is "error".
TypeOK ==
    /\ now \in Nat
    /\ skew \in Int
    /\ stage \in Stage
    /\ began \in 0..now
    /\ \/ lastError = None /\ errorSince = None
       \/ lastError \in Errors /\ errorSince \in Int
    /\ file \in {NoFile} \cup RunningFile \cup ErrorFile
    /\ steps \in Nat
    /\ served \in 0..now \cup {Never}
    /\ failures \in Seq([at : Int, error : Errors])
    /\ back \in Nat
    /\ doubtful \in BOOLEAN

\* A page without the banner means that a receiver was serving within the last
\* StaleAfter, whatever became of it since and whichever writes failed.  A
\* clock set back adds to that what it was set back by.
HealthyMeansServing ==
    Banner = "healthy" => served # Never /\ now - served <= StaleAfter + back

\* No false alarm: while the receiver serves, and the last write succeeded,
\* pages have no banner; the heartbeat comes in time.
NoFalseAlarm ==
    stage = "serving" /\ ~doubtful /\ Heartbeat + Slack <= StaleAfter =>
        Banner = "healthy"

\* failures[i] is the first of the failures at the end of failures that have
\* the last one's error.
BeginsRow(i) ==
    /\ \A j \in i..Len(failures) : failures[j].error = failures[Len(failures)].error
    /\ i > 1 => failures[i - 1].error # failures[Len(failures)].error

FirstOfRow == CHOOSE i \in DOMAIN failures : BeginsRow(i)

\* While attempts to start fail, pages show the last error, and since when it
\* has been that one: a retry does not make it younger, a different error in
\* between does.  The banner does not turn to "down" between two attempts.
ErrorIsShown ==
    /\ stage \in {"starting", "cleanup", "waiting"}
    /\ failures # <<>>
    /\ ~doubtful
    /\ RetryInterval + 3 * Slack <= StaleAfter
    => /\ Banner = "error"
       /\ file.error = failures[Len(failures)].error
       /\ file.error_since = failures[FirstOfRow].at
=============================================================================
