------------------------ MODULE ReceiverHealthProofs ------------------------
(***************************************************************************)
(* For any intervals, any number of errors and any setting of the wall     *)
(* clock: what a page says of the receiver is true, within what the        *)
(* heartbeat, the stale limit and the clock admit.                         *)
(***************************************************************************)
EXTENDS ReceiverHealth, TLAPS

-----------------------------------------------------------------------------
(***************************************************************************)
(* What is in the file.                                                    *)
(***************************************************************************)

\* The fields of a file tell its kind.
LEMMA Kinds ==
  /\ NoFile.state \notin {"running", "error"}
  /\ \A f \in RunningFile : f.state = "running" /\ f.updated_at \in Int
  /\ \A f \in ErrorFile :
        /\ f.state = "error"
        /\ f.updated_at \in Int
        /\ f.error \in Errors
        /\ f.error_since \in Int
BY HealthAssumption DEF HealthAssumption, NoFile, RunningFile, ErrorFile

\* mark_running() writes a heartbeat, or nothing.
LEMMA Marked ==
  ASSUME wall \in Int, mark_running
  PROVE  /\ lastError' = None /\ errorSince' = None
         /\ \/ /\ doubtful' = FALSE
               /\ file' \in RunningFile
               /\ file'.updated_at = wall
            \/ doubtful' = TRUE /\ file' = file
<1> DEFINE new == [state |-> "running", updated_at |-> wall, error |-> None,
                   error_since |-> None]
<1>1. new \in RunningFile /\ new.updated_at = wall
  BY DEF RunningFile
<1>2. \/ file' = new /\ doubtful' = FALSE
      \/ file' = file /\ doubtful' = TRUE
  BY DEF mark_running, Write
<1> HIDE DEF new
<1> QED
  BY <1>1, <1>2 DEF mark_running

\* mark_failed() writes the error and since when, or nothing.
LEMMA MarkedFailed ==
  ASSUME wall \in Int, NEW error \in Errors, Since(error) \in Int,
         mark_failed(error)
  PROVE  /\ lastError' = error /\ errorSince' = Since(error)
         /\ \/ /\ doubtful' = FALSE
               /\ file' \in ErrorFile
               /\ file'.updated_at = wall
               /\ file'.error = error
               /\ file'.error_since = Since(error)
            \/ doubtful' = TRUE /\ file' = file
<1> DEFINE since == Since(error)
<1> DEFINE new == [state |-> "error", updated_at |-> wall, error |-> error,
                   error_since |-> since]
<1>1. \/ file' = new /\ doubtful' = FALSE
      \/ file' = file /\ doubtful' = TRUE
  BY DEF mark_failed, Write
<1>2. lastError' = error /\ errorSince' = since
  BY DEF mark_failed
<1> HIDE DEF since
<1>3. since \in Int
  BY DEF since
<1>4. /\ new \in ErrorFile
      /\ new.updated_at = wall /\ new.error = error /\ new.error_since = since
  BY <1>3 DEF ErrorFile
<1> HIDE DEF new
<1> QED
  BY <1>1, <1>2, <1>4 DEF since

LEMMA SinceTyping ==
  ASSUME TypeOK, NEW error \in Errors
  PROVE  wall \in Int /\ Since(error) \in Int
BY HealthAssumption DEF HealthAssumption, TypeOK, wall, Since

\* Every variable keeps its type.
THEOREM Typing == Spec => []TypeOK
<1>1. Init => TypeOK
  <2> SUFFICES ASSUME Init PROVE TypeOK
    OBVIOUS
  <2>1. failures \in Seq([at : Int, error : Errors])
    BY DEF Init
  <2>2. doubtful \in BOOLEAN
    BY DEF Init
  <2> QED
    BY <2>1, <2>2 DEF Init, TypeOK, Stage, Never
<1>2. TypeOK /\ [Next]_vars => TypeOK'
  <2> SUFFICES ASSUME TypeOK, [Next]_vars PROVE TypeOK'
    OBVIOUS
  <2>a. wall \in Int
    BY DEF TypeOK, wall
  <2> USE HealthAssumption DEF HealthAssumption, TypeOK, Stage
  <2>1. CASE ProcessStarts
    BY <2>1 DEF ProcessStarts, Enter
  <2>2. CASE Serve
    <3>1. /\ file' \in {NoFile} \cup RunningFile \cup ErrorFile
          /\ lastError' = None /\ errorSince' = None
          /\ doubtful' \in BOOLEAN
      BY <2>a, <2>2, Marked DEF Serve
    <3> QED
      BY <2>2, <3>1 DEF Serve, Enter
  <2>3. ASSUME NEW error \in Errors, Fail(error) PROVE TypeOK'
    <3>1. failures' \in Seq([at : Int, error : Errors])
      BY <2>3 DEF Fail, wall
    <3>2. Since(error) \in Int
      BY <2>3, SinceTyping
    <3>3. /\ lastError' \in Errors /\ errorSince' \in Int
          /\ file' \in {NoFile} \cup RunningFile \cup ErrorFile
          /\ doubtful' \in BOOLEAN
      BY <2>a, <2>3, <3>2, MarkedFailed DEF Fail
    <3> QED
      BY <2>3, <3>1, <3>3 DEF Fail, Enter
  <2>4. CASE CleanedUp
    BY <2>4 DEF CleanedUp, Enter, memory, ghosts
  <2>5. CASE Retry
    BY <2>5 DEF Retry, Enter, memory, ghosts
  <2>6. CASE Beat
    <3>1. /\ file' \in {NoFile} \cup RunningFile \cup ErrorFile
          /\ lastError' = None /\ errorSince' = None
          /\ doubtful' \in BOOLEAN
      BY <2>a, <2>6, Marked DEF Beat
    <3> QED
      BY <2>6, <3>1 DEF Beat, Enter
  <2>7. CASE Exit
    BY <2>7 DEF Exit, Enter, memory, ghosts
  <2>8. CASE Tick
    BY <2>8 DEF Tick, memory
  <2>9. ASSUME NEW k \in ClockSteps, SetClock(k) PROVE TypeOK'
    BY <2>9 DEF SetClock, memory
  <2>10. CASE UNCHANGED vars
    BY <2>10 DEF vars, memory, ghosts
  <2> QED
    BY <2>1, <2>2, <2>3, <2>4, <2>5, <2>6, <2>7, <2>8, <2>9, <2>10 DEF Next
<1> QED
  BY <1>1, <1>2, PTL DEF Spec

-----------------------------------------------------------------------------
(***************************************************************************)
(* No banner: a receiver was serving a short while ago.                    *)
(***************************************************************************)

\* A heartbeat in the file is no younger than the last moment a receiver was
\* serving, but for what the clock has since been set back.
HeartbeatIsTrue ==
    /\ stage = "serving" => served = now
    /\ file \in RunningFile =>
          served # Never /\ file.updated_at <= served + skew + back

LEMMA HeartbeatStays == TypeOK /\ TypeOK' /\ HeartbeatIsTrue /\ [Next]_vars
                            => HeartbeatIsTrue'
<1> SUFFICES ASSUME TypeOK, TypeOK', HeartbeatIsTrue, [Next]_vars
             PROVE  HeartbeatIsTrue'
  OBVIOUS
<1>a. wall \in Int /\ wall = now + skew
  BY DEF TypeOK, wall
<1>b. /\ now \in Nat /\ skew \in Int /\ back \in Nat
      /\ served \in 0..now \cup {Never} /\ Never \notin Nat
      /\ file \in RunningFile => file.updated_at \in Int
  BY Kinds DEF TypeOK, Never
<1>c. RunningFile \cap ErrorFile = {}
  BY Kinds
<1>1. CASE ProcessStarts
  BY <1>1 DEF ProcessStarts, Enter, HeartbeatIsTrue
<1>2. CASE Serve
  <2>1. /\ now' = now /\ skew' = skew /\ back' = back /\ served' = now
        /\ mark_running
    BY <1>2 DEF Serve
  <2>2. CASE file' \in RunningFile /\ file'.updated_at = wall
    BY <2>1, <2>2, <1>a, <1>b DEF HeartbeatIsTrue
  <2>3. CASE file' = file
    BY <2>1, <2>3, <1>b DEF HeartbeatIsTrue, TypeOK
  <2>4. file' = file \/ (file' \in RunningFile /\ file'.updated_at = wall)
    BY <2>1, <1>a, Marked
  <2> QED
    BY <2>2, <2>3, <2>4
<1>3. ASSUME NEW error \in Errors, Fail(error) PROVE HeartbeatIsTrue'
  <2>1. Since(error) \in Int
    BY <1>3, SinceTyping
  <2>2. file' \in ErrorFile \/ file' = file
    BY <1>a, <1>3, <2>1, MarkedFailed DEF Fail
  <2> QED
    BY <1>3, <2>2, <1>c DEF Fail, Enter, HeartbeatIsTrue
<1>4. CASE CleanedUp
  BY <1>4 DEF CleanedUp, Enter, ghosts, HeartbeatIsTrue
<1>5. CASE Retry
  BY <1>5 DEF Retry, Enter, ghosts, HeartbeatIsTrue
<1>6. CASE Beat
  <2>1. /\ now' = now /\ skew' = skew /\ back' = back /\ served' = now
        /\ mark_running
    BY <1>6 DEF Beat, HeartbeatIsTrue
  <2>2. CASE file' \in RunningFile /\ file'.updated_at = wall
    BY <2>1, <2>2, <1>a, <1>b DEF HeartbeatIsTrue
  <2>3. CASE file' = file
    BY <2>1, <2>3, <1>b DEF HeartbeatIsTrue, TypeOK
  <2>4. file' = file \/ (file' \in RunningFile /\ file'.updated_at = wall)
    BY <2>1, <1>a, Marked
  <2> QED
    BY <2>2, <2>3, <2>4
<1>7. CASE Exit
  BY <1>7 DEF Exit, Enter, ghosts, HeartbeatIsTrue
<1>8. CASE Tick
  BY <1>8, <1>b DEF Tick, HeartbeatIsTrue
<1>9. ASSUME NEW k \in ClockSteps, SetClock(k) PROVE HeartbeatIsTrue'
  BY <1>9, <1>b, HealthAssumption
  DEF SetClock, HeartbeatIsTrue, HealthAssumption
<1>10. CASE UNCHANGED vars
  BY <1>10 DEF vars, ghosts, HeartbeatIsTrue
<1> QED
  BY <1>1, <1>2, <1>3, <1>4, <1>5, <1>6, <1>7, <1>8, <1>9, <1>10 DEF Next

\* For any intervals and any setting of the clock: a page without the banner
\* means that a receiver was serving within the stale limit, plus what the
\* clock was set back by, whatever writes failed.
THEOREM HealthyIsTrue == Spec => []HealthyMeansServing
<1>1. Init => HeartbeatIsTrue
  BY Kinds DEF Init, HeartbeatIsTrue
<1>2. TypeOK /\ HeartbeatIsTrue => HealthyMeansServing
  <2> SUFFICES ASSUME TypeOK, HeartbeatIsTrue, Banner = "healthy"
               PROVE  served # Never /\ now - served <= StaleAfter + back
    BY DEF HealthyMeansServing
  <2>1. file # NoFile /\ ~IsStale /\ file.state # "error"
    BY DEF Banner
  <2>2. file \in RunningFile /\ file.updated_at \in Int
    BY <2>1, Kinds DEF TypeOK
  <2>3. /\ now \in Nat /\ skew \in Int /\ back \in Nat /\ StaleAfter \in Nat
        /\ served \in 0..now \cup {Never}
    <3>1. StaleAfter \in Nat
      BY HealthAssumption DEF HealthAssumption
    <3>2. now \in Nat /\ skew \in Int /\ back \in Nat
      BY DEF TypeOK
    <3>3. served \in 0..now \cup {Never}
      BY DEF TypeOK
    <3> QED
      BY <3>1, <3>2, <3>3
  <2>4. ~(now + skew - file.updated_at > StaleAfter)
    BY <2>1, <2>2, <2>3 DEF IsStale, wall
  <2>5. served # Never /\ file.updated_at <= served + skew + back
    BY <2>2 DEF HeartbeatIsTrue
  <2> DEFINE at == file.updated_at
  <2>6. at \in Int /\ served \in Nat
    BY <2>2, <2>3, <2>5
  <2>7. ~(now + skew - at > StaleAfter) /\ at <= served + skew + back
    BY <2>4, <2>5
  <2> HIDE DEF at
  <2>8. now - served <= StaleAfter + back
    BY <2>3, <2>6, <2>7
  <2> QED
    BY <2>5, <2>8
<1> QED
  BY <1>1, <1>2, Typing, HeartbeatStays, PTL DEF Spec

-----------------------------------------------------------------------------
(***************************************************************************)
(* A receiver that serves: no false alarm.                                 *)
(***************************************************************************)

\* While it serves and nothing has cast doubt on it, the file is a heartbeat
\* no older than the loop's own clock says.
HeartbeatIsFresh ==
    stage = "serving" =>
        /\ now - began <= Heartbeat + Slack
        /\ ~doubtful => /\ file \in RunningFile
                        /\ wall - file.updated_at <= now - began

LEMMA FreshStays == TypeOK /\ TypeOK' /\ HeartbeatIsFresh /\ [Next]_vars
                        => HeartbeatIsFresh'
<1> SUFFICES ASSUME TypeOK, TypeOK', HeartbeatIsFresh, [Next]_vars,
                    stage' = "serving"
             PROVE  /\ now' - began' <= Heartbeat + Slack
                    /\ ~doubtful' => /\ file' \in RunningFile
                                     /\ wall' - file'.updated_at <= now' - began'
  BY DEF HeartbeatIsFresh
<1>a. /\ wall \in Int /\ wall = now + skew /\ wall' = now' + skew'
      /\ now \in Nat /\ began \in Nat /\ skew \in Int
      /\ Heartbeat \in Nat /\ Slack \in Nat
      /\ file \in RunningFile => file.updated_at \in Int
  BY Kinds, HealthAssumption DEF TypeOK, wall, HealthAssumption
<1>1. ASSUME Enter("serving"), mark_running, now' = now, skew' = skew
      PROVE  /\ now' - began' <= Heartbeat + Slack
             /\ ~doubtful' => /\ file' \in RunningFile
                              /\ wall' - file'.updated_at <= now' - began'
  <2>1. now' - began' = 0 /\ wall' = wall
    BY <1>1, <1>a DEF Enter
  <2>2. ~doubtful' => file' \in RunningFile /\ file'.updated_at = wall
    BY <1>1, <1>a, Marked
  <2>3. ASSUME ~doubtful'
        PROVE  file' \in RunningFile /\ wall' - file'.updated_at <= now' - began'
    BY <2>1, <2>2, <2>3, <1>a
  <2> QED
    BY <2>1, <2>3, <1>a
<1>2. CASE Serve
  BY <1>1, <1>2 DEF Serve
<1>3. CASE Beat
  BY <1>1, <1>3 DEF Beat
<1>4. CASE Tick
  <2>1. /\ stage = "serving" /\ now' = now + 1 /\ began' = began
        /\ now - began < Heartbeat + Slack
        /\ file' = file /\ skew' = skew /\ doubtful' = doubtful
    BY <1>4 DEF Tick, Limit
  <2>2. now' - began' <= Heartbeat + Slack
    BY <2>1, <1>a
  <2>3. ASSUME ~doubtful'
        PROVE  file' \in RunningFile /\ wall' - file'.updated_at <= now' - began'
    <3>1. ~doubtful
      BY <2>1, <2>3
    <3> QED
      BY <2>1, <3>1, <1>a DEF HeartbeatIsFresh
  <2> QED
    BY <2>2, <2>3
<1>5. ASSUME NEW k \in ClockSteps, SetClock(k)
      PROVE  /\ now' - began' <= Heartbeat + Slack
             /\ ~doubtful' => /\ file' \in RunningFile
                              /\ wall' - file'.updated_at <= now' - began'
  <2>1. /\ stage = "serving" /\ now' = now /\ began' = began /\ file' = file
        /\ skew' = skew + k /\ k \in Int
    BY <1>5, HealthAssumption DEF SetClock, HealthAssumption
  <2>2. now' - began' <= Heartbeat + Slack
    BY <2>1 DEF HeartbeatIsFresh
  <2>3. ASSUME ~doubtful'
        PROVE  file' \in RunningFile /\ wall' - file'.updated_at <= now' - began'
    <3>1. ~doubtful /\ ~(k > 0)
      BY <1>5, <2>3 DEF SetClock
    <3>2. file \in RunningFile /\ wall - file.updated_at <= now - began
      BY <2>1, <3>1 DEF HeartbeatIsFresh
    <3> QED
      BY <2>1, <3>1, <3>2, <1>a
  <2> QED
    BY <2>2, <2>3
<1>6. CASE UNCHANGED vars
  <2>1. /\ stage = "serving" /\ now' = now /\ began' = began /\ file' = file
        /\ skew' = skew /\ doubtful' = doubtful /\ wall' = wall
    BY <1>6, <1>a DEF vars, ghosts
  <2> QED
    BY <2>1 DEF HeartbeatIsFresh
<1>7. ~ProcessStarts /\ ~(\E error \in Errors : Fail(error)) /\ ~CleanedUp
      /\ ~Retry /\ ~Exit
  BY DEF ProcessStarts, Fail, CleanedUp, Retry, Exit, Enter
<1> QED
  BY <1>2, <1>3, <1>4, <1>5, <1>6, <1>7 DEF Next

\* For any interval no longer, with its delays, than the stale limit: no page
\* has the banner while the receiver serves, unless a write failed or the
\* clock was set forward since the last heartbeat.
THEOREM ServingIsHealthy == Spec => []NoFalseAlarm
<1>1. Init => HeartbeatIsFresh
  BY DEF Init, HeartbeatIsFresh
<1>2. TypeOK /\ HeartbeatIsFresh => NoFalseAlarm
  <2> SUFFICES ASSUME TypeOK, HeartbeatIsFresh, stage = "serving", ~doubtful,
                      Heartbeat + Slack <= StaleAfter
               PROVE  Banner = "healthy"
    BY DEF NoFalseAlarm
  <2>1. /\ file \in RunningFile /\ wall - file.updated_at <= now - began
        /\ now - began <= Heartbeat + Slack
    BY DEF HeartbeatIsFresh
  <2>2. file # NoFile /\ file.state # "error"
    BY <2>1, Kinds
  <2>3. ~IsStale
    <3> DEFINE age == wall - file.updated_at
    <3>1. /\ age \in Int /\ now \in Nat /\ began \in Nat
          /\ Heartbeat \in Nat /\ Slack \in Nat /\ StaleAfter \in Nat
      <4>1. Heartbeat \in Nat /\ Slack \in Nat /\ StaleAfter \in Nat
        BY HealthAssumption DEF HealthAssumption
      <4>2. now \in Nat /\ began \in Nat /\ wall \in Int
        BY DEF TypeOK, wall
      <4>3. file.updated_at \in Int
        BY <2>1, Kinds
      <4> QED
        BY <4>1, <4>2, <4>3
    <3>2. age <= now - began
      BY <2>1
    <3> HIDE DEF age
    <3>3. age <= StaleAfter
      BY <2>1, <3>1, <3>2
    <3>4. ~(age > StaleAfter)
      BY <3>1, <3>3
    <3> QED
      BY <3>4 DEF IsStale, age
  <2> QED
    BY <2>2, <2>3 DEF Banner
<1> QED
  BY <1>1, <1>2, Typing, FreshStays, PTL DEF Spec

-----------------------------------------------------------------------------
(***************************************************************************)
(* A receiver that cannot start: the error, and since when.                *)
(***************************************************************************)

Failure == [at : Int, error : Errors]

Attempting == {"starting", "cleanup", "waiting"}

\* How long ago the last failure was when the stage began, at most.
Before == CASE stage = "cleanup" -> 0
            [] stage = "waiting" -> Slack
            [] OTHER -> RetryInterval + 2 * Slack

\* What the process remembers is the last error and when its row began.
MemoryIsTrue ==
    stage \in Attempting =>
        /\ failures = <<>> => stage = "starting" /\ lastError = None
        /\ failures # <<>> =>
              /\ lastError = failures[Len(failures)].error
              /\ \E i \in DOMAIN failures :
                    BeginsRow(i) /\ errorSince = failures[i].at

\* And the file has it, from the last failure, unless there is a doubt.
FileIsTrue ==
    stage \in Attempting =>
        /\ now - began <= Limit
        /\ failures # <<>> /\ ~doubtful =>
              /\ file \in ErrorFile
              /\ file.error = lastError
              /\ file.error_since = errorSince
              /\ wall - file.updated_at <= (now - began) + Before

\* Only one failure begins the row at the end.
LEMMA OneRow ==
  ASSUME failures \in Seq(Failure), NEW i \in DOMAIN failures,
         NEW k \in DOMAIN failures, BeginsRow(i), BeginsRow(k)
  PROVE  i = k
<1>1. /\ Len(failures) \in Nat /\ i \in 1..Len(failures)
      /\ k \in 1..Len(failures)
  OBVIOUS
<1>2. ASSUME NEW a \in 1..Len(failures), NEW b \in 1..Len(failures), a < b,
             BeginsRow(a), BeginsRow(b)
      PROVE  FALSE
  <2>1. b > 1 /\ b - 1 \in a..Len(failures)
    BY <1>2, <1>1
  <2> QED
    BY <2>1, <1>2 DEF BeginsRow
<1> QED
  BY <1>1, <1>2

\* After one more failure, the row begins where it did or with that failure.
LEMMA RowGrows ==
  ASSUME TypeOK, MemoryIsTrue, NEW error \in Errors, Fail(error)
  PROVE  /\ failures' # <<>> /\ failures'[Len(failures')].error = error
         /\ \E i \in DOMAIN failures' :
               BeginsRow(i)' /\ Since(error) = failures'[i].at
<1> DEFINE n == Len(failures)
           new == [at |-> wall, error |-> error]
<1>1. /\ failures' = Append(failures, new) /\ wall \in Int
      /\ failures \in Seq(Failure) /\ new \in Failure
      /\ stage = "starting" /\ stage \in Attempting
  BY DEF Fail, TypeOK, Failure, wall, Attempting
<1>2. /\ n \in Nat /\ Len(failures') = n + 1
      /\ DOMAIN failures' = 1..(n + 1) /\ DOMAIN failures = 1..n
      /\ failures'[n + 1] = new
      /\ \A j \in 1..n : failures'[j] = failures[j]
  BY <1>1
<1>3. new.at = wall /\ new.error = error
  OBVIOUS
<1> HIDE DEF n, new
<1>4. CASE failures # <<>> /\ error = lastError
  <2>1. PICK i \in 1..n : BeginsRow(i) /\ errorSince = failures[i].at
    BY <1>1, <1>2, <1>4 DEF MemoryIsTrue
  <2>2. failures[n].error = error
    BY <1>1, <1>4 DEF MemoryIsTrue, n
  <2>3. ASSUME NEW j \in i..(n + 1)
        PROVE  failures'[j].error = failures'[n + 1].error
    <3>1. CASE j = n + 1
      BY <3>1
    <3>2. CASE j \in i..n
      BY <3>2, <2>1, <2>2, <1>2, <1>3 DEF BeginsRow, n
    <3> QED
      BY <3>1, <3>2, <1>2
  <2>4. ASSUME i > 1 PROVE failures'[i - 1].error # failures'[n + 1].error
    BY <2>1, <2>2, <2>4, <1>2, <1>3 DEF BeginsRow, n
  <2>5. BeginsRow(i)'
    BY <2>3, <2>4, <1>2 DEF BeginsRow
  <2>6. Since(error) = failures'[i].at
    BY <2>1, <1>2, <1>4 DEF Since
  <2>7. i \in DOMAIN failures'
    BY <1>2
  <2> QED
    BY <2>5, <2>6, <2>7, <1>2, <1>3
<1>5. CASE error # lastError
  <2>1. ASSUME n + 1 > 1 PROVE failures'[n].error # failures'[n + 1].error
    <3>1. failures # <<>> /\ n \in 1..n
      BY <2>1, <1>2 DEF n
    <3>2. failures[n].error = lastError
      BY <3>1, <1>1 DEF MemoryIsTrue, n
    <3> QED
      BY <3>1, <3>2, <1>2, <1>3, <1>5
  <2>2. PICK k \in DOMAIN failures' : k = n + 1
    BY <1>2
  <2>3. BeginsRow(k)'
    <3>1. \A j \in k..Len(failures') : j = k
      BY <2>2, <1>2
    <3>2. k - 1 = n /\ Len(failures') = k
      BY <2>2, <1>2
    <3> QED
      BY <2>1, <2>2, <3>1, <3>2 DEF BeginsRow
  <2>4. Since(error) = failures'[k].at
    BY <2>2, <1>2, <1>3, <1>5 DEF Since
  <2>5. failures' # <<>> /\ failures'[Len(failures')].error = error
    BY <1>2, <1>3
  <2> QED
    BY <2>3, <2>4, <2>5
<1>6. CASE failures = <<>> /\ error = lastError
  BY <1>1, <1>6, HealthAssumption DEF MemoryIsTrue, HealthAssumption
<1> QED
  BY <1>4, <1>5, <1>6

LEMMA MemoryStays == TypeOK /\ MemoryIsTrue /\ [Next]_vars => MemoryIsTrue'
<1> SUFFICES ASSUME TypeOK, MemoryIsTrue, [Next]_vars, stage' \in Attempting
             PROVE  MemoryIsTrue'
  BY DEF MemoryIsTrue
<1>1. CASE ProcessStarts
  BY <1>1 DEF ProcessStarts, Enter, MemoryIsTrue
<1>2. ASSUME NEW error \in Errors, Fail(error) PROVE MemoryIsTrue'
  <2>1. lastError' = error /\ errorSince' = Since(error)
    BY <1>2 DEF Fail, mark_failed
  <2> QED
    BY <1>2, <2>1, RowGrows DEF MemoryIsTrue
<1>3. ASSUME UNCHANGED <<memory, failures>>, stage \in Attempting,
             stage' = "starting" \/ failures # <<>>
      PROVE  MemoryIsTrue'
  BY <1>3 DEF MemoryIsTrue, memory, BeginsRow, Attempting
<1>4. CASE CleanedUp \/ Retry
  <2>1. failures # <<>>
    BY <1>4 DEF CleanedUp, Retry, MemoryIsTrue, Attempting
  <2> QED
    BY <1>3, <1>4, <2>1 DEF CleanedUp, Retry, Attempting, ghosts
<1>5. ASSUME UNCHANGED <<memory, failures, stage>> PROVE MemoryIsTrue'
  <2>1. stage \in Attempting
    BY <1>5
  <2>2. CASE failures # <<>>
    BY <1>3, <1>5, <2>1, <2>2
  <2>3. CASE failures = <<>>
    BY <1>3, <1>5, <2>1, <2>3 DEF MemoryIsTrue
  <2> QED
    BY <2>2, <2>3
<1>6. CASE Tick \/ \E k \in ClockSteps : SetClock(k)
  BY <1>5, <1>6 DEF Tick, SetClock
<1>7. CASE UNCHANGED vars
  BY <1>5, <1>7 DEF vars, ghosts
<1>8. ~Serve /\ ~Beat /\ ~Exit
  BY DEF Serve, Beat, Exit, Enter, Attempting
<1> QED
  BY <1>1, <1>2, <1>4, <1>6, <1>7, <1>8 DEF Next

LEMMA FileStays ==
  TypeOK /\ TypeOK' /\ MemoryIsTrue /\ FileIsTrue /\ [Next]_vars => FileIsTrue'
<1> SUFFICES ASSUME TypeOK, TypeOK', MemoryIsTrue, FileIsTrue, [Next]_vars,
                    stage' \in Attempting
             PROVE  FileIsTrue'
  BY DEF FileIsTrue
<1>a. /\ wall \in Int /\ wall = now + skew /\ wall' = now' + skew'
      /\ now \in Nat /\ began \in Nat /\ skew \in Int
      /\ Slack \in Nat /\ RetryInterval \in Nat
      /\ file \in ErrorFile => file.updated_at \in Int
  BY Kinds, HealthAssumption DEF TypeOK, wall, HealthAssumption
<1>b. Before \in Nat /\ Before' \in Nat
  BY <1>a DEF Before
<1>1. CASE ProcessStarts
  BY <1>1, <1>a DEF ProcessStarts, Enter, FileIsTrue, Limit
<1>2. ASSUME NEW error \in Errors, Fail(error) PROVE FileIsTrue'
  <2>1. Since(error) \in Int /\ mark_failed(error)
    BY <1>2, SinceTyping DEF Fail
  <2>2. /\ stage' = "cleanup" /\ now' = now /\ began' = now /\ wall' = wall
        /\ lastError' = error /\ errorSince' = Since(error)
    BY <1>2, <1>a DEF Fail, Enter, mark_failed
  <2>3. now' - began' <= Limit'
    BY <2>2, <1>a DEF Limit
  <2>4. ~doubtful' => /\ file' \in ErrorFile
                     /\ file'.updated_at = wall
                     /\ file'.error = error
                     /\ file'.error_since = Since(error)
    BY <2>1, <1>a, MarkedFailed
  <2>5. wall' - wall <= (now' - began') + Before'
    <3>1. wall' - wall = 0 /\ now' - began' = 0
      BY <2>2, <1>a
    <3> QED
      BY <3>1, <1>b
  <2> QED
    BY <2>2, <2>3, <2>4, <2>5 DEF FileIsTrue
\* A step to a later stage: what it adds to the age was in the stage's limit.
<1>3. ASSUME stage \in Attempting, UNCHANGED <<now, skew, memory, file, ghosts>>,
             began' = now, Limit' \in Nat,
             now - began <= Limit /\ Limit + Before <= Before'
      PROVE  FileIsTrue'
  <2>1. now' - began' <= Limit'
    BY <1>3, <1>a
  <2>2. ASSUME failures' # <<>>, ~doubtful'
        PROVE  /\ file' \in ErrorFile /\ file'.error = lastError'
               /\ file'.error_since = errorSince'
               /\ wall' - file'.updated_at <= (now' - began') + Before'
    <3>1. failures # <<>> /\ ~doubtful
      BY <1>3, <2>2 DEF ghosts
    <3>2. /\ file \in ErrorFile /\ file.error = lastError
          /\ file.error_since = errorSince
          /\ wall - file.updated_at <= (now - began) + Before
      BY <1>3, <3>1 DEF FileIsTrue
    <3>3. file' = file /\ lastError' = lastError /\ errorSince' = errorSince
          /\ wall' = wall /\ now' = now /\ began' = now
      BY <1>3, <1>a DEF memory
    <3>4. Limit \in Int
      BY <1>3, HealthAssumption DEF Limit, HealthAssumption, Attempting
    <3>5. wall - file.updated_at <= Before'
      BY <1>3, <3>2, <3>4, <1>a, <1>b
    <3> QED
      BY <3>2, <3>3, <3>5, <1>a, <1>b
  <2> QED
    BY <2>1, <2>2 DEF FileIsTrue
<1>4. CASE CleanedUp
  <2>1. stage = "cleanup" /\ stage' = "waiting" /\ stage \in Attempting
    BY <1>4 DEF CleanedUp, Enter, Attempting
  <2>2. Limit' \in Nat /\ now - began <= Limit /\ Limit + Before <= Before'
    BY <2>1, <1>a DEF FileIsTrue, Limit, Before
  <2> QED
    BY <1>3, <1>4, <2>1, <2>2 DEF CleanedUp, Enter
<1>5. CASE Retry
  <2>1. stage = "waiting" /\ stage' = "starting" /\ stage \in Attempting
    BY <1>5 DEF Retry, Enter, Attempting
  <2>2. Limit' \in Nat /\ now - began <= Limit /\ Limit + Before <= Before'
    BY <2>1, <1>a DEF FileIsTrue, Limit, Before
  <2> QED
    BY <1>3, <1>5, <2>1, <2>2 DEF Retry, Enter
\* Time passes, or the wall clock is set.
<1>6. ASSUME UNCHANGED <<stage, began, memory, file, failures>>,
             now' \in Nat, now' - began <= Limit,
             ~doubtful' => ~doubtful /\ skew' <= skew
      PROVE  FileIsTrue'
  <2>1. stage \in Attempting /\ Limit' = Limit /\ Before' = Before
    BY <1>6 DEF Limit, Before
  <2>2. ASSUME failures' # <<>>, ~doubtful'
        PROVE  /\ file' \in ErrorFile /\ file'.error = lastError'
               /\ file'.error_since = errorSince'
               /\ wall' - file'.updated_at <= (now' - began') + Before'
    <3>1. /\ file \in ErrorFile /\ file.error = lastError
          /\ file.error_since = errorSince
          /\ wall - file.updated_at <= (now - began) + Before
      BY <1>6, <2>1, <2>2 DEF FileIsTrue
    <3>2. /\ file' = file /\ lastError' = lastError /\ errorSince' = errorSince
          /\ began' = began /\ skew' <= skew /\ skew' \in Int
      BY <1>6, <2>2 DEF memory, TypeOK
    <3>3. wall' - file.updated_at <= (now' - began) + Before
      BY <1>6, <3>1, <3>2, <1>a, <1>b
    <3> QED
      BY <2>1, <3>1, <3>2, <3>3
  <2> QED
    BY <1>6, <2>1, <2>2 DEF FileIsTrue
<1>7. CASE Tick
  <2>1. now' = now + 1 /\ now - began < Limit /\ stage \in Attempting
    BY <1>7 DEF Tick
  <2>2. Limit \in Int
    BY <2>1, <1>a DEF Limit, Attempting
  <2>3. now' \in Nat /\ now' - began <= Limit /\ skew' = skew
    BY <1>7, <2>1, <2>2, <1>a DEF Tick
  <2> QED
    BY <1>6, <1>7, <2>3, <1>a DEF Tick
<1>8. ASSUME NEW k \in ClockSteps, SetClock(k) PROVE FileIsTrue'
  <2>1. /\ stage \in Attempting /\ now' = now /\ skew' = skew + k /\ k \in Int
    BY <1>8, HealthAssumption DEF SetClock, HealthAssumption
  <2>2. now' - began <= Limit
    BY <2>1 DEF FileIsTrue
  <2>3. ~doubtful' => ~doubtful /\ ~(k > 0)
    BY <1>8 DEF SetClock
  <2>4. ~doubtful' => ~doubtful /\ skew' <= skew
    BY <2>1, <2>3, <1>a
  <2> QED
    BY <1>6, <1>8, <2>1, <2>2, <2>4, <1>a DEF SetClock
<1>9. CASE UNCHANGED vars
  <2>1. now - began <= Limit
    BY <1>9 DEF vars, FileIsTrue
  <2> QED
    BY <1>6, <1>9, <2>1, <1>a DEF vars, memory, ghosts
<1>10. ~Serve /\ ~Beat /\ ~Exit
  BY DEF Serve, Beat, Exit, Enter, Attempting
<1> QED
  BY <1>1, <1>2, <1>4, <1>5, <1>7, <1>8, <1>9, <1>10 DEF Next

\* For any sequence of errors and retries: pages show the last error, and as
\* the time since when it has been that one the first of its row, as long as
\* an attempt with its delays is no longer than the stale limit.
THEOREM ErrorIsTold == Spec => []ErrorIsShown
<1>1. Init => MemoryIsTrue /\ FileIsTrue
  BY DEF Init, MemoryIsTrue, FileIsTrue, Attempting
<1>2. TypeOK /\ MemoryIsTrue /\ FileIsTrue => ErrorIsShown
  <2> SUFFICES ASSUME TypeOK, MemoryIsTrue, FileIsTrue, stage \in Attempting,
                      failures # <<>>, ~doubtful,
                      RetryInterval + 3 * Slack <= StaleAfter
               PROVE  /\ Banner = "error"
                      /\ file.error = failures[Len(failures)].error
                      /\ file.error_since = failures[FirstOfRow].at
    BY DEF ErrorIsShown, Attempting
  <2>1. /\ file \in ErrorFile /\ file.error = lastError
        /\ file.error_since = errorSince
        /\ wall - file.updated_at <= (now - began) + Before
        /\ now - began <= Limit
    BY DEF FileIsTrue
  <2>2. PICK i \in DOMAIN failures : BeginsRow(i) /\ errorSince = failures[i].at
    BY DEF MemoryIsTrue
  <2>3. FirstOfRow \in DOMAIN failures /\ BeginsRow(FirstOfRow)
    BY <2>2 DEF FirstOfRow
  <2>4. FirstOfRow = i
    BY <2>2, <2>3, OneRow DEF TypeOK, Failure
  <2>5. ~IsStale
    <3>1. /\ wall \in Int /\ file.updated_at \in Int /\ now \in Nat
          /\ began \in Nat /\ Slack \in Nat /\ RetryInterval \in Nat
          /\ StaleAfter \in Nat
      <4>1. Slack \in Nat /\ RetryInterval \in Nat /\ StaleAfter \in Nat
        BY HealthAssumption DEF HealthAssumption
      <4>2. now \in Nat /\ began \in Nat /\ wall \in Int
        BY DEF TypeOK, wall
      <4>3. file.updated_at \in Int
        BY <2>1, Kinds
      <4> QED
        BY <4>1, <4>2, <4>3
    <3>2. (now - began) + Before <= RetryInterval + 3 * Slack
      <4>1. CASE stage = "starting"
        <5>1. now - began <= Slack /\ Before = RetryInterval + 2 * Slack
          BY <2>1, <4>1 DEF Limit, Before
        <5> QED
          BY <3>1, <5>1
      <4>2. CASE stage = "cleanup"
        <5>1. now - began <= Slack /\ Before = 0
          BY <2>1, <4>2 DEF Limit, Before
        <5> QED
          BY <3>1, <5>1
      <4>3. CASE stage = "waiting"
        <5>1. now - began <= RetryInterval + Slack /\ Before = Slack
          BY <2>1, <4>3 DEF Limit, Before
        <5> QED
          BY <3>1, <5>1
      <4> QED
        BY <4>1, <4>2, <4>3 DEF Attempting
    <3>3. Before \in Nat
      BY <3>1 DEF Before
    <3> DEFINE age == wall - file.updated_at
    <3>4. age \in Int /\ age <= (now - began) + Before
      BY <2>1, <3>1
    <3> HIDE DEF age
    <3>5. ~(age > StaleAfter)
      BY <3>1, <3>2, <3>3, <3>4
    <3> QED
      BY <3>5 DEF IsStale, age
  <2>6. Banner = "error"
    BY <2>1, <2>5, Kinds DEF Banner
  <2> QED
    BY <2>1, <2>2, <2>4, <2>6 DEF MemoryIsTrue
<1> QED
  BY <1>1, <1>2, Typing, MemoryStays, FileStays, PTL DEF Spec
=============================================================================
