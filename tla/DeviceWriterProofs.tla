------------------------- MODULE DeviceWriterProofs -------------------------
(***************************************************************************)
(* Theorems about DeviceWriter, for every set of days, every limit, with   *)
(* and without write errors and late producers.  First what the files hold *)
(* and what the indexer is offered; then what is left on the disk: lines   *)
(* are never merged while no write fails, what is durable stays, no        *)
(* message is lost silently, and the day files implement DeviceLog.        *)
(***************************************************************************)
EXTENDS DeviceWriter, TLAPS, SequenceTheorems, FiniteSetTheorems

(***************************************************************************)
(* What the control operators shared by the coroutine's steps leave        *)
(* behind.  A flush that has just begun holds buf and is about to write    *)
(* one of its days.                                                        *)
(***************************************************************************)

FlushBegun(buf) ==
    /\ buffer' = buf
    /\ pc' = "open"
    /\ pos' = 0
    /\ cur' \in Days
    /\ cur' \notin todo'
    /\ todo' \cup {cur'} = DaysOf(buf)
    /\ todo' \subseteq Days
    /\ final' \in BOOLEAN
    /\ syncing' \in BOOLEAN

LEMMA StartDayFacts ==
    ASSUME NEW buf \in Seq(Msg), NEW days \in SUBSET Days, StartDay(buf, days)
    PROVE  /\ pc' = "open"
           /\ pos' = 0
           /\ cur' \in days
           /\ todo' = days \ {cur'}
  BY DEF StartDay

LEMMA DaysOfType ==
    ASSUME NEW buf \in Seq(Msg)
    PROVE  DaysOf(buf) \in SUBSET Days
  <1>1. \A i \in DOMAIN buf : buf[i] \in Msg
    OBVIOUS
  <1>2. \A i \in DOMAIN buf : buf[i].day \in Days
    BY <1>1 DEF Msg
  <1>3. QED BY <1>2 DEF DaysOf

LEMMA StartFlushFacts ==
    ASSUME NEW buf \in Seq(Msg), NEW force \in BOOLEAN, fsyncDue \in BOOLEAN,
           StartFlush(buf, force)
    PROVE  FlushBegun(buf)
  BY StartDayFacts, DaysOfType DEF StartFlush, FlushBegun

\* The three ways through the loop head: wait for a message, return with
\* nothing to flush, or begin the last flush.
Waits(buf, q, off) ==
    /\ pc' = "get"
    /\ buffer' = buf
    /\ queue' = q
    /\ offered' = off
    /\ NoFlush

Returns(buf, q, off) ==
    /\ pc' = "done"
    /\ buf = <<>>
    /\ q = <<>>
    /\ buffer' = <<>>
    /\ queue' = <<>>
    /\ offered' = off \o IdsOf(q)
    /\ NoFlush

FlushesAll(buf, q, off) ==
    /\ FlushBegun(buf \o q)
    /\ final' = TRUE
    /\ queue' = <<>>
    /\ offered' = off \o IdsOf(q)

LEMMA LoopTopFacts ==
    ASSUME NEW buf \in Seq(Msg), NEW q \in Seq(Msg), NEW off, fsyncDue \in BOOLEAN,
           LoopTop(buf, q, off)
    PROVE  Waits(buf, q, off) \/ Returns(buf, q, off) \/ FlushesAll(buf, q, off)
  <1>1. CASE ~stopping
    BY <1>1 DEF LoopTop, Waits
  <1>2. CASE stopping
    <2>1. buf \o q \in Seq(Msg)
      OBVIOUS
    <2>2. CASE buf \o q = <<>>
      <3>1. buf = <<>> /\ q = <<>>
        BY <2>2
      <3>2. QED BY <1>2, <2>2, <3>1 DEF LoopTop, Drain, Returns
    <2>3. CASE buf \o q # <<>>
      <3>1. StartFlush(buf \o q, TRUE) /\ queue' = <<>> /\ offered' = off \o IdsOf(q)
        BY <1>2, <2>3 DEF LoopTop, Drain
      <3>2. FlushBegun(buf \o q)
        BY <2>1, <3>1, StartFlushFacts
      <3>3. final' = TRUE
        BY <3>1 DEF StartFlush
      <3>4. QED BY <3>1, <3>2, <3>3 DEF FlushesAll
    <2>4. QED BY <2>2, <2>3
  <1>3. QED BY <1>1, <1>2

-----------------------------------------------------------------------------
(***************************************************************************)
(* Type correctness.                                                       *)
(***************************************************************************)

\* The part of TypeOK that the control operators assign.
CoroutineOK ==
    /\ queue \in Seq(Msg)
    /\ buffer \in Seq(Msg)
    /\ pc \in Control
    /\ final \in BOOLEAN
    /\ syncing \in BOOLEAN
    /\ todo \in SUBSET Days
    /\ cur \in Days \cup {NoDay}
    /\ cur \in Days <=> pc \in {"open", "write"}
    /\ pos \in Nat
    /\ offered \in Seq(Nat)

LEMMA IdsOfType ==
    ASSUME NEW q \in Seq(Msg)
    PROVE  /\ IdsOf(q) \in Seq(Nat)
           /\ Len(IdsOf(q)) = Len(q)
  <1>1. \A i \in DOMAIN q : q[i] \in Msg
    OBVIOUS
  <1>2. \A i \in DOMAIN q : q[i].id \in Nat
    BY <1>1 DEF Msg
  <1>3. DOMAIN q = 1..Len(q) /\ Len(q) \in Nat
    OBVIOUS
  <1>4. IdsOf(q) \in [1..Len(q) -> Nat]
    BY <1>2, <1>3 DEF IdsOf
  <1>5. QED BY <1>3, <1>4

LEMMA LoopTopType ==
    ASSUME NEW buf \in Seq(Msg), NEW q \in Seq(Msg), NEW off \in Seq(Nat),
           fsyncDue \in BOOLEAN, LoopTop(buf, q, off)
    PROVE  CoroutineOK'
  <1>1. off \o IdsOf(q) \in Seq(Nat) /\ buf \o q \in Seq(Msg) /\ <<>> \in Seq(Msg)
    BY IdsOfType
  <1>2. CASE Waits(buf, q, off)
    BY <1>2, DeviceWriterAssumption DEF Waits, CoroutineOK, NoFlush, Control
  <1>3. CASE Returns(buf, q, off)
    BY <1>1, <1>3, DeviceWriterAssumption DEF Returns, CoroutineOK, NoFlush, Control
  <1>4. CASE FlushesAll(buf, q, off)
    BY <1>1, <1>4 DEF FlushesAll, FlushBegun, CoroutineOK, Control
  <1>5. QED BY <1>2, <1>3, <1>4, LoopTopFacts

LEMMA FlushBegunType ==
    ASSUME NEW buf \in Seq(Msg), FlushBegun(buf),
           queue' \in Seq(Msg), offered' \in Seq(Nat)
    PROVE  CoroutineOK'
  BY DEF FlushBegun, CoroutineOK, Control

LEMMA DayDoneType ==
    ASSUME TypeOK, DayDone
    PROVE  CoroutineOK' /\ fsyncDue' \in BOOLEAN
  <1>1. CASE todo # {}
    <2>1. /\ StartDay(buffer, todo)
          /\ UNCHANGED <<buffer, final, syncing, queue, offered, fsyncDue>>
      BY <1>1 DEF DayDone
    <2>2. QED BY <2>1, StartDayFacts DEF TypeOK, CoroutineOK, Control
  <1>2. CASE todo = {} /\ final
    <2>1. <<>> \in Seq(Msg)
      OBVIOUS
    <2>2. /\ fsyncDue' = (fsyncDue /\ ~syncing)
          /\ pc' = "done"
          /\ buffer' = <<>>
          /\ NoFlush
          /\ UNCHANGED <<queue, offered>>
      BY <1>2 DEF DayDone
    <2>3. QED BY <2>1, <2>2, DeviceWriterAssumption DEF NoFlush, TypeOK, CoroutineOK, Control
  <1>3. CASE todo = {} /\ ~final
    <2>1. LoopTop(<<>>, queue, offered) /\ fsyncDue' \in BOOLEAN
      BY <1>3 DEF DayDone
    <2>2. <<>> \in Seq(Msg)
      OBVIOUS
    <2>3. QED BY <2>1, <2>2, LoopTopType DEF TypeOK
  <1>4. QED BY <1>1, <1>2, <1>3

LEMMA TextAppended ==
    ASSUME TypeOK, NEW i \in DOMAIN buffer, NEW w \in BOOLEAN, NEW e \in BOOLEAN,
           files' = [files EXCEPT ![cur] =
              Append(@, [id |-> buffer[i].id, whole |-> w, eol |-> e])]
    PROVE  files' \in [Days -> Seq(Text)]
  <1>1. buffer[i] \in Msg
    BY DEF TypeOK
  <1>2. [id |-> buffer[i].id, whole |-> w, eol |-> e] \in Text
    BY <1>1 DEF Msg, Text
  <1>3. CASE cur \in Days
    <2>1. files[cur] \in Seq(Text)
      BY <1>3 DEF TypeOK
    <2>2. Append(files[cur], [id |-> buffer[i].id, whole |-> w, eol |-> e]) \in Seq(Text)
      BY <1>2, <2>1
    <2>3. QED BY <2>2 DEF TypeOK
  <1>4. CASE cur \notin Days
    BY <1>4 DEF TypeOK
  <1>5. QED BY <1>3, <1>4

LEMMA FragmentType ==
    ASSUME TypeOK, Fragment \/ UNCHANGED files
    PROVE  files' \in [Days -> Seq(Text)]
  BY TextAppended DEF Fragment, TypeOK

LEMMA UnwrittenType ==
    ASSUME TypeOK
    PROVE  /\ Unwritten \in SUBSET Nat
           /\ Volatile \in SUBSET Nat
  <1>1. /\ \A i \in DOMAIN buffer : buffer[i] \in Msg
        /\ \A i \in DOMAIN queue : queue[i] \in Msg
    BY DEF TypeOK
  <1>2. /\ \A i \in DOMAIN buffer : buffer[i].id \in Nat
        /\ \A i \in DOMAIN queue : queue[i].id \in Nat
    BY <1>1 DEF Msg
  <1>3. QED BY <1>2 DEF Unwritten, Volatile, Unsettled

LEMMA CleanTailFacts ==
    ASSUME NEW f \in Seq(Text)
    PROVE  /\ CleanTail(f) \in Seq(Text)
           /\ Len(CleanTail(f)) = Len(f)
           /\ \A i \in 1..Len(f) :
                 /\ CleanTail(f)[i].id = f[i].id
                 /\ CleanTail(f)[i].whole = f[i].whole
                 /\ f[i].eol \/ i = Len(f) => CleanTail(f)[i].eol
  <1>1. CASE f = <<>>
    BY <1>1 DEF CleanTail
  <1>2. CASE f # <<>>
    <2>1. CleanTail(f) = [f EXCEPT ![Len(f)].eol = TRUE]
      BY <1>2 DEF CleanTail
    <2>2. \A i \in 1..Len(f) : f[i] \in Text
      OBVIOUS
    <2>3. Len(f) \in 1..Len(f) /\ DOMAIN f = 1..Len(f)
      BY <1>2
    <2>4. [f[Len(f)] EXCEPT !.eol = TRUE] \in Text
      BY <2>2, <2>3 DEF Text
    <2>5. CleanTail(f) = [f EXCEPT ![Len(f)] = [f[Len(f)] EXCEPT !.eol = TRUE]]
      BY <2>1
    <2>6. CleanTail(f) \in Seq(Text) /\ Len(CleanTail(f)) = Len(f)
      BY <2>3, <2>4, <2>5
    <2>7. \A i \in 1..Len(f) :
             CleanTail(f)[i] = IF i = Len(f) THEN [f[i] EXCEPT !.eol = TRUE] ELSE f[i]
      BY <2>3, <2>5
    <2>8. QED BY <2>2, <2>6, <2>7 DEF Text
  <1>3. QED BY <1>1, <1>2

LEMMA SurvivingFacts ==
    ASSUME NEW f \in Seq(Text), NEW n \in 0..Len(f),
           NEW cut \in {"none", "newline", "text"}
    PROVE  /\ Surviving(f, n, cut) \in Seq(Text)
           /\ Len(Surviving(f, n, cut)) = n
           /\ \A i \in 1..n :
                 /\ Surviving(f, n, cut)[i].id = f[i].id
                 /\ i < n \/ cut = "none" => Surviving(f, n, cut)[i] = f[i]
                 /\ i = n /\ cut # "none" =>
                       /\ ~Surviving(f, n, cut)[i].eol
                       /\ Surviving(f, n, cut)[i].whole => f[i].whole
  <1>1. \A i \in 1..n : f[i] \in Text
    OBVIOUS
  <1>2. \A i \in 1..n : f[i] = [id |-> f[i].id, whole |-> f[i].whole, eol |-> f[i].eol]
    BY <1>1 DEF Text
  <1>3. \A i \in 1..n : Surviving(f, n, cut)[i] =
           IF i < n \/ cut = "none" THEN f[i]
           ELSE [id |-> f[i].id, whole |-> f[i].whole /\ cut = "newline", eol |-> FALSE]
    BY DEF Surviving
  <1>4. ASSUME NEW i \in 1..n
        PROVE  /\ Surviving(f, n, cut)[i] \in Text
               /\ Surviving(f, n, cut)[i].id = f[i].id
               /\ i < n \/ cut = "none" => Surviving(f, n, cut)[i] = f[i]
               /\ i = n /\ cut # "none" =>
                     /\ ~Surviving(f, n, cut)[i].eol
                     /\ Surviving(f, n, cut)[i].whole => f[i].whole
    <2> DEFINE t == f[i]
               w == t.whole /\ cut = "newline"
    <2>a. t \in Text
      BY <1>1
    <2>b. w \in BOOLEAN /\ (w => t.whole)
      BY Zenon
    <2>1. t \in Text /\ w \in BOOLEAN /\ (w => t.whole)
      BY <2>a, <2>b
    <2>2. CASE i < n \/ cut = "none"
      <3>1. Surviving(f, n, cut)[i] = f[i]
        BY <1>3, <2>2
      <3>2. i = n => cut = "none"
        BY <2>2
      <3>3. QED BY <2>1, <3>1, <3>2
    <2>3. CASE ~(i < n \/ cut = "none")
      <3>1. Surviving(f, n, cut)[i] = [id |-> t.id, whole |-> w, eol |-> FALSE]
        BY <1>3, <2>3
      <3> HIDE DEF t, w
      <3>2. /\ [id |-> t.id, whole |-> w, eol |-> FALSE] \in Text
            /\ ~[id |-> t.id, whole |-> w, eol |-> FALSE].eol
            /\ [id |-> t.id, whole |-> w, eol |-> FALSE].whole = w
            /\ [id |-> t.id, whole |-> w, eol |-> FALSE].id = t.id
        BY <2>1 DEF Text
      <3>3. QED BY <2>1, <2>3, <3>1, <3>2 DEF t
    <2>4. QED BY <2>2, <2>3
  <1>5. \A i \in 1..n : Surviving(f, n, cut)[i] \in Text
    BY <1>4
  <1>6. DOMAIN Surviving(f, n, cut) = 1..n
    BY DEF Surviving
  <1>7. Surviving(f, n, cut) \in [1..n -> Text]
    BY <1>5, <1>6 DEF Surviving
  <1>8. Surviving(f, n, cut) \in Seq(Text) /\ Len(Surviving(f, n, cut)) = n
    BY <1>7
  <1>9. QED BY <1>4, <1>8

\* Queue, buffer, files and the coroutine's place in a flush keep their types.
THEOREM Typing == Spec => []TypeOK
  <1>1. Init => TypeOK
    <2> SUFFICES ASSUME Init PROVE TypeOK
      OBVIOUS
    <2>1. /\ queue \in Seq(Msg)
          /\ buffer \in Seq(Msg)
          /\ offered \in Seq(Nat)
          /\ files \in [Days -> Seq(Text)]
          /\ synced \in [Days -> Nat]
      BY DEF Init
    <2>2. stats \in QueueStats
      BY DEF Init, NoStats, QueueStats
    <2>3. QED
      BY <2>1, <2>2, DeviceWriterAssumption DEF Init, TypeOK, Control
  <1>2. TypeOK /\ [Next]_vars => TypeOK'
    <2> SUFFICES ASSUME TypeOK, [Next]_vars
                 PROVE  TypeOK'
      OBVIOUS
    <2>1. CASE Enqueue
      <3>1. \A today \in Days : [id |-> accepted + 1, day |-> today] \in Msg
        BY DEF TypeOK, Msg
      <3>2. queue' \in Seq(Msg) /\ accepted' \in Nat
        <4>1. CASE UNCHANGED <<queue, accepted>>
          BY <4>1 DEF TypeOK
        <4>2. CASE /\ \E today \in Days :
                         queue' = Append(queue, [id |-> accepted + 1, day |-> today])
                   /\ accepted' = accepted + 1
          BY <3>1, <4>2 DEF TypeOK
        <4>3. QED BY <2>1, <4>1, <4>2 DEF Enqueue
      <3>3. stats' \in QueueStats
        <4> DEFINE lag == stats.lag + (IF Len(queue) >= SoftLimit THEN 1 ELSE 0)
        <4>1. /\ lag \in Nat /\ stats.dropped + 1 \in Nat /\ Len(queue) + 1 \in Nat
              /\ stats \in QueueStats
          BY DeviceWriterAssumption DEF TypeOK, QueueStats
        <4>2. \/ stats' = [stats EXCEPT !.lag = lag, !.queued = Len(queue) + 1]
              \/ stats' = [stats EXCEPT !.lag = lag, !.dropped = @ + 1]
          BY <2>1 DEF Enqueue
        <4> HIDE DEF lag
        <4>3. QED BY <4>1, <4>2 DEF QueueStats
      <3>4. QED
        BY <2>1, <3>2, <3>3 DEF Enqueue, TypeOK, coroutine, disk, ghost
    <2>2. CASE FsyncIntervalPasses
      BY <2>2 DEF FsyncIntervalPasses, TypeOK, coroutine, disk, ghost
    <2>3. CASE Stop
      BY <2>3 DEF Stop, TypeOK, coroutine, disk, ghost
    <2>4. CASE Get
      <3> DEFINE buf == Append(buffer, Head(queue))
                 off == Append(offered, Head(queue).id)
      <3>1. /\ Head(queue) \in Msg
            /\ Tail(queue) \in Seq(Msg)
            /\ Len(queue) - 1 \in Nat
        BY <2>4 DEF Get, TypeOK
      <3>2. buf \in Seq(Msg) /\ off \in Seq(Nat)
        <4>1. Head(queue).id \in Nat
          BY <3>1 DEF Msg
        <4>2. QED BY <3>1, <4>1 DEF TypeOK
      <3> HIDE DEF buf, off
      <3>3. CoroutineOK'
        <4>1. \/ StartFlush(buf, FALSE) /\ queue' = Tail(queue) /\ offered' = off
              \/ LoopTop(buf, Tail(queue), off)
          BY <2>4 DEF Get, buf, off
        <4>2. CASE StartFlush(buf, FALSE) /\ queue' = Tail(queue) /\ offered' = off
          <5>1. FlushBegun(buf)
            BY <4>2, <3>2, StartFlushFacts DEF TypeOK
          <5>2. QED BY <4>2, <5>1, <3>1, <3>2, FlushBegunType
        <4>3. CASE LoopTop(buf, Tail(queue), off)
          BY <4>3, <3>1, <3>2, LoopTopType DEF TypeOK
        <4>4. QED BY <4>1, <4>2, <4>3
      <3>4. stats' \in QueueStats
        <4>1. stats' = [stats EXCEPT !.queued = Len(queue) - 1] /\ stats \in QueueStats
          BY <2>4 DEF Get, TypeOK
        <4>2. QED BY <3>1, <4>1 DEF QueueStats
      <3>5. QED
        BY <2>4, <3>3, <3>4 DEF Get, TypeOK, CoroutineOK, disk, ghost
    <2>5. CASE Timeout
      <3>1. CoroutineOK'
        <4>1. CASE buffer # <<>>
          <5>1. FlushBegun(buffer) /\ UNCHANGED <<queue, offered>>
            BY <2>5, <4>1, StartFlushFacts DEF Timeout, TypeOK
          <5>2. QED BY <5>1, FlushBegunType DEF TypeOK
        <4>2. CASE buffer = <<>>
          <5>1. LoopTop(<<>>, queue, offered) /\ <<>> \in Seq(Msg)
            BY <2>5, <4>2 DEF Timeout
          <5>2. QED BY <5>1, LoopTopType DEF TypeOK
        <4>3. QED BY <4>1, <4>2
      <3>2. QED
        BY <2>5, <3>1 DEF Timeout, TypeOK, CoroutineOK, disk, ghost
    <2>6. CASE Open
      <3>1. files' \in [Days -> Seq(Text)]
        <4>1. \A d \in Days : CleanTail(files[d]) \in Seq(Text)
          BY CleanTailFacts DEF TypeOK
        <4>2. QED BY <2>6, <4>1 DEF Open, TypeOK
      <3>2. QED
        BY <2>6, <3>1 DEF Open, TypeOK, Control, ghost
    <2>7. CASE WriteLine
      <3>1. PICK i \in DOMAIN buffer :
               /\ files' = [files EXCEPT ![cur] =
                     Append(@, [id |-> buffer[i].id, whole |-> TRUE, eol |-> TRUE])]
               /\ pos' = i
        BY <2>7 DEF WriteLine
      <3>2. files' \in [Days -> Seq(Text)]
        BY <3>1, TextAppended
      <3>3. pos' \in Nat
        BY <3>1 DEF TypeOK
      <3>4. QED
        BY <2>7, <3>2, <3>3 DEF WriteLine, TypeOK, ghost
    <2>8. CASE Finish
      <3>1. CoroutineOK' /\ fsyncDue' \in BOOLEAN
        BY <2>8, DayDoneType DEF Finish
      <3>2. synced' \in [Days -> Nat]
        <4>1. cur \in Days => Len(files[cur]) \in Nat
          BY DEF TypeOK
        <4>2. QED BY <2>8, <4>1 DEF Finish, TypeOK
      <3>3. stats' \in QueueStats
        <4>1. Counted \in Nat
          <5>1. IsFiniteSet(DOMAIN buffer)
            BY FS_Interval DEF TypeOK
          <5>2. {i \in DOMAIN buffer : buffer[i].day = cur} \subseteq DOMAIN buffer
            OBVIOUS
          <5>3. QED BY <5>1, <5>2, FS_Subset, FS_CardinalityType DEF Counted
        <4>2. stats' = [stats EXCEPT !.written = @ + Counted] /\ stats \in QueueStats
          BY <2>8 DEF Finish, TypeOK
        <4>3. QED BY <4>1, <4>2 DEF QueueStats
      <3>4. sanitized' \in SUBSET Days
        BY <2>8 DEF Finish, TypeOK
      <3>5. QED
        BY <2>8, <3>1, <3>2, <3>3, <3>4 DEF Finish, TypeOK, CoroutineOK, ghost
    <2>9. CASE WriteFails
      <3>1. CoroutineOK' /\ fsyncDue' \in BOOLEAN
        BY <2>9, DayDoneType DEF WriteFails
      <3>2. files' \in [Days -> Seq(Text)]
        BY <2>9, FragmentType DEF WriteFails
      <3>3. lost' \in SUBSET Nat
        BY <2>9, UnwrittenType DEF WriteFails, TypeOK
      <3>4. QED
        BY <2>9, <3>1, <3>2, <3>3 DEF WriteFails, TypeOK, CoroutineOK, ghost
    <2>10. CASE Exit
      <3>1. files' \in [Days -> Seq(Text)]
        BY <2>10, FragmentType DEF Exit
      <3>2. lost' \in SUBSET Nat
        BY <2>10, UnwrittenType DEF Exit, TypeOK
      <3>3. <<>> \in Seq(Msg)
        OBVIOUS
      <3>4. QED
        BY <2>10, <3>1, <3>2, <3>3, DeviceWriterAssumption DEF Exit, MemoryLost, NoFlush, TypeOK, Control
    <2>11. CASE PowerLoss
      <3>1. PICK keep \in [Days -> 0..accepted],
                 cut \in [Days -> {"none", "newline", "text"}] :
               /\ \A d \in Days :
                     /\ keep[d] \in synced[d]..Len(files[d])
                     /\ cut[d] # "none" => keep[d] > synced[d]
               /\ files' = [d \in Days |-> Surviving(files[d], keep[d], cut[d])]
               /\ synced' = [d \in Days |->
                     IF cut[d] # "none" THEN keep[d] - 1 ELSE keep[d]]
        BY <2>11 DEF PowerLoss
      <3>2. ASSUME NEW d \in Days
            PROVE  /\ Surviving(files[d], keep[d], cut[d]) \in Seq(Text)
                   /\ (IF cut[d] # "none" THEN keep[d] - 1 ELSE keep[d]) \in Nat
        <4>1. files[d] \in Seq(Text) /\ synced[d] \in Nat /\ accepted \in Nat
          BY DEF TypeOK
        <4>2. keep[d] \in 0..Len(files[d]) /\ cut[d] \in {"none", "newline", "text"}
          BY <3>1, <4>1
        <4>3. Surviving(files[d], keep[d], cut[d]) \in Seq(Text)
          BY <4>1, <4>2, SurvivingFacts
        <4>4. (IF cut[d] # "none" THEN keep[d] - 1 ELSE keep[d]) \in Nat
          BY <3>1, <4>1, <4>2
        <4>5. QED BY <4>3, <4>4
      <3>3. files' \in [Days -> Seq(Text)] /\ synced' \in [Days -> Nat]
        BY <3>1, <3>2
      <3>4. lost' \in SUBSET Nat
        <4>1. \A d \in Days : Whole(files[d]) \subseteq Nat
          <5>1. \A d \in Days : \A i \in DOMAIN files[d] : files[d][i] \in Text
            BY DEF TypeOK
          <5>2. QED BY <5>1 DEF Whole, Text
        <4>2. Volatile \in SUBSET Nat /\ lost \in SUBSET Nat
          BY UnwrittenType DEF TypeOK
        <4>3. lost' = lost \cup Volatile
                 \cup UNION {Whole(files[d]) \ Whole(files'[d]) : d \in Days}
          BY <2>11 DEF PowerLoss
        <4>4. QED BY <4>1, <4>2, <4>3
      <3>5. <<>> \in Seq(Msg)
        OBVIOUS
      <3>6. QED
        BY <2>11, <3>3, <3>4, <3>5, DeviceWriterAssumption
        DEF PowerLoss, MemoryLost, NoFlush, TypeOK, Control
    <2>12. CASE Restart
      <3>1. <<>> \in Seq(Nat)
        OBVIOUS
      <3>2. stats' \in QueueStats
        BY <2>12 DEF Restart, NoStats, QueueStats
      <3>3. QED
        <4>1. UNCHANGED <<queue, buffer, final, syncing, todo, cur, pos, files,
                          synced, accepted, lost>>
          BY <2>12 DEF Restart, disk
        <4>2. /\ pc = "down" /\ pc' = "get"
              /\ stopping' = FALSE /\ fsyncDue' = TRUE
              /\ sanitized' = {} /\ offered' = <<>>
              /\ born' = accepted /\ lives' = lives + 1
          BY <2>12 DEF Restart
        <4>3. (queue \in Seq(Msg) /\ buffer \in Seq(Msg))' /\ offered' \in Seq(Nat)
          BY <3>1, <4>1, <4>2 DEF TypeOK
        <4>4. (files \in [Days -> Seq(Text)] /\ synced \in [Days -> Nat])'
          BY <4>1 DEF TypeOK
        <4>5. /\ cur' \in Days \cup {NoDay}
              /\ cur' \in Days <=> pc' \in {"open", "write"}
          BY <4>1, <4>2 DEF TypeOK
        <4>6. lives' \in Nat /\ born' \in Nat /\ pos' \in Nat /\ accepted' \in Nat
          BY <4>1, <4>2 DEF TypeOK
        <4>7. /\ (final \in BOOLEAN /\ syncing \in BOOLEAN /\ stopping \in BOOLEAN)'
              /\ fsyncDue' \in BOOLEAN
              /\ pc' \in Control
          BY <4>1, <4>2 DEF TypeOK, Control
        <4>8. (todo \in SUBSET Days /\ sanitized \in SUBSET Days /\ lost \in SUBSET Nat)'
          BY <4>1, <4>2 DEF TypeOK
        <4>9. QED BY <3>2, <4>3, <4>4, <4>5, <4>6, <4>7, <4>8 DEF TypeOK
    <2>13. CASE UNCHANGED vars
      BY <2>13 DEF vars, TypeOK, coroutine, disk, ghost
    <2>14. QED
      BY <2>1, <2>2, <2>3, <2>4, <2>5, <2>6, <2>7, <2>8, <2>9, <2>10, <2>11,
         <2>12, <2>13 DEF Next
  <1>3. QED BY <1>1, <1>2, PTL DEF Spec

-----------------------------------------------------------------------------
(***************************************************************************)
(* Order.  A message has the number of its acceptance, so the messages a   *)
(* writer holds, buffer then queue, are numbered without a gap up to       *)
(* accepted.  What is in the files is older than what is queued, and older *)
(* than the waiting messages of the same day.                              *)
(***************************************************************************)

\* Buffer buf and queue q hold consecutive messages, the last being the last
\* accepted.
Consecutive(buf, q) ==
    /\ Len(buf) + Len(q) <= accepted
    /\ \A k \in 1..Len(buf) : buf[k].id = accepted - Len(q) - Len(buf) + k
    /\ \A k \in 1..Len(q) : q[k].id = accepted - Len(q) + k

\* No file of fs has a message of queue q, or a younger one.
Below(fs, q) ==
    \A d \in Days : \A i \in 1..Len(fs[d]) : fs[d][i].id <= accepted - Len(q)

\* Message m is younger than what fs has of its day.
Ahead(fs, m) ==
    \A i \in 1..Len(fs[m.day]) : fs[m.day][i].id < m.id

Sorted(fs) ==
    \A d \in Days : \A i, j \in 1..Len(fs[d]) : i < j => fs[d][i].id < fs[d][j].id

\* What the control operators find: everything in buf is still to be written.
Held(fs, buf, q) ==
    /\ Consecutive(buf, q)
    /\ Below(fs, q)
    /\ \A k \in 1..Len(buf) : Ahead(fs, buf[k])

FlowInv ==
    /\ pc \notin {"open", "write"} => todo = {} /\ pos = 0 /\ ~final
    /\ pc \in {"done", "down"} => buffer = <<>>
    /\ pc = "down" => queue = <<>>
    /\ pc \in {"open", "write"} => cur \notin todo

OrderInv ==
    /\ FlowInv
    /\ Consecutive(buffer, queue)
    /\ Below(files, queue)
    /\ \A k \in 1..Len(buffer) : Waiting(k) => Ahead(files, buffer[k])
    /\ Sorted(files)

LEMMA HeldFromQueue ==
    ASSUME TypeOK, NEW fs, Consecutive(buffer, queue), Below(fs, queue)
    PROVE  Held(fs, <<>>, queue)
  BY DEF TypeOK, Held, Consecutive, Below

\* Taking the head of the queue into the buffer.
LEMMA HeldTaken ==
    ASSUME accepted \in Nat, NEW fs \in [Days -> Seq(Text)],
           NEW buf \in Seq(Msg), NEW q \in Seq(Msg), q # <<>>, Held(fs, buf, q)
    PROVE  Held(fs, Append(buf, Head(q)), Tail(q))
  <1> DEFINE b == Append(buf, Head(q))
             t == Tail(q)
  <1>1. /\ Len(q) \in Nat /\ Len(buf) \in Nat /\ Len(q) >= 1
        /\ Len(t) = Len(q) - 1
        /\ Len(b) = Len(buf) + 1
        /\ \A k \in 1..Len(buf) : b[k] = buf[k]
        /\ b[Len(buf) + 1] = q[1]
        /\ \A k \in 1..Len(t) : t[k] = q[k + 1]
    OBVIOUS
  <1> HIDE DEF b, t
  <1>2. Consecutive(b, t)
    <2>1. Consecutive(buf, q)
      BY DEF Held
    <2>2. Len(b) + Len(t) <= accepted
      BY <1>1, <2>1 DEF Consecutive
    <2>3. ASSUME NEW k \in 1..Len(b)
          PROVE  b[k].id = accepted - Len(t) - Len(b) + k
      <3>1. CASE k \in 1..Len(buf)
        <4>1. b[k].id = accepted - Len(q) - Len(buf) + k
          BY <1>1, <2>1, <3>1 DEF Consecutive
        <4>2. accepted - Len(t) - Len(b) = accepted - Len(q) - Len(buf)
          BY <1>1
        <4>3. QED BY <4>1, <4>2
      <3>2. CASE k = Len(buf) + 1
        <4>1. q[1].id = accepted - Len(q) + 1
          BY <1>1, <2>1 DEF Consecutive
        <4>2. b[k].id = accepted - Len(q) + 1
          BY <1>1, <3>2, <4>1
        <4>3. QED BY <1>1, <3>2, <4>2
      <3>3. QED BY <1>1, <3>1, <3>2
    <2>4. ASSUME NEW k \in 1..Len(t)
          PROVE  t[k].id = accepted - Len(t) + k
      <3>1. k + 1 \in 1..Len(q) /\ t[k] = q[k + 1]
        BY <1>1
      <3>2. q[k + 1].id = accepted - Len(q) + (k + 1)
        BY <2>1, <3>1 DEF Consecutive
      <3>3. QED BY <1>1, <3>1, <3>2
    <2>5. QED BY <2>2, <2>3, <2>4 DEF Consecutive
  <1>3. Below(fs, t)
    <2> SUFFICES ASSUME NEW d \in Days, NEW i \in 1..Len(fs[d])
                 PROVE  fs[d][i].id <= accepted - Len(t)
      BY DEF Below
    <2>1. fs[d][i] \in Text /\ fs[d][i].id <= accepted - Len(q)
      BY DEF Held, Below
    <2>2. fs[d][i].id \in Nat
      BY <2>1 DEF Text
    <2>3. QED BY <1>1, <2>1, <2>2
  <1>4. ASSUME NEW k \in 1..Len(b)
        PROVE  Ahead(fs, b[k])
    <2>1. CASE k \in 1..Len(buf)
      BY <1>1, <2>1 DEF Held
    <2>2. CASE k = Len(buf) + 1
      <3>1. b[k] = q[1] /\ q[1] \in Msg /\ q[1].id = accepted - Len(q) + 1
        BY <1>1, <2>2 DEF Held, Consecutive
      <3>2. ASSUME NEW i \in 1..Len(fs[q[1].day])
            PROVE  fs[q[1].day][i].id < q[1].id
        <4>1. q[1].day \in Days
          BY <3>1 DEF Msg
        <4>2. fs[q[1].day][i] \in Text /\ fs[q[1].day][i].id <= accepted - Len(q)
          BY <4>1 DEF Held, Below
        <4>3. fs[q[1].day][i].id \in Nat
          BY <4>2 DEF Text
        <4> DEFINE x == fs[q[1].day][i].id
        <4>4. x \in Nat /\ x <= accepted - Len(q)
          BY <4>2, <4>3
        <4> HIDE DEF x
        <4>5. x < accepted - Len(q) + 1
          BY <1>1, <4>4
        <4>6. QED BY <3>1, <4>5 DEF x
      <3>3. QED BY <3>1, <3>2 DEF Ahead
    <2>3. QED BY <1>1, <2>1, <2>2
  <1>5. QED BY <1>2, <1>3, <1>4 DEF Held, b, t

\* Draining the queue into the buffer.
LEMMA HeldDrained ==
    ASSUME accepted \in Nat, NEW fs \in [Days -> Seq(Text)],
           NEW buf \in Seq(Msg), NEW q \in Seq(Msg), Held(fs, buf, q)
    PROVE  Held(fs, buf \o q, <<>>)
  <1> DEFINE b == buf \o q
  <1>1. /\ Len(q) \in Nat /\ Len(buf) \in Nat
        /\ Len(b) = Len(buf) + Len(q)
        /\ \A k \in 1..Len(b) : b[k] = IF k <= Len(buf) THEN buf[k] ELSE q[k - Len(buf)]
        /\ Len(<<>>) = 0
    OBVIOUS
  <1> HIDE DEF b
  <1>2. Consecutive(b, <<>>)
    <2>1. Consecutive(buf, q)
      BY DEF Held
    <2>2. Len(b) + Len(<<>>) <= accepted
      BY <1>1, <2>1 DEF Consecutive
    <2>3. ASSUME NEW k \in 1..Len(b)
          PROVE  b[k].id = accepted - Len(<<>>) - Len(b) + k
      <3>1. CASE k <= Len(buf)
        BY <1>1, <2>1, <3>1 DEF Consecutive
      <3>2. CASE ~(k <= Len(buf))
        <4>1. k - Len(buf) \in 1..Len(q) /\ b[k] = q[k - Len(buf)]
          BY <1>1, <3>2
        <4>2. q[k - Len(buf)].id = accepted - Len(q) + (k - Len(buf))
          BY <2>1, <4>1 DEF Consecutive
        <4>3. QED BY <1>1, <4>1, <4>2
      <3>3. QED BY <3>1, <3>2
    <2>4. QED BY <1>1, <2>2, <2>3 DEF Consecutive
  <1>3. Below(fs, <<>>)
    <2> SUFFICES ASSUME NEW d \in Days, NEW i \in 1..Len(fs[d])
                 PROVE  fs[d][i].id <= accepted - Len(<<>>)
      BY DEF Below
    <2>1. fs[d][i] \in Text /\ fs[d][i].id <= accepted - Len(q)
      BY DEF Held, Below
    <2>2. fs[d][i].id \in Nat
      BY <2>1 DEF Text
    <2>3. QED BY <1>1, <2>1, <2>2
  <1>4. ASSUME NEW k \in 1..Len(b)
        PROVE  Ahead(fs, b[k])
    <2>1. CASE k <= Len(buf)
      BY <1>1, <2>1 DEF Held
    <2>2. CASE ~(k <= Len(buf))
      <3> DEFINE j == k - Len(buf)
      <3>1. j \in 1..Len(q) /\ b[k] = q[j]
        BY <1>1, <2>2
      <3>2. q[j] \in Msg /\ q[j].id = accepted - Len(q) + j
        BY <1>1, <3>1 DEF Held, Consecutive
      <3>3. ASSUME NEW i \in 1..Len(fs[q[j].day])
            PROVE  fs[q[j].day][i].id < q[j].id
        <4>1. q[j].day \in Days
          BY <3>2 DEF Msg
        <4>2. fs[q[j].day][i] \in Text /\ fs[q[j].day][i].id <= accepted - Len(q)
          BY <4>1 DEF Held, Below
        <4>3. fs[q[j].day][i].id \in Nat
          BY <4>2 DEF Text
        <4> DEFINE x == fs[q[j].day][i].id
        <4>4. x \in Nat /\ x <= accepted - Len(q) /\ j \in Nat /\ j >= 1
          BY <1>1, <3>1, <4>2, <4>3
        <4> HIDE DEF x, j
        <4>5. x < accepted - Len(q) + j
          BY <1>1, <4>4
        <4>6. QED BY <3>2, <4>5 DEF x
      <3>4. QED BY <3>1, <3>3 DEF Ahead
    <2>3. QED BY <2>1, <2>2
  <1>5. QED BY <1>2, <1>3, <1>4 DEF Held, b

\* A flush that begins with messages that are all still to be written.
LEMMA FlushBegunOrder ==
    ASSUME TypeOK, TypeOK', NEW buf \in Seq(Msg), FlushBegun(buf),
           Held(files', buf, queue'), Sorted(files'), accepted' = accepted
    PROVE  OrderInv'
  <1>1. FlowInv'
    BY DEF FlushBegun, FlowInv
  <1>3. (Consecutive(buffer, queue))' /\ (Below(files, queue))'
    BY DEF Held, Consecutive, Below, FlushBegun
  <1>4. (\A k \in 1..Len(buffer) : Ahead(files, buffer[k]))'
    BY DEF Held, FlushBegun, Ahead
  <1>5. (Sorted(files))'
    BY DEF Sorted
  <1>6. QED BY <1>1, <1>3, <1>4, <1>5 DEF OrderInv

LEMMA LoopTopOrder ==
    ASSUME TypeOK, TypeOK', NEW buf \in Seq(Msg), NEW q \in Seq(Msg),
           NEW off \in Seq(Nat), LoopTop(buf, q, off),
           Held(files', buf, q), Sorted(files'), accepted' = accepted
    PROVE  OrderInv'
  <1>1. CASE Waits(buf, q, off)
    <2>1. FlowInv'
      BY <1>1 DEF Waits, NoFlush, FlowInv
    <2>2. (Consecutive(buffer, queue))' /\ (Below(files, queue))'
      BY <1>1 DEF Waits, Held, Consecutive, Below
    <2>3. (\A k \in 1..Len(buffer) : Ahead(files, buffer[k]))'
      BY <1>1 DEF Waits, Held, Ahead
    <2>4. QED BY <2>1, <2>2, <2>3 DEF OrderInv, Sorted
  <1>2. CASE Returns(buf, q, off)
    <2>1. FlowInv'
      BY <1>2 DEF Returns, NoFlush, FlowInv
    <2>2. (Consecutive(buffer, queue))' /\ (Below(files, queue))'
      BY <1>2 DEF Returns, Held, Consecutive, Below
    <2>3. (\A k \in 1..Len(buffer) : Ahead(files, buffer[k]))'
      BY <1>2 DEF Returns
    <2>4. QED BY <2>1, <2>2, <2>3 DEF OrderInv, Sorted
  <1>3. CASE FlushesAll(buf, q, off)
    <2>1. files' \in [Days -> Seq(Text)] /\ accepted \in Nat
      BY DEF TypeOK
    <2>2. Held(files', buf \o q, <<>>)
      BY <2>1, HeldDrained
    <2>3. buf \o q \in Seq(Msg)
      OBVIOUS
    <2>4. QED BY <1>3, <2>2, <2>3, FlushBegunOrder DEF FlushesAll
  <1>4. QED BY <1>1, <1>2, <1>3, LoopTopFacts DEF TypeOK

\* The files may have changed in this step, but only for the day just done.
LEMMA DayDoneOrder ==
    ASSUME TypeOK, TypeOK', FlowInv, DayDone, accepted' = accepted,
           Consecutive(buffer, queue), Below(files', queue), Sorted(files'),
           \A k \in 1..Len(buffer) :
              buffer[k].day \in todo => Ahead(files', buffer[k])
    PROVE  OrderInv'
  <1>1. CASE todo # {}
    <2>1. /\ StartDay(buffer, todo)
          /\ UNCHANGED <<buffer, final, syncing, queue, offered, fsyncDue>>
      BY <1>1 DEF DayDone
    <2>2. pc' = "open" /\ cur' \in todo /\ todo' = todo \ {cur'}
      BY <2>1, StartDayFacts DEF TypeOK
    <2>3. FlowInv'
      BY <2>2 DEF FlowInv
    <2>4. (Consecutive(buffer, queue))' /\ (Below(files, queue))'
      BY <2>1 DEF Consecutive, Below
    <2>5. (\A k \in 1..Len(buffer) : Waiting(k) => Ahead(files, buffer[k]))'
      BY <2>1, <2>2 DEF Waiting, Ahead
    <2>6. QED BY <2>3, <2>4, <2>5 DEF OrderInv, Sorted
  <1>2. CASE todo = {} /\ final
    <2>1. pc' = "done" /\ buffer' = <<>> /\ NoFlush /\ queue' = queue
      BY <1>2 DEF DayDone
    <2>2. FlowInv'
      BY <2>1 DEF FlowInv, NoFlush
    <2>3. (Consecutive(buffer, queue))' /\ (Below(files, queue))'
      BY <2>1 DEF Consecutive, Below, TypeOK
    <2>4. QED BY <2>1, <2>2, <2>3 DEF OrderInv, Sorted
  <1>3. CASE todo = {} /\ ~final
    <2>1. LoopTop(<<>>, queue, offered)
      BY <1>3 DEF DayDone
    <2>2. Held(files', <<>>, queue) /\ <<>> \in Seq(Msg)
      BY HeldFromQueue
    <2>3. QED BY <2>1, <2>2, LoopTopOrder DEF TypeOK
  <1>4. QED BY <1>1, <1>2, <1>3

\* A text of the next line's message is appended to the file of its day.
LEMMA TextAppendedOrder ==
    ASSUME TypeOK, OrderInv, pc = "write", NEW i \in DOMAIN buffer, NextLine(i),
           NEW w \in BOOLEAN, NEW e \in BOOLEAN,
           files' = [files EXCEPT ![cur] =
              Append(@, [id |-> buffer[i].id, whole |-> w, eol |-> e])]
    PROVE  /\ Below(files', queue)
           /\ Sorted(files')
           /\ \A k \in 1..Len(buffer) :
                 \/ buffer[k].day \in todo
                 \/ buffer[k].day = cur /\ k > i
                 => Ahead(files', buffer[k])
  <1> DEFINE t == [id |-> buffer[i].id, whole |-> w, eol |-> e]
  <1>1. /\ cur \in Days /\ cur \notin todo
        /\ i \in 1..Len(buffer) /\ i > pos /\ buffer[i].day = cur
        /\ pos \in Nat /\ Len(buffer) \in Nat /\ Len(queue) \in Nat
        /\ files \in [Days -> Seq(Text)] /\ accepted \in Nat
    BY DEF TypeOK, OrderInv, FlowInv, NextLine
  <1>2. t.id = buffer[i].id /\ buffer[i].id \in Nat
    <2>1. buffer[i] \in Msg
      BY DEF TypeOK
    <2>2. QED BY <2>1 DEF Msg
  <1>3. /\ files'[cur] = Append(files[cur], t)
        /\ \A d \in Days : d # cur => files'[d] = files[d]
    BY <1>1
  <1> HIDE DEF t
  <1>4. /\ Len(files[cur]) \in Nat
        /\ Len(files'[cur]) = Len(files[cur]) + 1
        /\ files'[cur][Len(files[cur]) + 1] = t
        /\ \A j \in 1..Len(files[cur]) : files'[cur][j] = files[cur][j]
    BY <1>1, <1>3
  <1>5. \A d \in Days : \A j \in 1..Len(files[d]) : files[d][j].id \in Nat
    <2>1. \A d \in Days : \A j \in 1..Len(files[d]) : files[d][j] \in Text
      BY <1>1
    <2>2. QED BY <2>1 DEF Text
  <1>6. \A j \in 1..Len(files[cur]) : files[cur][j].id < buffer[i].id
    BY <1>1 DEF OrderInv, Waiting, Ahead
  <1>7. buffer[i].id = accepted - Len(queue) - Len(buffer) + i
    BY <1>1 DEF OrderInv, Consecutive
  <1>8. Below(files', queue)
    <2> SUFFICES ASSUME NEW d \in Days, NEW j \in 1..Len(files'[d])
                 PROVE  files'[d][j].id <= accepted - Len(queue)
      BY DEF Below
    <2>1. CASE d # cur \/ j \in 1..Len(files[d])
      BY <1>3, <1>4, <2>1 DEF OrderInv, Below
    <2>2. CASE d = cur /\ j = Len(files[cur]) + 1
      BY <1>1, <1>2, <1>4, <1>7, <2>2
    <2>3. QED BY <1>4, <2>1, <2>2
  <1>9. Sorted(files')
    <2> SUFFICES ASSUME NEW d \in Days, NEW j \in 1..Len(files'[d]),
                        NEW k \in 1..Len(files'[d]), j < k
                 PROVE  files'[d][j].id < files'[d][k].id
      BY DEF Sorted
    <2>1. CASE d # cur
      BY <1>3, <2>1 DEF OrderInv, Sorted
    <2>2. CASE d = cur /\ k \in 1..Len(files[cur])
      <3>1. j \in 1..Len(files[cur])
        BY <1>4, <2>2
      <3>2. QED BY <1>4, <2>2, <3>1 DEF OrderInv, Sorted
    <2>3. CASE d = cur /\ k = Len(files[cur]) + 1
      <3>1. j \in 1..Len(files[cur])
        BY <1>4, <2>3
      <3>2. QED BY <1>2, <1>4, <1>6, <2>3, <3>1
    <2>4. QED BY <1>4, <2>1, <2>2, <2>3
  <1>10. ASSUME NEW k \in 1..Len(buffer), buffer[k].day \in todo
         PROVE  Ahead(files', buffer[k])
    <2>1. buffer[k].day \in Days /\ buffer[k].day # cur
      BY <1>1, <1>10 DEF TypeOK
    <2>2. Ahead(files, buffer[k])
      BY <1>10 DEF OrderInv, Waiting
    <2>3. QED BY <1>3, <2>1, <2>2 DEF Ahead
  <1>11. ASSUME NEW k \in 1..Len(buffer), buffer[k].day = cur, k > i
         PROVE  Ahead(files', buffer[k])
    <2>1. Ahead(files, buffer[k])
      BY <1>1, <1>11 DEF OrderInv, Waiting
    <2>2. buffer[k].id = accepted - Len(queue) - Len(buffer) + k
      BY <1>1 DEF OrderInv, Consecutive
    <2>3. ASSUME NEW j \in 1..Len(files'[cur])
          PROVE  files'[cur][j].id < buffer[k].id
      <3>1. CASE j \in 1..Len(files[cur])
        BY <1>4, <1>11, <2>1, <3>1 DEF Ahead
      <3>2. CASE j = Len(files[cur]) + 1
        BY <1>1, <1>2, <1>4, <1>7, <1>11, <2>2, <3>2
      <3>3. QED BY <1>4, <3>1, <3>2
    <2>4. QED BY <1>11, <2>3 DEF Ahead
  <1>12. QED BY <1>8, <1>9, <1>10, <1>11

\* Sequences of texts with the same ids, or the first of them, are as ordered.
LEMMA PrefixOrder ==
    ASSUME TypeOK, OrderInv, files' \in [Days -> Seq(Text)],
           \A d \in Days :
              /\ Len(files'[d]) <= Len(files[d])
              /\ \A i \in 1..Len(files'[d]) : files'[d][i].id = files[d][i].id
    PROVE  /\ Below(files', queue)
           /\ Sorted(files')
           /\ \A k \in 1..Len(buffer) : Waiting(k) => Ahead(files', buffer[k])
  <1>1. \A d \in Days : /\ Len(files'[d]) \in Nat /\ Len(files[d]) \in Nat
                        /\ 1..Len(files'[d]) \subseteq 1..Len(files[d])
    BY DEF TypeOK
  <1>2. Below(files', queue)
    BY <1>1 DEF OrderInv, Below
  <1>3. Sorted(files')
    BY <1>1 DEF OrderInv, Sorted
  <1>4. ASSUME NEW k \in 1..Len(buffer), Waiting(k)
        PROVE  Ahead(files', buffer[k])
    <2>1. buffer[k] \in Msg
      BY DEF TypeOK
    <2>2. buffer[k].day \in Days
      BY <2>1 DEF Msg
    <2>3. Ahead(files, buffer[k])
      BY <1>4 DEF OrderInv
    <2>4. QED BY <1>1, <2>2, <2>3 DEF Ahead
  <1>5. QED BY <1>2, <1>3, <1>4

\* Every step keeps OrderInv: one step per action.
LEMMA OrderStep ==
    ASSUME TypeOK, TypeOK', OrderInv, [Next]_vars
    PROVE  OrderInv'
  <1>0. /\ Len(queue) \in Nat /\ Len(buffer) \in Nat /\ accepted \in Nat
        /\ files \in [Days -> Seq(Text)] /\ files' \in [Days -> Seq(Text)]
    BY DEF TypeOK
  <1>1. CASE Enqueue
    <2>1. UNCHANGED <<buffer, pc, final, todo, cur, pos, files>>
      BY <1>1 DEF Enqueue, coroutine, disk
    <2>2. CASE UNCHANGED <<queue, accepted>>
      BY <2>1, <2>2 DEF OrderInv, FlowInv, Consecutive, Below, Waiting, Ahead, Sorted
    <2>3. CASE /\ \E today \in Days :
                     queue' = Append(queue, [id |-> accepted + 1, day |-> today])
               /\ accepted' = accepted + 1
      <3>1. PICK today \in Days :
               queue' = Append(queue, [id |-> accepted + 1, day |-> today])
        BY <2>3
      <3>2. /\ Len(queue') = Len(queue) + 1
            /\ \A k \in 1..Len(queue) : queue'[k] = queue[k]
            /\ queue'[Len(queue) + 1].id = accepted + 1
        BY <1>0, <3>1 DEF TypeOK
      <3>3. accepted' - Len(queue') = accepted - Len(queue)
        BY <1>0, <2>3, <3>2
      <3>4. (Consecutive(buffer, queue))'
        <4>1. (Len(buffer) + Len(queue) <= accepted)'
          BY <1>0, <2>1, <2>3, <3>2 DEF OrderInv, Consecutive
        <4>2. (\A k \in 1..Len(buffer) : buffer[k].id = accepted - Len(queue) - Len(buffer) + k)'
          BY <2>1, <3>3 DEF OrderInv, Consecutive
        <4>3. ASSUME NEW k \in 1..Len(queue')
              PROVE  queue'[k].id = accepted' - Len(queue') + k
          <5>1. CASE k \in 1..Len(queue)
            BY <3>2, <3>3, <5>1 DEF OrderInv, Consecutive
          <5>2. CASE k = Len(queue) + 1
            BY <1>0, <3>2, <3>3, <5>2
          <5>3. QED BY <1>0, <3>2, <5>1, <5>2
        <4>4. QED BY <4>1, <4>2, <4>3 DEF Consecutive
      <3>5. (Below(files, queue))'
        BY <2>1, <3>3 DEF OrderInv, Below
      <3>6. FlowInv'
        BY <1>1, <2>1 DEF OrderInv, FlowInv, Enqueue
      <3>7. QED
        BY <2>1, <3>4, <3>5, <3>6 DEF OrderInv, Waiting, Ahead, Sorted
    <2>4. QED BY <1>1, <2>2, <2>3 DEF Enqueue
  <1>2. CASE FsyncIntervalPasses \/ Stop \/ UNCHANGED vars
    <2>1. UNCHANGED <<queue, buffer, pc, final, todo, cur, pos, files, accepted>>
      BY <1>2 DEF FsyncIntervalPasses, Stop, vars, coroutine, disk
    <2>2. QED
      BY <2>1 DEF OrderInv, FlowInv, Consecutive, Below, Waiting, Ahead, Sorted
  <1>3. CASE Get
    <2> DEFINE buf == Append(buffer, Head(queue))
               off == Append(offered, Head(queue).id)
    <2>1. Held(files, buffer, queue)
      BY <1>3 DEF Get, OrderInv, Held, Waiting
    <2>2. queue # <<>> /\ UNCHANGED <<files, accepted>>
      BY <1>3 DEF Get, disk
    <2>3. Held(files', buf, Tail(queue))
      BY <1>0, <2>1, <2>2, HeldTaken DEF TypeOK
    <2>4. Head(queue) \in Msg /\ Tail(queue) \in Seq(Msg)
      BY <2>2 DEF TypeOK
    <2>5. buf \in Seq(Msg) /\ off \in Seq(Nat)
      <3>1. Head(queue).id \in Nat
        BY <2>4 DEF Msg
      <3>2. QED BY <2>4, <3>1 DEF TypeOK
    <2>6. Sorted(files')
      BY <2>2 DEF OrderInv
    <2>7. \/ StartFlush(buf, FALSE) /\ queue' = Tail(queue) /\ offered' = off
          \/ LoopTop(buf, Tail(queue), off)
      BY <1>3 DEF Get
    <2> HIDE DEF buf, off
    <2>8. CASE StartFlush(buf, FALSE) /\ queue' = Tail(queue) /\ offered' = off
      <3>1. FlushBegun(buf)
        BY <2>5, <2>8, StartFlushFacts DEF TypeOK
      <3>2. QED BY <2>2, <2>3, <2>5, <2>6, <2>8, <3>1, FlushBegunOrder
    <2>9. CASE LoopTop(buf, Tail(queue), off)
      BY <2>2, <2>3, <2>4, <2>5, <2>6, <2>9, LoopTopOrder
    <2>10. QED BY <2>7, <2>8, <2>9
  <1>4. CASE Timeout
    <2>1. /\ Held(files', buffer, queue) /\ Sorted(files')
          /\ UNCHANGED <<files, accepted>>
      BY <1>4 DEF Timeout, OrderInv, Held, Waiting, disk
    <2>2. CASE buffer # <<>>
      <3>1. FlushBegun(buffer) /\ queue' = queue
        BY <1>4, <2>2, StartFlushFacts DEF Timeout, TypeOK
      <3>2. QED BY <2>1, <3>1, FlushBegunOrder DEF TypeOK
    <2>3. CASE buffer = <<>>
      <3>1. LoopTop(<<>>, queue, offered) /\ <<>> \in Seq(Msg)
        BY <1>4, <2>3 DEF Timeout
      <3>2. QED BY <2>1, <2>3, <3>1, LoopTopOrder DEF TypeOK
    <2>4. QED BY <2>2, <2>3
  <1>5. CASE Open
    <2>1. UNCHANGED <<queue, buffer, final, todo, cur, pos, accepted>>
      BY <1>5 DEF Open
    <2>2. pc = "open" /\ pc' = "write"
      BY <1>5 DEF Open
    <2>3. \A d \in Days : files'[d] = files[d] \/ files'[d] = CleanTail(files[d])
      BY <1>0, <1>5 DEF Open
    <2>4. \A d \in Days :
             /\ Len(files'[d]) <= Len(files[d])
             /\ \A i \in 1..Len(files'[d]) : files'[d][i].id = files[d][i].id
      <3> SUFFICES ASSUME NEW d \in Days
                   PROVE  /\ Len(files'[d]) <= Len(files[d])
                          /\ \A i \in 1..Len(files'[d]) : files'[d][i].id = files[d][i].id
        OBVIOUS
      <3>1. files[d] \in Seq(Text) /\ Len(files[d]) \in Nat
        BY <1>0
      <3>2. CASE files'[d] = files[d]
        BY <3>1, <3>2
      <3>3. CASE files'[d] = CleanTail(files[d])
        BY <3>1, <3>3, CleanTailFacts
      <3>4. QED BY <2>3, <3>2, <3>3
    <2>5. /\ Below(files', queue) /\ Sorted(files')
          /\ \A k \in 1..Len(buffer) : Waiting(k) => Ahead(files', buffer[k])
      BY <1>0, <2>4, PrefixOrder
    <2>6. (Consecutive(buffer, queue))' /\ (Below(files, queue))'
      BY <2>1, <2>5 DEF OrderInv, Consecutive, Below
    <2>7. (\A k \in 1..Len(buffer) : Waiting(k) => Ahead(files, buffer[k]))'
      BY <2>1, <2>2, <2>5 DEF Waiting, Ahead
    <2>8. FlowInv'
      BY <2>1, <2>2 DEF OrderInv, FlowInv
    <2>9. QED BY <2>5, <2>6, <2>7, <2>8 DEF OrderInv, Sorted
  <1>6. CASE WriteLine
    <2>1. PICK i \in DOMAIN buffer :
             /\ NextLine(i)
             /\ files' = [files EXCEPT ![cur] =
                   Append(@, [id |-> buffer[i].id, whole |-> TRUE, eol |-> TRUE])]
             /\ pos' = i
      BY <1>6 DEF WriteLine
    <2>2. /\ pc = "write"
          /\ UNCHANGED <<queue, buffer, pc, final, todo, cur, accepted>>
      BY <1>6 DEF WriteLine
    <2>3. /\ Below(files', queue)
          /\ Sorted(files')
          /\ \A k \in 1..Len(buffer) :
                \/ buffer[k].day \in todo
                \/ buffer[k].day = cur /\ k > i
                => Ahead(files', buffer[k])
      BY <2>1, <2>2, TextAppendedOrder
    <2>4. (Consecutive(buffer, queue))' /\ (Below(files, queue))'
      BY <2>2, <2>3 DEF OrderInv, Consecutive, Below
    <2>5. (\A k \in 1..Len(buffer) : Waiting(k) => Ahead(files, buffer[k]))'
      BY <2>1, <2>2, <2>3 DEF Waiting, Ahead
    <2>6. FlowInv'
      BY <2>2 DEF OrderInv, FlowInv
    <2>7. QED BY <2>3, <2>4, <2>5, <2>6 DEF OrderInv, Sorted
  <1>7. CASE Finish
    <2>1. pc = "write" /\ UNCHANGED <<files, accepted>> /\ DayDone
      BY <1>7 DEF Finish
    <2>2. \A k \in 1..Len(buffer) :
             buffer[k].day \in todo => Ahead(files', buffer[k])
      BY <2>1 DEF OrderInv, Waiting
    <2>3. QED BY <2>1, <2>2, DayDoneOrder DEF OrderInv
  <1>8. CASE WriteFails
    <2>1. DayDone /\ accepted' = accepted /\ (Fragment \/ UNCHANGED files)
      BY <1>8 DEF WriteFails
    <2>2. /\ Below(files', queue) /\ Sorted(files')
          /\ \A k \in 1..Len(buffer) :
                buffer[k].day \in todo => Ahead(files', buffer[k])
      <3>1. CASE Fragment
        BY <3>1, TextAppendedOrder DEF Fragment
      <3>2. CASE UNCHANGED files
        BY <3>2 DEF OrderInv, Waiting
      <3>3. QED BY <2>1, <3>1, <3>2
    <2>3. QED BY <2>1, <2>2, DayDoneOrder DEF OrderInv
  <1>9. CASE Exit \/ PowerLoss
    <2>1. MemoryLost
      BY <1>9 DEF Exit, PowerLoss
    <2>2. /\ queue' = <<>> /\ buffer' = <<>> /\ pc' = "down" /\ accepted' = accepted
          /\ todo' = {} /\ pos' = 0 /\ final' = FALSE
      BY <2>1 DEF MemoryLost, NoFlush
    <2>3. Below(files', queue) /\ Sorted(files')
      <3>1. CASE Exit /\ Fragment
        BY <3>1, TextAppendedOrder DEF Fragment
      <3>2. CASE Exit /\ UNCHANGED files
        BY <3>2 DEF OrderInv
      <3>3. CASE PowerLoss
        <4>1. PICK keep \in [Days -> 0..accepted],
                   cut \in [Days -> {"none", "newline", "text"}] :
                 /\ \A d \in Days :
                       /\ keep[d] \in synced[d]..Len(files[d])
                       /\ cut[d] # "none" => keep[d] > synced[d]
                 /\ files' = [d \in Days |-> Surviving(files[d], keep[d], cut[d])]
          BY <3>3 DEF PowerLoss
        <4>2. ASSUME NEW d \in Days
              PROVE  /\ Len(files'[d]) <= Len(files[d])
                     /\ \A i \in 1..Len(files'[d]) : files'[d][i].id = files[d][i].id
          <5>1. /\ files[d] \in Seq(Text) /\ keep[d] \in 0..Len(files[d])
                /\ cut[d] \in {"none", "newline", "text"}
            BY <1>0, <4>1 DEF TypeOK
          <5>2. files'[d] = Surviving(files[d], keep[d], cut[d])
            BY <4>1
          <5> DEFINE old == files[d]
                     n == keep[d]
                     c == cut[d]
          <5>3. /\ old \in Seq(Text) /\ n \in 0..Len(old)
                /\ c \in {"none", "newline", "text"}
            BY <5>1
          <5>4. files'[d] = Surviving(old, n, c)
            BY <5>2
          <5> HIDE DEF old, n, c
          <5>5. /\ Len(Surviving(old, n, c)) = n
                /\ \A i \in 1..n : Surviving(old, n, c)[i].id = old[i].id
            BY <5>3, SurvivingFacts
          <5>6. /\ Len(files'[d]) = n
                /\ \A i \in 1..n : files'[d][i].id = old[i].id
            BY <5>4, <5>5
          <5>7. n <= Len(old)
            BY <5>3
          <5>8. QED BY <5>6, <5>7 DEF old
        <4>3. QED BY <1>0, <4>2, PrefixOrder
      <3>4. QED BY <1>9, <3>1, <3>2, <3>3 DEF Exit
    <2>4. (Below(files, queue))'
      <3> SUFFICES ASSUME NEW d \in Days, NEW i \in 1..Len(files'[d])
                   PROVE  files'[d][i].id <= accepted' - Len(queue')
        BY DEF Below
      <3>1. files'[d][i] \in Text /\ files'[d][i].id <= accepted - Len(queue)
        BY <1>0, <2>3 DEF Below
      <3>2. files'[d][i].id \in Nat
        BY <3>1 DEF Text
      <3>3. QED BY <1>0, <2>2, <3>1, <3>2
    <2>5. (Consecutive(buffer, queue))'
      BY <1>0, <2>2 DEF Consecutive
    <2>6. FlowInv'
      BY <2>2 DEF FlowInv
    <2>7. QED BY <2>2, <2>3, <2>4, <2>5, <2>6 DEF OrderInv, Sorted
  <1>10. CASE Restart
    <2>1. /\ UNCHANGED <<queue, buffer, final, todo, cur, pos, files, accepted>>
          /\ pc = "down" /\ pc' = "get"
      BY <1>10 DEF Restart, disk
    <2>2. buffer = <<>>
      BY <2>1 DEF OrderInv, FlowInv
    <2>3. QED
      BY <2>1, <2>2 DEF OrderInv, FlowInv, Consecutive, Below, Waiting, Ahead, Sorted
  <1>11. QED
    BY <1>1, <1>2, <1>3, <1>4, <1>5, <1>6, <1>7, <1>8, <1>9, <1>10 DEF Next

LEMMA OrderInvariant == Spec => [](TypeOK /\ OrderInv)
  <1>1. Init => OrderInv
    BY DEF Init, OrderInv, FlowInv, Consecutive, Below, Sorted
  <1>2. TypeOK /\ TypeOK' /\ OrderInv /\ [Next]_vars => OrderInv'
    BY OrderStep
  <1>3. QED BY <1>1, <1>2, Typing, PTL DEF Spec

\* The messages of a device are in its day files in acceptance order, each at
\* most once, whatever errors, crashes and restarts happen.
THEOREM Order == Spec => []InOrder
  <1>1. TypeOK /\ OrderInv => InOrder
    <2> SUFFICES ASSUME TypeOK, OrderInv PROVE InOrder
      OBVIOUS
    <2>1. \A d \in Days : DOMAIN files[d] = 1..Len(files[d])
      BY DEF TypeOK
    <2>2. QED BY <2>1 DEF OrderInv, Sorted, InOrder
  <1>2. QED BY <1>1, OrderInvariant, PTL

-----------------------------------------------------------------------------
(***************************************************************************)
(* What the indexer is offered. The messages of this process run are       *)
(* numbered from born + 1; those that left the queue were offered, and the *)
(* queue holds the rest.                                                   *)
(***************************************************************************)

\* What of the offered ids every step keeps: the messages of this process run
\* that have left the queue, in the order of their acceptance.
OfferedUpTo(off, q) ==
    /\ born + Len(off) + Len(q) = accepted
    /\ \A i \in 1..Len(off) : off[i] = born + i

\* Moving the head of the queue, or all of it, over to the indexer.
LEMMA OfferHead ==
    ASSUME accepted \in Nat, born \in Nat, NEW off \in Seq(Nat),
           NEW q \in Seq(Msg), q # <<>>, OfferedUpTo(off, q),
           \A k \in 1..Len(q) : q[k].id = accepted - Len(q) + k
    PROVE  /\ Append(off, Head(q).id) \in Seq(Nat)
           /\ OfferedUpTo(Append(off, Head(q).id), Tail(q))
  <1> DEFINE h == Head(q).id
             o == Append(off, h)
             t == Tail(q)
  <1>1. /\ Len(q) \in Nat /\ Len(off) \in Nat /\ Len(q) >= 1
        /\ h = accepted - Len(q) + 1
        /\ Len(t) = Len(q) - 1
    OBVIOUS
  <1>2. h \in Nat
    <2>1. Head(q) \in Msg
      OBVIOUS
    <2>2. QED BY <2>1 DEF Msg
  <1> HIDE DEF h, t
  <1>3. /\ o \in Seq(Nat)
        /\ Len(o) = Len(off) + 1
        /\ \A i \in 1..Len(off) : o[i] = off[i]
        /\ o[Len(off) + 1] = h
    BY <1>2
  <1> HIDE DEF o
  <1>4. born + Len(off) + Len(q) = accepted
    BY DEF OfferedUpTo
  <1>5. born + Len(o) + Len(t) = accepted /\ h = born + Len(off) + 1
    <2> DEFINE n == Len(off)
               p == Len(q)
    <2>1. n \in Nat /\ p \in Nat /\ p >= 1 /\ born + n + p = accepted
      BY <1>1, <1>4
    <2>2. Len(o) = n + 1 /\ Len(t) = p - 1 /\ h = accepted - p + 1
      BY <1>1, <1>3
    <2> HIDE DEF n, p
    <2>3. born + (n + 1) + (p - 1) = accepted /\ accepted - p + 1 = born + n + 1
      BY <2>1
    <2>4. QED BY <2>2, <2>3 DEF n
  <1>6. ASSUME NEW i \in 1..Len(o)
        PROVE  o[i] = born + i
    <2>1. CASE i \in 1..Len(off)
      BY <1>3, <2>1 DEF OfferedUpTo
    <2>2. CASE i = Len(off) + 1
      <3>1. o[i] = h
        BY <1>3, <2>2
      <3>2. born + Len(off) + 1 = born + i
        BY <1>1, <2>2
      <3>3. QED BY <1>5, <3>1, <3>2
    <2>3. i \in 1..Len(off) \/ i = Len(off) + 1
      BY <1>1, <1>3
    <2>4. QED BY <2>1, <2>2, <2>3
  <1>7. OfferedUpTo(o, t)
    BY <1>5, <1>6 DEF OfferedUpTo
  <1>8. QED BY <1>3, <1>7 DEF o, h, t

LEMMA OfferAll ==
    ASSUME accepted \in Nat, born \in Nat, NEW off \in Seq(Nat),
           NEW q \in Seq(Msg), OfferedUpTo(off, q),
           \A k \in 1..Len(q) : q[k].id = accepted - Len(q) + k
    PROVE  OfferedUpTo(off \o IdsOf(q), <<>>)
  <1> DEFINE ids == IdsOf(q)
             o == off \o ids
  <1>1. /\ ids \in Seq(Nat) /\ Len(ids) = Len(q)
        /\ \A k \in 1..Len(q) : ids[k] = accepted - Len(q) + k
    BY IdsOfType DEF IdsOf
  <1>2. Len(q) \in Nat /\ Len(off) \in Nat /\ Len(<<>>) = 0
    OBVIOUS
  <1> HIDE DEF ids
  <1>3. /\ Len(o) = Len(off) + Len(q)
        /\ \A i \in 1..Len(o) :
              o[i] = IF i <= Len(off) THEN off[i] ELSE ids[i - Len(off)]
    BY <1>1
  <1> HIDE DEF o
  <1>4. ASSUME NEW i \in 1..Len(o)
        PROVE  o[i] = born + i
    <2>1. CASE i <= Len(off)
      <3>1. i \in 1..Len(off)
        BY <1>2, <1>3, <2>1
      <3>2. o[i] = off[i]
        BY <1>3, <2>1
      <3>3. QED BY <3>1, <3>2 DEF OfferedUpTo
    <2>2. CASE ~(i <= Len(off))
      <3>1. PICK j \in 1..Len(q) : i = Len(off) + j /\ o[i] = ids[j]
        <4>1. i - Len(off) \in 1..Len(q) /\ i = Len(off) + (i - Len(off))
          BY <1>2, <1>3, <2>2
        <4>2. o[i] = ids[i - Len(off)]
          BY <1>3, <2>2
        <4>3. QED BY <4>1, <4>2
      <3>2. o[i] = accepted - Len(q) + j
        BY <1>1, <3>1
      <3>3. accepted = born + Len(off) + Len(q)
        BY DEF OfferedUpTo
      <3>4. o[i] = born + Len(off) + j
        BY <1>2, <3>2, <3>3
      <3>5. QED BY <1>2, <3>1, <3>4
    <2>3. QED BY <2>1, <2>2
  <1>5. QED BY <1>2, <1>3, <1>4 DEF OfferedUpTo, o, ids

LEMMA LoopTopOffers ==
    ASSUME TypeOK, NEW buf \in Seq(Msg), NEW q \in Seq(Msg),
           NEW off \in Seq(Nat), LoopTop(buf, q, off), OfferedUpTo(off, q),
           \A k \in 1..Len(q) : q[k].id = accepted - Len(q) + k
    PROVE  OfferedUpTo(offered', queue')
  <1>1. accepted \in Nat /\ born \in Nat /\ fsyncDue \in BOOLEAN
    BY DEF TypeOK
  <1>2. OfferedUpTo(off \o IdsOf(q), <<>>)
    BY <1>1, OfferAll
  <1>3. CASE Waits(buf, q, off)
    BY <1>3 DEF Waits
  <1>4. CASE Returns(buf, q, off) \/ FlushesAll(buf, q, off)
    BY <1>2, <1>4 DEF Returns, FlushesAll
  <1>5. QED BY <1>1, <1>3, <1>4, LoopTopFacts

LEMMA DayDoneOffers ==
    ASSUME TypeOK, DayDone, OfferedUpTo(offered, queue),
           \A k \in 1..Len(queue) : queue[k].id = accepted - Len(queue) + k
    PROVE  OfferedUpTo(offered', queue')
  <1>1. CASE todo = {} /\ ~final
    <2>1. LoopTop(<<>>, queue, offered) /\ <<>> \in Seq(Msg)
      BY <1>1 DEF DayDone
    <2>2. QED BY <2>1, LoopTopOffers DEF TypeOK
  <1>2. CASE todo # {} \/ final
    BY <1>2 DEF DayDone
  <1>3. QED BY <1>1, <1>2

OfferedInv == pc # "down" => OfferedUpTo(offered, queue)

LEMMA OfferedStep ==
    ASSUME TypeOK, TypeOK', OrderInv, OfferedInv, [Next]_vars
    PROVE  OfferedInv'
  <1>0. /\ \A k \in 1..Len(queue) : queue[k].id = accepted - Len(queue) + k
        /\ queue \in Seq(Msg) /\ offered \in Seq(Nat) /\ buffer \in Seq(Msg)
        /\ accepted \in Nat /\ born \in Nat /\ fsyncDue \in BOOLEAN
        /\ Len(queue) \in Nat /\ Len(offered) \in Nat
    BY DEF OrderInv, Consecutive, TypeOK
  <1>1. CASE UNCHANGED <<offered, queue, accepted, born>> /\ pc # "down"
    BY <1>1 DEF OfferedInv, OfferedUpTo
  <1>2. CASE Enqueue
    <2>1. UNCHANGED <<pc, offered, born>> /\ pc # "down"
      BY <1>2 DEF Enqueue, coroutine, ghost
    <2>2. CASE \E m : queue' = Append(queue, m) /\ accepted' = accepted + 1
      <3>1. Len(queue') = Len(queue) + 1
        BY <1>0, <2>2
      <3>2. QED BY <1>0, <2>1, <2>2, <3>1 DEF OfferedInv, OfferedUpTo
    <2>3. CASE UNCHANGED <<queue, accepted>>
      BY <1>1, <2>1, <2>3
    <2>4. QED BY <1>2, <2>2, <2>3 DEF Enqueue
  <1>3. CASE FsyncIntervalPasses \/ Stop \/ Open \/ WriteLine
    BY <1>1, <1>3 DEF FsyncIntervalPasses, Stop, Open, WriteLine, ghost
  <1>4. CASE Get
    <2> DEFINE buf == Append(buffer, Head(queue))
               off == Append(offered, Head(queue).id)
               q == Tail(queue)
    <2>1. queue # <<>> /\ OfferedUpTo(offered, queue) /\ UNCHANGED <<accepted, born>>
      BY <1>4 DEF Get, OfferedInv, ghost
    <2>2. off \in Seq(Nat) /\ OfferedUpTo(off, q)
      BY <1>0, <2>1, OfferHead
    <2>3. buf \in Seq(Msg) /\ q \in Seq(Msg)
      BY <1>0, <2>1
    <2>4. \A k \in 1..Len(q) : q[k].id = accepted - Len(q) + k
      <3>1. Len(q) = Len(queue) - 1 /\ \A k \in 1..Len(q) : q[k] = queue[k + 1]
        BY <1>0, <2>1
      <3> HIDE DEF q
      <3>2. Len(queue) \in Nat /\ accepted \in Nat
        BY <1>0 DEF TypeOK
      <3>3. ASSUME NEW k \in 1..Len(q)
            PROVE  q[k].id = accepted - Len(q) + k
        <4>1. k + 1 \in 1..Len(queue)
          BY <3>1, <3>2
        <4>2. q[k].id = accepted - Len(queue) + (k + 1)
          BY <1>0, <3>1, <4>1
        <4>3. accepted - Len(queue) + (k + 1) = accepted - Len(q) + k
          BY <3>1, <3>2
        <4>4. QED BY <4>2, <4>3
      <3>4. QED BY <3>3
    <2>5. \/ queue' = q /\ offered' = off
          \/ LoopTop(buf, q, off)
      BY <1>4 DEF Get
    <2> HIDE DEF buf, off, q
    <2>6. OfferedUpTo(offered', queue')
      BY <2>2, <2>3, <2>4, <2>5, LoopTopOffers
    <2>7. QED BY <2>1, <2>6 DEF OfferedInv, OfferedUpTo
  <1>5. CASE Timeout
    <2>1. OfferedUpTo(offered, queue) /\ UNCHANGED <<accepted, born>> /\ pc # "down"
      BY <1>5 DEF Timeout, OfferedInv, ghost
    <2>2. CASE buffer # <<>>
      BY <1>1, <1>5, <2>1, <2>2 DEF Timeout
    <2>3. CASE buffer = <<>>
      <3>1. LoopTop(<<>>, queue, offered) /\ <<>> \in Seq(Msg)
        BY <1>5, <2>3 DEF Timeout
      <3>2. OfferedUpTo(offered', queue')
        BY <1>0, <2>1, <3>1, LoopTopOffers
      <3>3. QED BY <2>1, <3>2 DEF OfferedInv, OfferedUpTo
    <2>4. QED BY <2>2, <2>3
  <1>6. CASE Finish \/ WriteFails
    <2>1. DayDone /\ OfferedUpTo(offered, queue) /\ UNCHANGED <<accepted, born>>
      BY <1>6 DEF Finish, WriteFails, OfferedInv, ghost
    <2>2. OfferedUpTo(offered', queue')
      BY <1>0, <2>1, DayDoneOffers
    <2>3. QED BY <2>1, <2>2 DEF OfferedInv, OfferedUpTo
  <1>7. CASE Exit \/ PowerLoss
    BY <1>7 DEF Exit, PowerLoss, MemoryLost, OfferedInv
  <1>8. CASE Restart
    <2>1. offered' = <<>> /\ queue' = <<>> /\ born' = accepted /\ accepted' = accepted
      BY <1>8 DEF Restart, OrderInv, FlowInv
    <2>2. QED BY <1>0, <2>1 DEF OfferedInv, OfferedUpTo
  <1>9. CASE UNCHANGED vars
    BY <1>9 DEF vars, coroutine, ghost, OfferedInv, OfferedUpTo
  <1>10. QED
    BY <1>2, <1>3, <1>4, <1>5, <1>6, <1>7, <1>8, <1>9 DEF Next

\* The indexer is offered every message of a process run once and in the
\* order of acceptance, by the loop or by the shutdown drain, for every bound
\* on the queue and the buffer and whatever fails or crashes.
THEOREM Offered == Spec => []OfferedInOrder
  <1>1. Init => OfferedInv
    BY DEF Init, OfferedInv, OfferedUpTo
  <1>2. /\ TypeOK /\ OrderInv /\ (TypeOK /\ OrderInv)' /\ OfferedInv /\ [Next]_vars
        => OfferedInv'
    BY OfferedStep
  <1>3. TypeOK /\ OfferedInv => OfferedInOrder
    <2> SUFFICES ASSUME TypeOK, OfferedInv, pc # "down"
                 PROVE  /\ Len(offered) + Len(queue) = accepted - born
                        /\ \A i \in DOMAIN offered : offered[i] = born + i
      BY DEF OfferedInOrder
    <2>1. /\ born + Len(offered) + Len(queue) = accepted
          /\ \A i \in 1..Len(offered) : offered[i] = born + i
      BY DEF OfferedInv, OfferedUpTo
    <2>2. offered \in Seq(Nat) /\ queue \in Seq(Msg)
      BY DEF TypeOK
    <2>3. /\ Len(offered) \in Nat /\ Len(queue) \in Nat
          /\ DOMAIN offered = 1..Len(offered)
      BY <2>2
    <2>4. born \in Nat /\ accepted \in Nat
      BY DEF TypeOK
    <2>5. Len(offered) + Len(queue) = accepted - born
      BY <2>1, <2>3, <2>4
    <2>6. QED BY <2>1, <2>3, <2>5
  <1>4. QED BY <1>1, <1>2, <1>3, OrderInvariant, PTL DEF Spec
-----------------------------------------------------------------------------

(***************************************************************************)
(* Lines are not merged.  NoMergedLine alone is not inductive: a file may  *)
(* legitimately end without a newline, and what matters is that such a     *)
(* file is neither in sanitized nor the one being written.                 *)
(***************************************************************************)

Closed(f) == f = <<>> \/ f[Len(f)].eol

TailInv ==
    /\ NoMergedLine
    /\ pc # "down" => \A d \in sanitized : Closed(files[d])
    /\ pc = "write" => Closed(files[cur])

\* When an executor call is over, the thread has no file open.
LEMMA LoopTopLeavesThread ==
    ASSUME NEW buf, NEW q, NEW off, LoopTop(buf, q, off)
    PROVE  pc' \in {"get", "open", "done"}
  BY DEF LoopTop, Drain, StartFlush, StartDay

LEMMA DayDoneLeavesThread ==
    ASSUME DayDone
    PROVE  pc' \in {"get", "open", "done"}
  BY LoopTopLeavesThread DEF DayDone, StartDay

LEMMA TailStep ==
    ASSUME WriteErrors = FALSE, TypeOK, TypeOK', TailInv, [Next]_vars
    PROVE  TailInv'
  <1>0. /\ files \in [Days -> Seq(Text)] /\ files' \in [Days -> Seq(Text)]
        /\ sanitized \in SUBSET Days
        /\ \A d \in Days : DOMAIN files[d] = 1..Len(files[d]) /\ Len(files[d]) \in Nat
        /\ \A d \in Days : DOMAIN files'[d] = 1..Len(files'[d]) /\ Len(files'[d]) \in Nat
    BY DEF TypeOK
  <1>1. CASE /\ UNCHANGED <<files, sanitized>>
             /\ pc # "down"
             /\ pc' \in {"get", "open", "done"} \/ UNCHANGED <<pc, cur>>
    BY <1>1 DEF TailInv, NoMergedLine, Closed
  <1>2. CASE Enqueue \/ FsyncIntervalPasses \/ Stop
    BY <1>1, <1>2 DEF Enqueue, FsyncIntervalPasses, Stop, coroutine, disk
  <1>3. CASE Get
    <2>1. pc' \in {"get", "open", "done"}
      BY <1>3, LoopTopLeavesThread DEF Get, StartFlush, StartDay
    <2>2. QED BY <1>1, <1>3, <2>1 DEF Get, disk
  <1>4. CASE Timeout
    <2>1. pc' \in {"get", "open", "done"}
      BY <1>4, LoopTopLeavesThread DEF Timeout, StartFlush, StartDay
    <2>2. QED BY <1>1, <1>4, <2>1 DEF Timeout, disk
  <1>5. CASE Open
    <2>1. pc = "open" /\ pc' = "write" /\ cur \in Days
          /\ UNCHANGED <<cur, sanitized>>
      BY <1>5 DEF Open, TypeOK
    <2>2. CASE cur \in sanitized
      <3>1. files' = files
        BY <1>5, <2>2 DEF Open
      <3>2. QED BY <2>1, <2>2, <3>1 DEF TailInv, NoMergedLine, Closed
    <2>3. CASE cur \notin sanitized
      <3>1. /\ files'[cur] = CleanTail(files[cur])
            /\ \A d \in Days : d # cur => files'[d] = files[d]
        BY <1>0, <1>5, <2>1, <2>3 DEF Open
      <3>2. files[cur] \in Seq(Text)
        BY <1>0, <2>1
      <3>3. /\ Len(files'[cur]) = Len(files[cur])
            /\ \A i \in 1..Len(files[cur]) :
                  files[cur][i].eol \/ i = Len(files[cur]) => files'[cur][i].eol
        BY <3>1, <3>2, CleanTailFacts
      <3>4. Closed(files'[cur])
        <4>1. CASE Len(files[cur]) = 0
          BY <1>0, <2>1, <3>3, <4>1 DEF Closed
        <4>2. CASE Len(files[cur]) # 0
          <5>1. Len(files[cur]) \in 1..Len(files[cur])
            BY <1>0, <2>1, <4>2
          <5>2. files'[cur][Len(files[cur])].eol
            BY <3>3, <5>1
          <5>3. QED BY <3>3, <5>2 DEF Closed
        <4>3. QED BY <4>1, <4>2
      <3>5. NoMergedLine'
        <4> SUFFICES ASSUME NEW d \in Days, NEW i \in DOMAIN files'[d],
                            i < Len(files'[d])
                     PROVE  files'[d][i].eol
          BY DEF NoMergedLine
        <4>1. CASE d # cur
          BY <3>1, <4>1 DEF TailInv, NoMergedLine
        <4>2. CASE d = cur
          <5>1. i \in DOMAIN files[cur] /\ i < Len(files[cur]) /\ i \in 1..Len(files[cur])
            BY <1>0, <3>3, <4>2
          <5>2. files[cur][i].eol
            BY <2>1, <5>1 DEF TailInv, NoMergedLine
          <5>3. QED BY <3>3, <4>2, <5>1, <5>2
        <4>3. QED BY <4>1, <4>2
      <3>6. \A d \in sanitized : Closed(files'[d])
        BY <1>0, <2>1, <2>3, <3>1 DEF TailInv
      <3>7. QED BY <2>1, <3>4, <3>5, <3>6 DEF TailInv, Closed
    <2>4. QED BY <2>2, <2>3
  <1>6. ASSUME pc = "write", NEW t \in Text,
               files' = [files EXCEPT ![cur] = Append(@, t)]
        PROVE  /\ NoMergedLine'
               /\ t.eol => /\ Closed(files'[cur])
                           /\ \A d \in sanitized : Closed(files'[d])
    <2>1. cur \in Days
      BY <1>6 DEF TypeOK
    <2>2. /\ files'[cur] = Append(files[cur], t)
          /\ \A d \in Days : d # cur => files'[d] = files[d]
      BY <1>0, <1>6, <2>1
    <2>3. /\ Len(files'[cur]) = Len(files[cur]) + 1
          /\ files'[cur][Len(files[cur]) + 1] = t
          /\ \A i \in 1..Len(files[cur]) : files'[cur][i] = files[cur][i]
      BY <1>0, <2>1, <2>2
    <2>4. \A i \in 1..Len(files[cur]) : files[cur][i].eol
      <3>1. Closed(files[cur])
        BY <1>6 DEF TailInv
      <3>2. \A i \in 1..Len(files[cur]) : i < Len(files[cur]) => files[cur][i].eol
        BY <1>0, <2>1 DEF TailInv, NoMergedLine
      <3>3. QED BY <1>0, <2>1, <3>1, <3>2 DEF Closed
    <2>5. NoMergedLine'
      <3> SUFFICES ASSUME NEW d \in Days, NEW i \in DOMAIN files'[d],
                          i < Len(files'[d])
                   PROVE  files'[d][i].eol
        BY DEF NoMergedLine
      <3>1. CASE d # cur
        BY <2>2, <3>1 DEF TailInv, NoMergedLine
      <3>2. CASE d = cur
        <4>1. i \in 1..Len(files[cur])
          BY <1>0, <2>1, <2>3, <3>2
        <4>2. QED BY <2>3, <2>4, <3>2, <4>1
      <3>3. QED BY <3>1, <3>2
    <2>6. t.eol => Closed(files'[cur])
      BY <1>0, <2>1, <2>3 DEF Closed
    <2>7. t.eol => \A d \in sanitized : Closed(files'[d])
      BY <1>0, <1>6, <2>2, <2>6 DEF TailInv
    <2>8. QED BY <2>5, <2>6, <2>7
  <1>7. CASE WriteLine
    <2>1. PICK i \in DOMAIN buffer :
             files' = [files EXCEPT ![cur] =
                Append(@, [id |-> buffer[i].id, whole |-> TRUE, eol |-> TRUE])]
      BY <1>7 DEF WriteLine
    <2>2. [id |-> buffer[i].id, whole |-> TRUE, eol |-> TRUE] \in Text
      <3>1. buffer[i] \in Msg
        BY DEF TypeOK
      <3>2. QED BY <3>1 DEF Msg, Text
    <2>3. pc = "write" /\ UNCHANGED <<pc, cur, sanitized>>
      BY <1>7 DEF WriteLine
    <2>4. NoMergedLine' /\ Closed(files'[cur]) /\ \A d \in sanitized : Closed(files'[d])
      BY <1>6, <2>1, <2>2, <2>3
    <2>5. QED BY <2>3, <2>4 DEF TailInv, Closed
  <1>8. CASE Finish
    <2>1. /\ pc = "write" /\ pc' \in {"get", "open", "done"}
          /\ files' = files /\ sanitized' = sanitized \cup {cur}
      BY <1>8, DayDoneLeavesThread DEF Finish
    <2>2. QED BY <2>1 DEF TailInv, NoMergedLine, Closed
  <1>9. CASE WriteFails
    BY <1>9 DEF WriteFails
  <1>10. CASE Exit
    <2>1. pc' = "down"
      BY <1>10 DEF Exit, MemoryLost
    <2>2. CASE UNCHANGED files
      BY <2>1, <2>2 DEF TailInv, NoMergedLine
    <2>3. CASE Fragment
      <3>1. PICK i \in DOMAIN buffer, w \in BOOLEAN :
               files' = [files EXCEPT ![cur] =
                  Append(@, [id |-> buffer[i].id, whole |-> w, eol |-> FALSE])]
        BY <2>3 DEF Fragment
      <3>2. [id |-> buffer[i].id, whole |-> w, eol |-> FALSE] \in Text
        <4>1. buffer[i] \in Msg
          BY DEF TypeOK
        <4>2. QED BY <4>1 DEF Msg, Text
      <3>3. pc = "write"
        BY <2>3 DEF Fragment
      <3>4. NoMergedLine'
        BY <1>6, <3>1, <3>2, <3>3
      <3>5. QED BY <2>1, <3>4 DEF TailInv
    <2>4. QED BY <1>10, <2>2, <2>3 DEF Exit
  <1>11. CASE PowerLoss
    <2>1. pc' = "down"
      BY <1>11 DEF PowerLoss, MemoryLost
    <2>2. PICK keep \in [Days -> 0..accepted],
               cut \in [Days -> {"none", "newline", "text"}] :
             /\ \A d \in Days : keep[d] \in synced[d]..Len(files[d])
             /\ files' = [d \in Days |-> Surviving(files[d], keep[d], cut[d])]
      BY <1>11 DEF PowerLoss
    <2>3. ASSUME NEW d \in Days, NEW i \in DOMAIN files'[d], i < Len(files'[d])
          PROVE  files'[d][i].eol
      <3>1. /\ files[d] \in Seq(Text) /\ keep[d] \in 0..Len(files[d])
            /\ cut[d] \in {"none", "newline", "text"}
        BY <1>0, <2>2 DEF TypeOK
      <3>2. files'[d] = Surviving(files[d], keep[d], cut[d])
        BY <2>2
      <3>3. /\ Len(files'[d]) = keep[d]
            /\ \A j \in 1..keep[d] :
                  j < keep[d] \/ cut[d] = "none" => files'[d][j] = files[d][j]
        <4> DEFINE n == keep[d]
                   c == cut[d]
                   f == files[d]
        <4>1. f \in Seq(Text) /\ n \in 0..Len(f) /\ c \in {"none", "newline", "text"}
          BY <3>1
        <4> HIDE DEF n, c, f
        <4>2. /\ Len(Surviving(f, n, c)) = n
              /\ \A j \in 1..n : j < n \/ c = "none" => Surviving(f, n, c)[j] = f[j]
          BY <4>1, SurvivingFacts
        <4>3. QED BY <3>2, <4>2 DEF n, c, f
      <3>4. i \in 1..keep[d] /\ i < keep[d] /\ files'[d][i] = files[d][i]
        BY <1>0, <2>3, <3>3
      <3>5. i \in DOMAIN files[d] /\ i < Len(files[d])
        BY <1>0, <3>1, <3>4
      <3>6. QED BY <3>4, <3>5 DEF TailInv, NoMergedLine
    <2>4. NoMergedLine'
      BY <2>3 DEF NoMergedLine
    <2>5. QED BY <2>1, <2>4 DEF TailInv
  <1>12. CASE Restart
    BY <1>12 DEF Restart, TailInv, NoMergedLine, disk
  <1>13. CASE UNCHANGED vars
    BY <1>13 DEF vars, coroutine, disk, TailInv, NoMergedLine, Closed
  <1>14. QED
    BY <1>2, <1>3, <1>4, <1>5, <1>7, <1>8, <1>9, <1>10, <1>11, <1>12, <1>13
       DEF Next

\* As long as no write fails in a running process, no message is ever appended
\* to a torn line: the tail check on the first write to a file, once per
\* process run, is enough, for kills and power losses at any point.
THEOREM LinesNotMerged ==
    ASSUME WriteErrors = FALSE
    PROVE  Spec => []NoMergedLine
  <1>1. Init => TailInv
    BY DEF Init, TailInv, NoMergedLine
  <1>2. TypeOK /\ TypeOK' /\ TailInv /\ [Next]_vars => TailInv'
    BY TailStep
  <1>3. TailInv => NoMergedLine
    BY DEF TailInv
  <1>4. QED BY <1>1, <1>2, <1>3, Typing, PTL DEF Spec

-----------------------------------------------------------------------------
(***************************************************************************)
(* Durability.                                                             *)
(***************************************************************************)

SyncInv == \A d \in Days : synced[d] <= Len(files[d])

\* Text u is t, possibly with the newline t did not have.
SameText(t, u) ==
    /\ u.id = t.id
    /\ u.whole = t.whole
    /\ t.eol => u.eol

\* A step keeps the first n texts of file f in file g.
Keeps(f, g, n) ==
    /\ n <= Len(g)
    /\ \A i \in 1..n : SameText(f[i], g[i])

KeepsDurable == \A d \in Days : Keeps(files[d], files'[d], synced[d])

LEMMA DurableStep ==
    ASSUME TypeOK, TypeOK', SyncInv, [Next]_vars
    PROVE  SyncInv' /\ KeepsDurable
  <1>0. /\ files \in [Days -> Seq(Text)] /\ files' \in [Days -> Seq(Text)]
        /\ synced \in [Days -> Nat] /\ synced' \in [Days -> Nat]
        /\ \A d \in Days : /\ Len(files[d]) \in Nat /\ Len(files'[d]) \in Nat
                           /\ synced[d] \in Nat /\ synced'[d] \in Nat
                           /\ synced[d] <= Len(files[d])
    BY DEF TypeOK, SyncInv
  <1>1. CASE UNCHANGED files /\ \A d \in Days : synced'[d] \in synced[d]..Len(files[d])
    BY <1>0, <1>1 DEF SyncInv, KeepsDurable, Keeps, SameText
  <1>2. CASE UNCHANGED disk
    <2>1. \A d \in Days : synced'[d] \in synced[d]..Len(files[d])
      BY <1>0, <1>2 DEF disk
    <2>2. QED BY <1>1, <1>2, <2>1 DEF disk
  <1>3. CASE \/ Enqueue \/ FsyncIntervalPasses \/ Stop \/ Get \/ Timeout
             \/ Restart \/ UNCHANGED vars
    BY <1>2, <1>3
       DEF Enqueue, FsyncIntervalPasses, Stop, Get, Timeout, Restart, vars
  <1>4. CASE Open
    <2>1. synced' = synced
      BY <1>4 DEF Open
    <2>2. ASSUME NEW d \in Days
          PROVE  /\ Len(files'[d]) = Len(files[d])
                 /\ \A i \in 1..Len(files[d]) : SameText(files[d][i], files'[d][i])
      <3>1. files[d] \in Seq(Text)
        BY <1>0
      <3>2. CASE files'[d] = files[d]
        BY <3>2 DEF SameText
      <3>3. CASE files'[d] = CleanTail(files[d])
        BY <3>1, <3>3, CleanTailFacts DEF SameText
      <3>4. QED BY <1>0, <1>4, <3>2, <3>3 DEF Open
    <2>3. QED BY <1>0, <2>1, <2>2 DEF SyncInv, KeepsDurable, Keeps
  <1>5. ASSUME synced' = synced, NEW t,
               files' = [files EXCEPT ![cur] = Append(@, t)]
        PROVE  SyncInv' /\ KeepsDurable
    <2>1. ASSUME NEW d \in Days
          PROVE  /\ Len(files[d]) <= Len(files'[d])
                 /\ \A i \in 1..Len(files[d]) : files'[d][i] = files[d][i]
      <3>1. CASE d = cur
        <4>1. files'[d] = Append(files[d], t)
          BY <1>0, <1>5, <3>1
        <4>2. QED BY <1>0, <4>1
      <3>2. CASE d # cur
        <4>1. files'[d] = files[d]
          BY <1>0, <1>5, <3>2
        <4>2. QED BY <1>0, <4>1
      <3>3. QED BY <3>1, <3>2
    <2>2. QED BY <1>0, <1>5, <2>1 DEF SyncInv, KeepsDurable, Keeps, SameText
  <1>6. CASE WriteLine
    <2>1. /\ synced' = synced
          /\ \E i \in DOMAIN buffer :
                files' = [files EXCEPT ![cur] =
                   Append(@, [id |-> buffer[i].id, whole |-> TRUE, eol |-> TRUE])]
      BY <1>6 DEF WriteLine
    <2>2. QED BY <1>5, <2>1
  <1>7. CASE Finish
    <2>1. UNCHANGED files
      BY <1>7 DEF Finish
    <2>2. \A d \in Days : synced'[d] \in synced[d]..Len(files[d])
      BY <1>0, <1>7 DEF Finish
    <2>3. QED BY <1>1, <2>1, <2>2
  <1>8. CASE WriteFails \/ Exit
    <2>1. synced' = synced /\ (Fragment \/ UNCHANGED files)
      BY <1>8 DEF WriteFails, Exit
    <2>2. CASE Fragment
      <3>1. \E i \in DOMAIN buffer, w \in BOOLEAN :
               files' = [files EXCEPT ![cur] =
                  Append(@, [id |-> buffer[i].id, whole |-> w, eol |-> FALSE])]
        BY <2>2 DEF Fragment
      <3>2. QED BY <1>5, <2>1, <3>1
    <2>3. CASE UNCHANGED files
      BY <1>2, <2>1, <2>3 DEF disk
    <2>4. QED BY <2>1, <2>2, <2>3
  <1>9. CASE PowerLoss
    <2>1. PICK keep \in [Days -> 0..accepted],
               cut \in [Days -> {"none", "newline", "text"}] :
             /\ \A d \in Days :
                   /\ keep[d] \in synced[d]..Len(files[d])
                   /\ cut[d] # "none" => keep[d] > synced[d]
             /\ files' = [d \in Days |-> Surviving(files[d], keep[d], cut[d])]
             /\ synced' = [d \in Days |->
                   IF cut[d] # "none" THEN keep[d] - 1 ELSE keep[d]]
      BY <1>9 DEF PowerLoss
    <2>2. ASSUME NEW d \in Days
          PROVE  synced'[d] <= Len(files'[d]) /\ Keeps(files[d], files'[d], synced[d])
      <3> DEFINE n == keep[d]
                 c == cut[d]
                 f == files[d]
      <3>1. /\ f \in Seq(Text) /\ n \in 0..Len(f) /\ c \in {"none", "newline", "text"}
            /\ n >= synced[d] /\ (c # "none" => n > synced[d])
        BY <1>0, <2>1
      <3>2. files'[d] = Surviving(f, n, c)
        BY <2>1
      <3>3. synced'[d] <= n /\ n \in Nat
        BY <1>0, <2>1
      <3> HIDE DEF n, c, f
      <3>4. /\ Len(Surviving(f, n, c)) = n
            /\ \A i \in 1..n : i < n \/ c = "none" => Surviving(f, n, c)[i] = f[i]
        BY <3>1, SurvivingFacts
      <3>5. \A i \in 1..synced[d] : i \in 1..n /\ (i < n \/ c = "none")
        BY <1>0, <3>1, <3>3
      <3>6. \A i \in 1..synced[d] : files'[d][i] = f[i]
        BY <3>2, <3>4, <3>5
      <3>7. QED BY <1>0, <3>1, <3>2, <3>3, <3>4, <3>6 DEF Keeps, SameText, f
    <2>3. QED BY <2>2 DEF SyncInv, KeepsDurable
  <1>10. QED
    BY <1>3, <1>4, <1>6, <1>7, <1>8, <1>9 DEF Next

\* What is durable stays: no append, tail repair, error, kill or power loss
\* takes back a text that an fsync or a power loss has left on the disk.
THEOREM Durability == Spec => DurableStays
  <1>1. Init => SyncInv
    BY DEF Init, SyncInv
  <1>2. TypeOK /\ TypeOK' /\ SyncInv /\ [Next]_vars => SyncInv'
    BY DurableStep
  <1>3. TypeOK /\ TypeOK' /\ SyncInv /\ [Next]_vars =>
           [\A d \in Days :
              /\ synced[d] <= Len(files'[d])
              /\ \A i \in 1..synced[d] :
                    /\ files'[d][i].id = files[d][i].id
                    /\ files'[d][i].whole = files[d][i].whole
                    /\ files[d][i].eol => files'[d][i].eol]_vars
    BY DurableStep DEF KeepsDurable, Keeps, SameText
  <1>4. QED BY <1>1, <1>2, <1>3, Typing, PTL DEF Spec, DurableStays

-----------------------------------------------------------------------------
(***************************************************************************)
(* The last flush. Its lines are durable day by day: an induction over the *)
(* days of the flush, carried by LastFlushInv.                             *)
(***************************************************************************)

\* Ids of the first n texts of f.
IdsUpTo(f, n) == {f[i].id : i \in 1..n}

\* The last flush fsyncs, and the lines of the days it is done with are
\* durable; those of the day it is writing are in the file up to pos.
LastFlushInv ==
    final => /\ syncing
             /\ \A k \in 1..Len(buffer) :
                   /\ buffer[k].day \notin todo \cup {cur} =>
                         buffer[k].id \in
                            IdsUpTo(files[buffer[k].day], synced[buffer[k].day])
                   /\ buffer[k].day = cur /\ k <= pos =>
                         buffer[k].id \in IdsUpTo(files[cur], Len(files[cur]))

\* A flush that begins settles nothing, and only the shutdown drain's is final.
LEMMA FlushStartsLast ==
    ASSUME NEW buf \in Seq(Msg), NEW force \in BOOLEAN, fsyncDue \in BOOLEAN,
           StartFlush(buf, force)
    PROVE  LastFlushInv'
  <1>1. FlushBegun(buf)
    BY StartFlushFacts
  <1>2. \A k \in 1..Len(buf) : buf[k].day \in todo' \cup {cur'}
    <2>1. DOMAIN buf = 1..Len(buf)
      OBVIOUS
    <2>2. QED BY <1>1, <2>1 DEF FlushBegun, DaysOf
  <1>3. final' => syncing'
    BY DEF StartFlush
  <1>4. QED BY <1>1, <1>2, <1>3 DEF FlushBegun, LastFlushInv

LEMMA LoopTopLast ==
    ASSUME NEW buf \in Seq(Msg), NEW q \in Seq(Msg), NEW off \in Seq(Nat),
           fsyncDue \in BOOLEAN, LoopTop(buf, q, off)
    PROVE  LastFlushInv'
  <1>1. CASE ~stopping
    BY <1>1 DEF LoopTop, NoFlush, LastFlushInv
  <1>2. CASE stopping /\ buf \o q = <<>>
    BY <1>2 DEF LoopTop, Drain, NoFlush, LastFlushInv
  <1>3. CASE stopping /\ buf \o q # <<>>
    <2>1. buf \o q \in Seq(Msg)
      OBVIOUS
    <2>2. StartFlush(buf \o q, TRUE)
      BY <1>3 DEF LoopTop, Drain
    <2>3. QED BY <2>1, <2>2, FlushStartsLast
  <1>4. QED BY <1>1, <1>2, <1>3

\* The day just finished is durable with all its lines.
LEMMA FinishLast ==
    ASSUME TypeOK, TypeOK', FlowInv, LastFlushInv, SyncInv, Finish
    PROVE  /\ LastFlushInv'
           /\ final /\ pc' = "done" =>
                 \A k \in 1..Len(buffer) :
                    buffer[k].id \in
                       IdsUpTo(files'[buffer[k].day], synced'[buffer[k].day])
  <1>1. /\ pc = "write" /\ cur \in Days /\ cur \notin todo /\ files' = files
        /\ Unwritten = {} /\ DayDone
    BY DEF Finish, FlowInv, TypeOK
  <1>2. \A k \in 1..Len(buffer) : k \in DOMAIN buffer /\ buffer[k].day \in Days
    <2>1. \A k \in 1..Len(buffer) : k \in DOMAIN buffer /\ buffer[k] \in Msg
      BY DEF TypeOK
    <2>2. QED BY <2>1 DEF Msg
  <1>3. ASSUME final, NEW k \in 1..Len(buffer), buffer[k].day \notin todo
        PROVE  buffer[k].id \in
                  IdsUpTo(files'[buffer[k].day], synced'[buffer[k].day])
    <2>1. synced' = [synced EXCEPT ![cur] = Len(files[cur])]
      BY <1>3 DEF Finish, LastFlushInv
    <2>2. CASE buffer[k].day = cur
      <3>1. k <= pos
        <4>1. ~(k > pos)
          BY <1>1, <1>2, <2>2 DEF Unwritten
        <4>2. QED BY <4>1 DEF TypeOK
      <3>2. buffer[k].id \in IdsUpTo(files[cur], Len(files[cur]))
        BY <1>1, <1>3, <2>2, <3>1 DEF LastFlushInv
      <3>3. synced'[cur] = Len(files[cur])
        BY <1>1, <2>1 DEF TypeOK
      <3>4. QED BY <1>1, <2>2, <3>2, <3>3
    <2>3. CASE buffer[k].day # cur
      <3>1. synced'[buffer[k].day] = synced[buffer[k].day]
        BY <1>2, <2>1, <2>3 DEF TypeOK
      <3>2. QED BY <1>1, <1>3, <2>3, <3>1 DEF LastFlushInv
    <2>4. QED BY <2>2, <2>3
  <1>4. CASE todo # {}
    <2>1. StartDay(buffer, todo) /\ UNCHANGED <<buffer, final, syncing>>
      BY <1>1, <1>4 DEF DayDone
    <2>2. pos' = 0 /\ todo' \cup {cur'} = todo
      BY <2>1, StartDayFacts DEF TypeOK
    <2>3. \A k \in 1..Len(buffer) : ~(k <= pos')
      BY <2>2 DEF TypeOK
    <2>4. final' => final /\ syncing'
      BY <2>1 DEF LastFlushInv
    <2>5. LastFlushInv'
      BY <1>1, <1>3, <2>1, <2>2, <2>3, <2>4 DEF LastFlushInv
    <2>6. QED
      BY <1>1, <1>4, <2>1, <2>5, StartDayFacts DEF TypeOK
  <1>5. CASE todo = {} /\ final
    <2>1. final' = FALSE
      BY <1>1, <1>5 DEF DayDone, NoFlush
    <2>2. QED BY <1>3, <1>5, <2>1 DEF LastFlushInv
  <1>6. CASE todo = {} /\ ~final
    <2>1. LoopTop(<<>>, queue, offered) /\ <<>> \in Seq(Msg)
      BY <1>1, <1>6 DEF DayDone
    <2>2. QED BY <1>6, <2>1, LoopTopLast DEF TypeOK
  <1>7. QED BY <1>4, <1>5, <1>6

\* While a file keeps the ids it has, so do its first texts.
LEMMA LastFlushKept ==
    ASSUME TypeOK, TypeOK', LastFlushInv, SyncInv,
           UNCHANGED <<buffer, final, syncing, todo, cur, synced>>,
           \A d \in Days :
              /\ Len(files[d]) <= Len(files'[d])
              /\ \A i \in 1..Len(files[d]) : files'[d][i].id = files[d][i].id,
           \A k \in 1..Len(buffer) :
              buffer[k].day = cur /\ k <= pos' =>
                 \/ k <= pos
                 \/ buffer[k].id \in IdsUpTo(files'[cur], Len(files'[cur]))
    PROVE  LastFlushInv'
  <1>1. \A d \in Days : /\ Len(files[d]) \in Nat /\ Len(files'[d]) \in Nat
                        /\ synced[d] \in Nat /\ synced[d] <= Len(files[d])
    BY DEF TypeOK, SyncInv
  <1>2. \A d \in Days : \A n \in 0..Len(files[d]) :
           IdsUpTo(files[d], n) \subseteq IdsUpTo(files'[d], n)
    BY <1>1 DEF IdsUpTo
  <1>3. \A d \in Days :
           /\ IdsUpTo(files[d], synced[d]) \subseteq IdsUpTo(files'[d], synced[d])
           /\ IdsUpTo(files[d], Len(files[d])) \subseteq
                 IdsUpTo(files'[d], Len(files'[d]))
    <2> SUFFICES ASSUME NEW d \in Days
                 PROVE  /\ IdsUpTo(files[d], synced[d]) \subseteq IdsUpTo(files'[d], synced[d])
                        /\ IdsUpTo(files[d], Len(files[d])) \subseteq
                              IdsUpTo(files'[d], Len(files'[d]))
      OBVIOUS
    <2>0. synced[d] \in 0..Len(files[d]) /\ Len(files[d]) \in 0..Len(files[d])
      BY <1>1
    <2>1. IdsUpTo(files[d], synced[d]) \subseteq IdsUpTo(files'[d], synced[d])
      BY <1>2, <2>0
    <2>2. IdsUpTo(files[d], Len(files[d])) \subseteq IdsUpTo(files'[d], Len(files[d]))
      BY <1>2, <2>0
    <2>3. 1..Len(files[d]) \subseteq 1..Len(files'[d])
      BY <1>1
    <2>4. QED BY <2>1, <2>2, <2>3 DEF IdsUpTo
  <1>4. \A k \in 1..Len(buffer) : buffer[k].day \in Days
    <2>1. \A k \in 1..Len(buffer) : buffer[k] \in Msg
      BY DEF TypeOK
    <2>2. QED BY <2>1 DEF Msg
  <1>5. ASSUME final, NEW k \in 1..Len(buffer)
        PROVE  /\ buffer[k].day \notin todo \cup {cur} =>
                     buffer[k].id \in
                        IdsUpTo(files'[buffer[k].day], synced[buffer[k].day])
               /\ buffer[k].day = cur /\ k <= pos' =>
                     buffer[k].id \in IdsUpTo(files'[cur], Len(files'[cur]))
    BY <1>3, <1>4, <1>5 DEF LastFlushInv
  <1>6. final => syncing
    BY DEF LastFlushInv
  <1>7. QED BY <1>5, <1>6 DEF LastFlushInv

\* Every step keeps LastFlushInv: one step per action.
LEMMA LastFlushStep ==
    ASSUME WriteErrors = FALSE, TypeOK, TypeOK', OrderInv, SyncInv,
           LastFlushInv, [Next]_vars
    PROVE  LastFlushInv'
  <1>0. /\ queue \in Seq(Msg) /\ buffer \in Seq(Msg) /\ fsyncDue \in BOOLEAN
        /\ offered \in Seq(Nat) /\ files \in [Days -> Seq(Text)]
        /\ pos \in Nat /\ Len(buffer) \in Nat
        /\ \A d \in Days : Len(files[d]) \in Nat
    BY DEF TypeOK
  <1>1. CASE UNCHANGED <<buffer, pc, final, syncing, todo, cur, pos, synced, files>>
    BY <1>1 DEF LastFlushInv, IdsUpTo
  <1>2. CASE Enqueue \/ FsyncIntervalPasses \/ Stop \/ UNCHANGED vars
    BY <1>1, <1>2
       DEF Enqueue, FsyncIntervalPasses, Stop, vars, coroutine, disk
  <1>3. CASE Get
    <2> DEFINE buf == Append(buffer, Head(queue))
               off == Append(offered, Head(queue).id)
               q == Tail(queue)
    <2>1. queue # <<>>
      BY <1>3 DEF Get
    <2>2. Head(queue) \in Msg /\ q \in Seq(Msg) /\ buf \in Seq(Msg)
      BY <1>0, <2>1
    <2>3. off \in Seq(Nat)
      <3>1. Head(queue).id \in Nat
        BY <2>2 DEF Msg
      <3>2. QED BY <1>0, <3>1
    <2>4. StartFlush(buf, FALSE) \/ LoopTop(buf, q, off)
      BY <1>3 DEF Get
    <2> HIDE DEF buf, q, off
    <2>5. QED BY <1>0, <2>2, <2>3, <2>4, FlushStartsLast, LoopTopLast
  <1>4. CASE Timeout
    <2>1. StartFlush(buffer, FALSE) \/ LoopTop(<<>>, queue, offered)
      BY <1>4 DEF Timeout
    <2>2. <<>> \in Seq(Msg)
      OBVIOUS
    <2>3. QED BY <1>0, <2>1, <2>2, FlushStartsLast, LoopTopLast
  <1>5. CASE Open
    <2>1. /\ UNCHANGED <<buffer, final, syncing, todo, cur, synced, pos>>
          /\ pc = "open" /\ pc' = "write"
      BY <1>5 DEF Open
    <2>2. ASSUME NEW d \in Days
          PROVE  /\ Len(files[d]) <= Len(files'[d])
                 /\ \A i \in 1..Len(files[d]) : files'[d][i].id = files[d][i].id
      <3>1. files[d] \in Seq(Text)
        BY <1>0
      <3>2. files'[d] = files[d] \/ files'[d] = CleanTail(files[d])
        BY <1>0, <1>5 DEF Open
      <3>3. QED BY <1>0, <3>1, <3>2, CleanTailFacts
    <2>3. QED BY <2>1, <2>2, LastFlushKept
  <1>6. CASE WriteLine
    <2>1. PICK i \in DOMAIN buffer :
             /\ NextLine(i)
             /\ files' = [files EXCEPT ![cur] =
                   Append(@, [id |-> buffer[i].id, whole |-> TRUE, eol |-> TRUE])]
             /\ pos' = i
      BY <1>6 DEF WriteLine
    <2>2. /\ UNCHANGED <<buffer, pc, final, syncing, todo, cur, synced>>
          /\ pc = "write" /\ cur \in Days
      BY <1>6 DEF WriteLine, TypeOK
    <2> DEFINE t == [id |-> buffer[i].id, whole |-> TRUE, eol |-> TRUE]
    <2>3. /\ t.id = buffer[i].id
          /\ files'[cur] = Append(files[cur], t)
          /\ \A d \in Days : d # cur => files'[d] = files[d]
      BY <1>0, <2>1, <2>2
    <2> HIDE DEF t
    <2>4. /\ Len(files'[cur]) = Len(files[cur]) + 1
          /\ files'[cur][Len(files[cur]) + 1] = t
          /\ \A j \in 1..Len(files[cur]) : files'[cur][j] = files[cur][j]
      BY <1>0, <2>2, <2>3
    <2>5. ASSUME NEW d \in Days
          PROVE  /\ Len(files[d]) <= Len(files'[d])
                 /\ \A j \in 1..Len(files[d]) : files'[d][j].id = files[d][j].id
      <3>1. CASE d = cur
        BY <1>0, <2>4, <3>1
      <3>2. CASE d # cur
        <4>1. files'[d] = files[d]
          BY <2>3, <3>2
        <4>2. QED BY <1>0, <4>1
      <3>3. QED BY <3>1, <3>2
    <2>6. buffer[i].id \in IdsUpTo(files'[cur], Len(files'[cur]))
      <3>1. Len(files[cur]) + 1 \in 1..Len(files'[cur])
        BY <1>0, <2>2, <2>4
      <3>2. QED BY <2>3, <2>4, <3>1 DEF IdsUpTo
    <2>7. ASSUME NEW k \in 1..Len(buffer), buffer[k].day = cur, k <= pos'
          PROVE  k <= pos \/ buffer[k].id \in IdsUpTo(files'[cur], Len(files'[cur]))
      <3>1. k > pos => k = i
        <4>1. /\ i \in 1..Len(buffer) /\ i >= k
              /\ \A j \in (pos + 1)..(i - 1) : buffer[j].day # cur
          BY <1>0, <2>1, <2>7 DEF NextLine
        <4>2. QED BY <1>0, <2>7, <4>1
      <3>2. QED BY <1>0, <2>6, <3>1
    <2>8. QED BY <2>2, <2>5, <2>7, LastFlushKept
  <1>7. CASE Finish
    BY <1>7, FinishLast DEF OrderInv
  <1>8. CASE WriteFails
    BY <1>8 DEF WriteFails
  <1>9. CASE Exit \/ PowerLoss
    BY <1>9 DEF Exit, PowerLoss, MemoryLost, NoFlush, LastFlushInv
  <1>10. CASE Restart
    BY <1>10 DEF Restart, OrderInv, FlowInv, LastFlushInv
  <1>11. QED
    BY <1>2, <1>3, <1>4, <1>5, <1>6, <1>7, <1>8, <1>9, <1>10 DEF Next

\* The flush that ends a run, whatever mix of days it holds, leaves every line
\* of its own buffer durable, as long as no write fails: the drain forces the
\* fsync (_run(), lines 166-167) and each day's is taken after that day's last
\* line.  It is about no other line: a file only earlier flushes wrote, or a
\* run that ends with an empty buffer, may leave lines that are not synced.
THEOREM LastFlush ==
    ASSUME WriteErrors = FALSE
    PROVE  Spec => LastFlushIsDurable
  <1>1. Init => SyncInv /\ LastFlushInv
    BY DEF Init, SyncInv, LastFlushInv
  <1>2. /\ TypeOK /\ OrderInv /\ (TypeOK /\ OrderInv)'
        /\ SyncInv /\ LastFlushInv /\ [Next]_vars
        => (SyncInv /\ LastFlushInv)'
    BY DurableStep, LastFlushStep
  <1>3. /\ TypeOK /\ OrderInv /\ (TypeOK /\ OrderInv)'
        /\ SyncInv /\ LastFlushInv /\ [Next]_vars
        => [final /\ pc = "write" /\ pc' = "done" =>
               \A k \in DOMAIN buffer :
                  buffer[k].id \in
                     {files'[buffer[k].day][i].id :
                         i \in 1..synced'[buffer[k].day]}]_vars
    <2> SUFFICES ASSUME TypeOK, TypeOK', OrderInv, SyncInv, LastFlushInv,
                        Next, final, pc = "write", pc' = "done"
                 PROVE  \A k \in DOMAIN buffer :
                           buffer[k].id \in
                              {files'[buffer[k].day][i].id :
                                  i \in 1..synced'[buffer[k].day]}
      OBVIOUS
    <2>1. Finish
      BY DEF Next, Enqueue, FsyncIntervalPasses, Stop, Get, Timeout, Open,
             WriteLine, WriteFails, Exit, PowerLoss, MemoryLost, Restart,
             coroutine
    <2>2. DOMAIN buffer = 1..Len(buffer)
      BY DEF TypeOK
    <2>3. QED BY <2>1, <2>2, FinishLast DEF OrderInv, IdsUpTo
  <1>4. QED
    BY <1>1, <1>2, <1>3, OrderInvariant, PTL DEF Spec, LastFlushIsDurable

-----------------------------------------------------------------------------
(***************************************************************************)
(* What is pending.  The messages of the queue and those of the buffer     *)
(* that wait are the pending ones; each step's effect on them, once        *)
(* stated, gives both that no message is lost silently and that the day    *)
(* files implement DeviceLog.                                              *)
(***************************************************************************)

Elements(s) == {s[i] : i \in DOMAIN s}

Abandoned ==
    {buffer[k] : k \in {i \in DOMAIN buffer : i > pos /\ buffer[i].day = cur}}

LEMMA ElementsOf ==
    ASSUME NEW a \in Seq(Msg), NEW b \in Seq(Msg), NEW m \in Msg
    PROVE  /\ Elements(a \o b) = Elements(a) \cup Elements(b)
           /\ Elements(Append(a, m)) = Elements(a) \cup {m}
           /\ a # <<>> => Elements(a) = {Head(a)} \cup Elements(Tail(a))
           /\ Elements(<<>>) = {}
  <1>1. Elements(a \o b) = Elements(a) \cup Elements(b)
    <2> DEFINE c == a \o b
    <2>1. /\ DOMAIN c = 1..(Len(a) + Len(b))
          /\ DOMAIN a = 1..Len(a) /\ DOMAIN b = 1..Len(b)
          /\ Len(a) \in Nat /\ Len(b) \in Nat
          /\ \A i \in 1..Len(a) : c[i] = a[i]
          /\ \A i \in 1..Len(b) : c[Len(a) + i] = b[i]
          /\ \A i \in DOMAIN c : i \in 1..Len(a) \/ i - Len(a) \in 1..Len(b)
      OBVIOUS
    <2> HIDE DEF c
    <2>2. ASSUME NEW i \in DOMAIN c
          PROVE  c[i] \in Elements(a) \cup Elements(b)
      <3>1. CASE i \in 1..Len(a)
        BY <2>1, <3>1 DEF Elements
      <3>2. CASE i - Len(a) \in 1..Len(b)
        <4>1. c[Len(a) + (i - Len(a))] = b[i - Len(a)] /\ i = Len(a) + (i - Len(a))
          BY <2>1, <3>2
        <4>2. QED BY <2>1, <3>2, <4>1 DEF Elements
      <3>3. QED BY <2>1, <3>1, <3>2
    <2>3. \A i \in DOMAIN a : a[i] \in Elements(c)
      BY <2>1 DEF Elements
    <2>4. ASSUME NEW i \in DOMAIN b
          PROVE  b[i] \in Elements(c)
      <3>1. Len(a) + i \in DOMAIN c /\ c[Len(a) + i] = b[i]
        BY <2>1
      <3>2. QED BY <3>1 DEF Elements
    <2>5. Elements(c) \subseteq Elements(a) \cup Elements(b)
      BY <2>2 DEF Elements
    <2>6. Elements(a) \subseteq Elements(c) /\ Elements(b) \subseteq Elements(c)
      BY <2>3, <2>4 DEF Elements
    <2>7. QED BY <2>5, <2>6 DEF c
  <1>2. Elements(Append(a, m)) = Elements(a) \cup {m}
    <2> DEFINE c == Append(a, m)
    <2>1. /\ DOMAIN c = 1..(Len(a) + 1)
          /\ DOMAIN a = 1..Len(a) /\ Len(a) \in Nat
          /\ \A i \in 1..Len(a) : c[i] = a[i]
          /\ c[Len(a) + 1] = m
          /\ \A i \in DOMAIN c : i \in 1..Len(a) \/ i = Len(a) + 1
          /\ Len(a) + 1 \in DOMAIN c
      OBVIOUS
    <2> HIDE DEF c
    <2>2. QED BY <2>1 DEF Elements, c
  <1>3. ASSUME a # <<>>
        PROVE  Elements(a) = {Head(a)} \cup Elements(Tail(a))
    <2> DEFINE t == Tail(a)
    <2>1. /\ DOMAIN a = 1..Len(a) /\ Len(a) \in Nat /\ Len(a) >= 1
          /\ DOMAIN t = 1..(Len(a) - 1)
          /\ Head(a) = a[1]
          /\ \A i \in 1..(Len(a) - 1) : t[i] = a[i + 1]
      BY <1>3
    <2> HIDE DEF t
    <2>2. ASSUME NEW i \in DOMAIN a
          PROVE  a[i] \in {a[1]} \cup Elements(t)
      <3>1. CASE i = 1
        BY <3>1
      <3>2. CASE i # 1
        <4>1. i - 1 \in DOMAIN t /\ t[i - 1] = a[i]
          BY <2>1, <3>2
        <4>2. QED BY <4>1 DEF Elements
      <3>3. QED BY <3>1, <3>2
    <2>3. ASSUME NEW i \in DOMAIN t
          PROVE  t[i] \in Elements(a)
      <3>1. i + 1 \in DOMAIN a /\ t[i] = a[i + 1]
        BY <2>1
      <3>2. QED BY <3>1 DEF Elements
    <2>4. 1 \in DOMAIN a
      BY <2>1
    <2>5. Elements(a) \subseteq {a[1]} \cup Elements(t)
      BY <2>2 DEF Elements
    <2>6. {a[1]} \cup Elements(t) \subseteq Elements(a)
      BY <2>3, <2>4 DEF Elements
    <2>7. QED BY <2>1, <2>5, <2>6 DEF t
  <1>4. Elements(<<>>) = {}
    BY DEF Elements
  <1>5. QED BY <1>1, <1>2, <1>3, <1>4

\* While nothing of a flush is settled, all the coroutine holds is pending.
LEMMA WaitingAll ==
    ASSUME pc = "get"
    PROVE  Pending = Elements(buffer) \cup Elements(queue)
  BY DEF Pending, Waiting, Elements

LEMMA FlushBegunPending ==
    ASSUME NEW buf \in Seq(Msg), FlushBegun(buf)
    PROVE  Pending' = Elements(buf) \cup Elements(queue')
  <1>1. \A k \in DOMAIN buf : buf[k].day \in todo' \/ (buf[k].day = cur' /\ k > pos')
    <2>1. \A k \in DOMAIN buf : buf[k].day \in DaysOf(buf) /\ k > 0
      BY DEF DaysOf
    <2>2. QED BY <2>1 DEF FlushBegun
  <1>2. QED BY <1>1 DEF FlushBegun, Pending, Waiting, Elements

LEMMA LoopTopPending ==
    ASSUME NEW buf \in Seq(Msg), NEW q \in Seq(Msg),
           NEW off \in Seq(Nat), fsyncDue \in BOOLEAN, LoopTop(buf, q, off)
    PROVE  Pending' = Elements(buf) \cup Elements(q)
  <1>1. CASE Waits(buf, q, off)
    BY <1>1 DEF Waits, Pending, Waiting, Elements
  <1>2. CASE Returns(buf, q, off)
    BY <1>2 DEF Returns, Pending, Elements
  <1>3. CASE FlushesAll(buf, q, off)
    <2>1. Pending' = Elements(buf \o q) \cup Elements(<<>>)
      <3>1. buf \o q \in Seq(Msg)
        OBVIOUS
      <3>2. QED BY <1>3, <3>1, FlushBegunPending DEF FlushesAll
    <2>2. /\ Elements(buf \o q) = Elements(buf) \cup Elements(q)
          /\ Elements(<<>>) = {}
      <3>1. PICK m \in Msg : TRUE
        <4>1. PICK d \in Days : TRUE
          BY DeviceWriterAssumption
        <4>2. [id |-> 1, day |-> d] \in Msg
          BY DEF Msg
        <4>3. QED BY <4>2
      <3>2. QED BY <3>1, ElementsOf
    <2>3. QED BY <2>1, <2>2
  <1>4. QED BY <1>1, <1>2, <1>3, LoopTopFacts

\* The messages of the days a flush has not reached yet.
Later == {buffer[k] : k \in {i \in DOMAIN buffer : buffer[i].day \in todo}}

LEMMA PendingInFlush ==
    ASSUME pc \in {"open", "write"}
    PROVE  Pending = Later \cup Abandoned \cup Elements(queue)
  BY DEF Pending, Waiting, Later, Abandoned, Elements

\* When a day is done, what of it was not written is pending no longer.
LEMMA DayDonePending ==
    ASSUME TypeOK, FlowInv, pc \in {"open", "write"}, DayDone
    PROVE  Pending' = Later \cup Elements(queue)
  <1>1. CASE todo # {}
    <2>1. /\ StartDay(buffer, todo)
          /\ UNCHANGED <<buffer, queue>>
      BY <1>1 DEF DayDone
    <2>2. pc' = "open" /\ pos' = 0 /\ todo' \cup {cur'} = todo
      BY <2>1, StartDayFacts DEF TypeOK
    <2>3. \A k \in DOMAIN buffer : k > 0
      BY DEF TypeOK
    <2>4. \A k \in DOMAIN buffer : buffer[k].day \in todo <=>
             \/ pc' = "get"
             \/ buffer'[k].day \in todo'
             \/ buffer'[k].day = cur' /\ k > pos'
      BY <2>1, <2>2, <2>3
    <2>5. QED BY <2>1, <2>4 DEF Pending, Waiting, Later, Elements
  <1>2. CASE todo = {} /\ final
    <2>1. buffer' = <<>> /\ queue' = queue
      BY <1>2 DEF DayDone
    <2>2. QED BY <1>2, <2>1 DEF Pending, Later, Elements
  <1>3. CASE todo = {} /\ ~final
    <2>1. LoopTop(<<>>, queue, offered)
      BY <1>3 DEF DayDone
    <2>2. <<>> \in Seq(Msg) /\ Elements(<<>>) = {}
      BY DEF Elements
    <2>3. Pending' = Elements(<<>>) \cup Elements(queue)
      BY <2>1, <2>2, LoopTopPending DEF TypeOK
    <2>4. QED BY <1>3, <2>2, <2>3 DEF Later
  <1>4. QED BY <1>1, <1>2, <1>3

\* The line written next is of the oldest pending message of its day, and no
\* other pending message is the same.
LEMMA NextLineOldest ==
    ASSUME TypeOK, OrderInv, pc = "write", NEW i \in DOMAIN buffer, NextLine(i)
    PROVE  /\ buffer[i] \in Pending
           /\ \A m \in Pending : m.day = buffer[i].day => buffer[i].id <= m.id
           /\ \A k \in DOMAIN buffer : buffer[k] = buffer[i] => k = i
           /\ buffer[i] \notin Later \cup Elements(queue)
  <1>1. /\ DOMAIN buffer = 1..Len(buffer) /\ DOMAIN queue = 1..Len(queue)
        /\ Len(buffer) \in Nat /\ Len(queue) \in Nat /\ accepted \in Nat
        /\ pos \in Nat /\ i > pos /\ buffer[i].day = cur /\ cur \notin todo
    BY DEF TypeOK, OrderInv, FlowInv, NextLine
  <1>2. \A k \in DOMAIN buffer : buffer[k].id = accepted - Len(queue) - Len(buffer) + k
    BY <1>1 DEF OrderInv, Consecutive
  <1>3. \A k \in DOMAIN queue : queue[k].id = accepted - Len(queue) + k
    BY <1>1 DEF OrderInv, Consecutive
  <1>4. \A k \in DOMAIN queue : buffer[i].id < queue[k].id
    BY <1>1, <1>2, <1>3
  <1>5. \A k \in DOMAIN buffer :
           /\ k >= i => buffer[i].id <= buffer[k].id
           /\ buffer[i].id = buffer[k].id => k = i
    BY <1>1, <1>2
  <1>6. \A k \in DOMAIN buffer : buffer[k].day = cur /\ k > pos => k >= i
    BY <1>1 DEF NextLine
  <1>7. buffer[i] \in Pending
    BY <1>1 DEF Pending, Waiting
  <1>8. ASSUME NEW m \in Pending, m.day = buffer[i].day
        PROVE  buffer[i].id <= m.id
    <2>1. CASE m \in Elements(queue)
      <3>1. \A k \in DOMAIN queue : buffer[i].id <= queue[k].id
        BY <1>1, <1>2, <1>3
      <3>2. QED BY <2>1, <3>1 DEF Elements
    <2>2. CASE m \in Later
      BY <1>1, <1>8, <2>2 DEF Later
    <2>3. CASE m \in Abandoned
      BY <1>5, <1>6, <2>3 DEF Abandoned
    <2>4. QED BY <2>1, <2>2, <2>3, PendingInFlush
  <1>9. buffer[i] \notin Elements(queue)
    <2>1. \A k \in DOMAIN queue : queue[k].id # buffer[i].id
      BY <1>1, <1>2, <1>3
    <2>2. QED BY <2>1 DEF Elements
  <1>10. buffer[i] \notin Later
    BY <1>1 DEF Later
  <1>11. QED BY <1>5, <1>7, <1>8, <1>9, <1>10

\* What each step does to the pending messages.
LEMMA PendingStep ==
    ASSUME TypeOK, OrderInv
    PROVE  /\ Enqueue =>
                 \/ UNCHANGED <<Pending, accepted>>
                 \/ /\ accepted' = accepted + 1
                    /\ \E d \in Days : Pending' =
                          Pending \cup {[id |-> accepted + 1, day |-> d]}
           /\ FsyncIntervalPasses \/ Stop \/ Get \/ Timeout \/ Open \/ Restart
                 => UNCHANGED Pending
           /\ \A i \in DOMAIN buffer :
                 WriteLine /\ NextLine(i) => Pending' = Pending \ {buffer[i]}
           /\ Finish => UNCHANGED Pending
           /\ WriteFails => Pending' = Later \cup Elements(queue)
           /\ Exit \/ PowerLoss => Pending' = {}
  <1>0. /\ queue \in Seq(Msg) /\ buffer \in Seq(Msg) /\ fsyncDue \in BOOLEAN
        /\ accepted \in Nat /\ offered \in Seq(Nat)
    BY DEF TypeOK
  <1>1. ASSUME Enqueue
        PROVE  \/ UNCHANGED <<Pending, accepted>>
               \/ /\ accepted' = accepted + 1
                  /\ \E d \in Days : Pending' =
                        Pending \cup {[id |-> accepted + 1, day |-> d]}
    <2>1. UNCHANGED <<buffer, pc, todo, cur, pos>>
      BY <1>1 DEF Enqueue, coroutine
    <2>2. CASE UNCHANGED <<queue, accepted>>
      BY <2>1, <2>2 DEF Pending, Waiting
    <2>3. ASSUME NEW d \in Days, queue' = Append(queue, [id |-> accepted + 1, day |-> d])
          PROVE  Pending' = Pending \cup {[id |-> accepted + 1, day |-> d]}
      <3> DEFINE m == [id |-> accepted + 1, day |-> d]
      <3>1. m \in Msg
        BY <1>0 DEF Msg
      <3> HIDE DEF m
      <3>2. Elements(Append(queue, m)) = Elements(queue) \cup {m}
        BY <1>0, <3>1, ElementsOf
      <3>3. Elements(queue') = Elements(queue) \cup {m}
        BY <2>3, <3>2 DEF m
      <3>4. Pending' = Pending \cup {m}
        BY <2>1, <3>3 DEF Pending, Waiting, Elements
      <3>5. QED BY <3>4 DEF m
    <2>4. QED BY <1>1, <2>2, <2>3 DEF Enqueue
  <1>2. ASSUME Get
        PROVE  UNCHANGED Pending
    <2> DEFINE buf == Append(buffer, Head(queue))
               off == Append(offered, Head(queue).id)
               q == Tail(queue)
    <2>1. pc = "get" /\ queue # <<>>
      BY <1>2 DEF Get
    <2>2. /\ Head(queue) \in Msg /\ q \in Seq(Msg) /\ buf \in Seq(Msg)
          /\ off \in Seq(Nat)
      <3>1. Head(queue) \in Msg
        BY <1>0, <2>1
      <3>2. Head(queue).id \in Nat
        BY <3>1 DEF Msg
      <3>3. QED BY <1>0, <2>1, <3>1, <3>2
    <2>3. Elements(buf) \cup Elements(q) = Pending
      <3>1. Elements(buf) = Elements(buffer) \cup {Head(queue)}
        BY <1>0, <2>2, ElementsOf
      <3>2. Elements(queue) = {Head(queue)} \cup Elements(q)
        BY <1>0, <2>1, <2>2, ElementsOf
      <3>3. QED BY <2>1, <3>1, <3>2, WaitingAll
    <2>4. (StartFlush(buf, FALSE) /\ queue' = q) \/ LoopTop(buf, q, off)
      BY <1>2 DEF Get
    <2> HIDE DEF buf, q, off
    <2>5. CASE StartFlush(buf, FALSE) /\ queue' = q
      <3>1. FlushBegun(buf)
        BY <1>0, <2>2, <2>5, StartFlushFacts
      <3>2. QED BY <2>2, <2>3, <2>5, <3>1, FlushBegunPending
    <2>6. CASE LoopTop(buf, q, off)
      BY <1>0, <2>2, <2>3, <2>6, LoopTopPending
    <2>7. QED BY <2>4, <2>5, <2>6
  <1>3. ASSUME Timeout
        PROVE  UNCHANGED Pending
    <2>1. pc = "get" /\ Pending = Elements(buffer) \cup Elements(queue)
      BY <1>3, WaitingAll DEF Timeout
    <2>2. CASE buffer # <<>>
      <3>1. FlushBegun(buffer) /\ queue' = queue
        BY <1>0, <1>3, <2>2, StartFlushFacts DEF Timeout
      <3>2. QED BY <1>0, <2>1, <3>1, FlushBegunPending
    <2>3. CASE buffer = <<>>
      <3>1. LoopTop(<<>>, queue, offered) /\ <<>> \in Seq(Msg)
        BY <1>3, <2>3 DEF Timeout
      <3>2. Pending' = Elements(<<>>) \cup Elements(queue)
        BY <1>0, <3>1, LoopTopPending
      <3>3. QED BY <2>1, <2>3, <3>2
    <2>4. QED BY <2>2, <2>3
  <1>4. ASSUME FsyncIntervalPasses \/ Stop
        PROVE  UNCHANGED Pending
    BY <1>4 DEF FsyncIntervalPasses, Stop, coroutine, Pending, Waiting
  <1>5. ASSUME Open
        PROVE  UNCHANGED Pending
    BY <1>5 DEF Open, Pending, Waiting
  <1>6. ASSUME Restart
        PROVE  UNCHANGED Pending
    <2>1. buffer = <<>> /\ UNCHANGED <<buffer, queue>>
      BY <1>6 DEF Restart, OrderInv, FlowInv
    <2>2. DOMAIN buffer = {}
      BY <2>1
    <2>3. QED BY <2>1, <2>2 DEF Pending
  <1>7. ASSUME NEW i \in DOMAIN buffer, WriteLine, NextLine(i)
        PROVE  Pending' = Pending \ {buffer[i]}
    <2>1. /\ pc = "write" /\ UNCHANGED <<pc, buffer, queue, todo, cur>>
      BY <1>7 DEF WriteLine
    <2>2. pos' = i
      <3>1. PICK j \in DOMAIN buffer : NextLine(j) /\ pos' = j
        BY <1>7 DEF WriteLine
      <3>2. i \in Nat /\ j \in Nat /\ pos \in Nat
        BY DEF TypeOK
      <3>3. ~(i < j) /\ ~(j < i)
        BY <1>7, <3>1, <3>2 DEF NextLine
      <3>4. QED BY <3>1, <3>2, <3>3
    <2>3. Pending = Later \cup Abandoned \cup Elements(queue)
      BY <2>1, PendingInFlush
    <2>4. Pending' = Later \cup Abandoned' \cup Elements(queue)
      BY <2>1 DEF Pending, Waiting, Later, Abandoned, Elements
    <2>5. Abandoned' = Abandoned \ {buffer[i]}
      <3>1. \A k \in DOMAIN buffer : buffer[k].day = cur =>
               (k > i <=> k > pos /\ k # i)
        <4>1. \A k \in DOMAIN buffer : k \in Nat /\ (k \in (pos + 1)..(i - 1) <=> k > pos /\ k < i)
          BY DEF TypeOK
        <4>2. i \in Nat /\ pos \in Nat /\ i > pos
          BY <1>7 DEF TypeOK, NextLine
        <4>3. QED BY <1>7, <4>1, <4>2 DEF NextLine
      <3>2. \A k \in DOMAIN buffer : buffer[k] = buffer[i] <=> k = i
        BY <1>7, <2>1, NextLineOldest
      <3>3. Abandoned' = {buffer[k] : k \in {j \in DOMAIN buffer : j > i /\ buffer[j].day = cur}}
        BY <2>1, <2>2 DEF Abandoned
      <3>4. QED BY <3>1, <3>2, <3>3 DEF Abandoned
    <2>6. buffer[i] \notin Later \cup Elements(queue)
      BY <1>7, <2>1, NextLineOldest
    <2>7. QED BY <2>3, <2>4, <2>5, <2>6
  <1>8. ASSUME Finish
        PROVE  UNCHANGED Pending
    <2>1. pc = "write" /\ Unwritten = {} /\ DayDone
      BY <1>8 DEF Finish
    <2>2. Abandoned = {}
      BY <2>1 DEF Unwritten, Abandoned
    <2>3. QED BY <2>1, <2>2, DayDonePending, PendingInFlush DEF OrderInv
  <1>9. ASSUME WriteFails
        PROVE  Pending' = Later \cup Elements(queue)
    BY <1>9, DayDonePending DEF WriteFails, OrderInv
  <1>10. ASSUME Exit \/ PowerLoss
         PROVE  Pending' = {}
    <2>1. buffer' = <<>> /\ queue' = <<>>
      BY <1>10 DEF Exit, PowerLoss, MemoryLost
    <2>2. QED BY <2>1 DEF Pending
  <1>11. QED
    BY <1>1, <1>2, <1>3, <1>4, <1>5, <1>6, <1>7, <1>8, <1>9, <1>10

-----------------------------------------------------------------------------
(***************************************************************************)
(* No message is lost silently.                                            *)
(***************************************************************************)

Recorded(fs) == UNION {Whole(fs[d]) : d \in Days}

IdsOfPending == {m.id : m \in Pending}

LEMMA VolatileIsPending == Volatile = IdsOfPending
  BY DEF Volatile, Unsettled, Pending, IdsOfPending

\* An appended text takes nothing away from what a file has in full.
LEMMA AppendedWhole ==
    ASSUME NEW f \in Seq(Text), NEW t \in Text
    PROVE  /\ Whole(f) \subseteq Whole(Append(f, t))
           /\ t.whole => t.id \in Whole(Append(f, t))
  <1> DEFINE g == Append(f, t)
  <1>1. /\ DOMAIN f = 1..Len(f) /\ DOMAIN g = 1..(Len(f) + 1) /\ Len(f) \in Nat
        /\ \A i \in 1..Len(f) : g[i] = f[i] /\ i \in DOMAIN g
        /\ g[Len(f) + 1] = t /\ Len(f) + 1 \in DOMAIN g
    OBVIOUS
  <1> HIDE DEF g
  <1>2. Whole(f) \subseteq Whole(g)
    BY <1>1 DEF Whole
  <1>3. t.whole => t.id \in Whole(g)
    BY <1>1 DEF Whole
  <1>4. QED BY <1>2, <1>3 DEF g

LEMMA RecordedGrows ==
    ASSUME TypeOK, NEW i \in DOMAIN buffer, NEW w \in BOOLEAN, NEW e \in BOOLEAN,
           cur \in Days,
           files' = [files EXCEPT ![cur] =
              Append(@, [id |-> buffer[i].id, whole |-> w, eol |-> e])]
    PROVE  /\ Recorded(files) \subseteq Recorded(files')
           /\ w => buffer[i].id \in Recorded(files')
  <1> DEFINE t == [id |-> buffer[i].id, whole |-> w, eol |-> e]
  <1>1. t \in Text /\ t.id = buffer[i].id /\ t.whole = w
    <2>1. buffer[i] \in Msg
      BY DEF TypeOK
    <2>2. QED BY <2>1 DEF Msg, Text
  <1> HIDE DEF t
  <1>2. /\ files'[cur] = Append(files[cur], t) /\ files[cur] \in Seq(Text)
        /\ \A d \in Days : d # cur => files'[d] = files[d]
    BY DEF TypeOK, t
  <1>3. /\ Whole(files[cur]) \subseteq Whole(files'[cur])
        /\ t.whole => t.id \in Whole(files'[cur])
    BY <1>1, <1>2, AppendedWhole
  <1>4. \A d \in Days : Whole(files[d]) \subseteq Whole(files'[d])
    BY <1>2, <1>3
  <1>5. QED BY <1>1, <1>3, <1>4 DEF Recorded

LEMMA FragmentGrows ==
    ASSUME TypeOK, Fragment \/ UNCHANGED files
    PROVE  Recorded(files) \subseteq Recorded(files')
  <1>1. CASE Fragment
    <2>1. cur \in Days
      BY <1>1 DEF Fragment, TypeOK
    <2>2. QED BY <1>1, <2>1, RecordedGrows DEF Fragment
  <1>2. QED BY <1>1

\* Accounted speaks of ids; an id that is no longer pending was recorded, or
\* is in lost.
LEMMA AccountedStep ==
    ASSUME TypeOK, TypeOK', OrderInv, Accounted, [Next]_vars
    PROVE  Accounted'
  <1>0. /\ accepted \in Nat
        /\ 1..accepted \subseteq IdsOfPending \cup lost \cup Recorded(files)
    BY VolatileIsPending DEF TypeOK, Accounted, Recorded
  <1>1. SUFFICES 1..accepted' \subseteq IdsOfPending' \cup lost' \cup Recorded(files')
    <2>1. Volatile' = IdsOfPending'
      BY DEF Volatile, Unsettled, Pending, IdsOfPending
    <2>2. QED BY <2>1 DEF Accounted, Recorded
  <1>2. CASE UNCHANGED <<Pending, accepted, lost, files>>
    BY <1>0, <1>2 DEF IdsOfPending
  <1>3. CASE Enqueue
    <2>1. UNCHANGED <<lost, files>>
      BY <1>3 DEF Enqueue, ghost, disk
    <2>2. CASE UNCHANGED <<Pending, accepted>>
      BY <1>2, <2>1, <2>2
    <2>3. ASSUME accepted' = accepted + 1, NEW d \in Days,
                 Pending' = Pending \cup {[id |-> accepted + 1, day |-> d]}
          PROVE  1..accepted' \subseteq IdsOfPending' \cup lost' \cup Recorded(files')
      <3> DEFINE m == [id |-> accepted + 1, day |-> d]
      <3>a. m.id = accepted + 1 /\ Pending' = Pending \cup {m}
        BY <2>3
      <3> HIDE DEF m
      <3>1. IdsOfPending' = IdsOfPending \cup {accepted + 1}
        BY <3>a DEF IdsOfPending
      <3>2. \A n \in 1..accepted' : n \in 1..accepted \/ n = accepted + 1
        BY <1>0, <2>3
      <3>3. QED BY <1>0, <2>1, <3>1, <3>2
    <2>4. QED BY <1>3, <2>2, <2>3, PendingStep
  <1>4. CASE FsyncIntervalPasses \/ Stop \/ Get \/ Timeout \/ Restart
    <2>1. UNCHANGED <<accepted, lost, files>>
      BY <1>4 DEF FsyncIntervalPasses, Stop, Get, Timeout, Restart, ghost, disk
    <2>2. QED BY <1>2, <1>4, <2>1, PendingStep
  <1>5. CASE Open
    <2>1. UNCHANGED <<accepted, lost>> /\ Pending' = Pending
      BY <1>5, PendingStep DEF Open, ghost
    <2>2. ASSUME NEW d \in Days
          PROVE  Whole(files'[d]) = Whole(files[d])
      <3>1. /\ files \in [Days -> Seq(Text)] /\ files[d] \in Seq(Text)
        BY DEF TypeOK
      <3>2. files'[d] = files[d] \/ files'[d] = CleanTail(files[d])
        BY <1>5, <3>1 DEF Open
      <3>3. CASE files'[d] = CleanTail(files[d])
        <4>1. /\ DOMAIN files[d] = 1..Len(files[d])
              /\ DOMAIN files'[d] = 1..Len(files[d])
          BY <3>1, <3>3, CleanTailFacts
        <4>2. \A i \in 1..Len(files[d]) :
                 /\ files'[d][i].id = files[d][i].id
                 /\ files'[d][i].whole = files[d][i].whole
          BY <3>1, <3>3, CleanTailFacts
        <4>3. QED BY <4>1, <4>2 DEF Whole
      <3>4. QED BY <3>2, <3>3
    <2>3. Recorded(files') = Recorded(files)
      BY <2>2 DEF Recorded
    <2>4. QED BY <1>0, <2>1, <2>3 DEF IdsOfPending
  <1>6. CASE WriteLine
    <2>1. PICK i \in DOMAIN buffer :
             /\ NextLine(i)
             /\ files' = [files EXCEPT ![cur] =
                   Append(@, [id |-> buffer[i].id, whole |-> TRUE, eol |-> TRUE])]
      BY <1>6 DEF WriteLine
    <2>2. cur \in Days /\ UNCHANGED <<accepted, lost>>
      BY <1>6 DEF WriteLine, TypeOK, ghost
    <2>3. Recorded(files) \subseteq Recorded(files') /\ buffer[i].id \in Recorded(files')
      BY <2>1, <2>2, RecordedGrows
    <2>4. Pending' = Pending \ {buffer[i]}
      BY <1>6, <2>1, PendingStep
    <2>5. IdsOfPending \subseteq IdsOfPending' \cup {buffer[i].id}
      BY <2>4 DEF IdsOfPending
    <2>6. QED BY <1>0, <2>2, <2>3, <2>5
  <1>7. CASE Finish
    BY <1>2, <1>7, PendingStep DEF Finish, ghost
  <1>8. CASE WriteFails
    <2>1. /\ accepted' = accepted /\ lost' = lost \cup Unwritten
          /\ pc \in {"open", "write"} /\ (Fragment \/ UNCHANGED files)
      BY <1>8 DEF WriteFails
    <2>2. Recorded(files) \subseteq Recorded(files')
      BY <2>1, FragmentGrows
    <2>3. Pending = Pending' \cup Abandoned
      BY <1>8, <2>1, PendingStep, PendingInFlush
    <2>4. {m.id : m \in Abandoned} = Unwritten
      BY DEF Abandoned, Unwritten
    <2>5. IdsOfPending \subseteq IdsOfPending' \cup Unwritten
      BY <2>3, <2>4 DEF IdsOfPending
    <2>6. QED BY <1>0, <2>1, <2>2, <2>5
  <1>9. CASE Exit
    <2>1. /\ accepted' = accepted /\ lost' = lost \cup Volatile
          /\ Fragment \/ UNCHANGED files
      BY <1>9 DEF Exit, MemoryLost
    <2>2. QED BY <1>0, <2>1, FragmentGrows, VolatileIsPending
  <1>10. CASE PowerLoss
    <2>1. /\ accepted' = accepted
          /\ lost' = lost \cup Volatile
                      \cup UNION {Whole(files[d]) \ Whole(files'[d]) : d \in Days}
      BY <1>10 DEF PowerLoss, MemoryLost
    <2>2. Recorded(files) \subseteq lost' \cup Recorded(files')
      BY <2>1 DEF Recorded
    <2>3. QED BY <1>0, <2>1, <2>2, VolatileIsPending
  <1>11. CASE UNCHANGED vars
    BY <1>0, <1>11 DEF vars, coroutine, disk, ghost, Pending, Waiting, IdsOfPending
  <1>12. QED
    BY <1>3, <1>4, <1>5, <1>6, <1>7, <1>8, <1>9, <1>10, <1>11 DEF Next

\* While the process runs an accepted message is held, or whole in a day file,
\* or was taken by an error or a crash that says so, whatever the limits, the
\* write errors, the kills, the power losses and the restarts.
THEOREM NoSilentLoss == Spec => []Accounted
  <1>1. Init => Accounted
    BY DEF Init, Accounted
  <1>2. /\ TypeOK /\ OrderInv /\ (TypeOK /\ OrderInv)' /\ Accounted /\ [Next]_vars
        => Accounted'
    BY AccountedStep
  <1>3. QED BY <1>1, <1>2, OrderInvariant, PTL DEF Spec

-----------------------------------------------------------------------------

-----------------------------------------------------------------------------
(***************************************************************************)
(* DeviceLog. The log of a day is the ids and the wholeness of the texts   *)
(* of its file.                                                            *)
(***************************************************************************)

LogEntry == [id : Nat \ {0}, whole : BOOLEAN]

LogOf(fs) == [d \in Days |-> Entries(fs[d])]

LEMMA SameEntries ==
    ASSUME NEW f \in Seq(Text), NEW g \in Seq(Text), Len(f) = Len(g),
           \A i \in 1..Len(f) : g[i].id = f[i].id /\ g[i].whole = f[i].whole
    PROVE  Entries(g) = Entries(f)
  <1>1. DOMAIN f = 1..Len(f) /\ DOMAIN g = 1..Len(f)
    OBVIOUS
  <1>2. QED BY <1>1 DEF Entries

LEMMA EntriesFacts ==
    ASSUME NEW f \in Seq(Text)
    PROVE  /\ Entries(f) \in Seq(LogEntry)
           /\ Len(Entries(f)) = Len(f)
           /\ \A i \in 1..Len(f) :
                 /\ Entries(f)[i] \in LogEntry
                 /\ Entries(f)[i] = [id |-> f[i].id, whole |-> f[i].whole]
  <1>1. DOMAIN f = 1..Len(f) /\ Len(f) \in Nat /\ \A i \in 1..Len(f) : f[i] \in Text
    OBVIOUS
  <1>2. \A i \in 1..Len(f) : [id |-> f[i].id, whole |-> f[i].whole] \in LogEntry
    BY <1>1 DEF Text, LogEntry
  <1>3. Entries(f) \in [1..Len(f) -> LogEntry]
    BY <1>1, <1>2 DEF Entries
  <1>4. QED BY <1>1, <1>2, <1>3 DEF Entries

\* An entry cut short.
LEMMA CutEntry ==
    ASSUME NEW e \in LogEntry
    PROVE  [e EXCEPT !.whole = FALSE] = [id |-> e.id, whole |-> FALSE]
  <1> DEFINE a == [e EXCEPT !.whole = FALSE]
             b == [id |-> e.id, whole |-> FALSE]
  <1>1. a["id"] = b["id"] /\ a["whole"] = b["whole"]
    BY DEF LogEntry
  <1>2. /\ a = [x \in {"id", "whole"} |-> a[x]]
        /\ b = [x \in {"id", "whole"} |-> b[x]]
    BY DEF LogEntry
  <1> HIDE DEF a, b
  <1>3. a = b
    BY <1>1, <1>2
  <1>4. QED BY <1>3 DEF a, b

LEMMA EntriesAppend ==
    ASSUME NEW f \in Seq(Text), NEW t \in Text
    PROVE  Entries(Append(f, t)) = Append(Entries(f), [id |-> t.id, whole |-> t.whole])
  <1> DEFINE g == Append(f, t)
             u == [id |-> t.id, whole |-> t.whole]
             h == Append(Entries(f), u)
  <1>1. /\ g \in Seq(Text) /\ Len(g) = Len(f) + 1 /\ Len(f) \in Nat
        /\ \A i \in 1..Len(f) : g[i] = f[i]
        /\ g[Len(f) + 1] = t
    OBVIOUS
  <1>2. u \in LogEntry
    BY DEF Text, LogEntry
  <1>3. /\ h \in Seq(LogEntry) /\ Len(h) = Len(f) + 1
        /\ \A i \in 1..Len(f) : h[i] = [id |-> f[i].id, whole |-> f[i].whole]
        /\ h[Len(f) + 1] = u
    <2>1. Entries(f) \in Seq(LogEntry) /\ Len(Entries(f)) = Len(f)
          /\ \A i \in 1..Len(f) : Entries(f)[i] = [id |-> f[i].id, whole |-> f[i].whole]
      BY EntriesFacts
    <2> HIDE DEF u
    <2>2. QED BY <1>1, <1>2, <2>1
  <1> HIDE DEF g, h
  <1>4. /\ Entries(g) \in Seq(LogEntry) /\ Len(Entries(g)) = Len(g)
        /\ \A i \in 1..Len(g) : Entries(g)[i] = [id |-> g[i].id, whole |-> g[i].whole]
    BY <1>1, EntriesFacts
  <1>5. ASSUME NEW i \in 1..Len(g)
        PROVE  Entries(g)[i] = h[i]
    <2>1. i \in 1..Len(f) \/ i = Len(f) + 1
      BY <1>1
    <2>2. Entries(g)[i] = [id |-> g[i].id, whole |-> g[i].whole]
      BY <1>4
    <2>3. CASE i \in 1..Len(f)
      <3>1. g[i] = f[i] /\ h[i] = [id |-> f[i].id, whole |-> f[i].whole]
        BY <1>1, <1>3, <2>3
      <3>2. QED BY <2>2, <3>1
    <2>4. CASE i = Len(f) + 1
      <3>1. g[i] = t /\ h[i] = [id |-> t.id, whole |-> t.whole]
        BY <1>1, <1>3, <2>4 DEF u
      <3>2. QED BY <2>2, <3>1
    <2>5. QED BY <2>1, <2>3, <2>4
  <1>6. Entries(g) = h
    BY <1>1, <1>3, <1>4, <1>5, SeqEqual
  <1>7. QED BY <1>6 DEF g, h

\* One text more in one file is one entry more in that day's log.
LEMMA TextLogged ==
    ASSUME TypeOK, NEW i \in DOMAIN buffer, NEW w \in BOOLEAN, NEW e \in BOOLEAN,
           cur \in Days,
           files' = [files EXCEPT ![cur] =
              Append(@, [id |-> buffer[i].id, whole |-> w, eol |-> e])]
    PROVE  LogOf(files') = [LogOf(files) EXCEPT ![cur] =
              Append(@, [id |-> buffer[i].id, whole |-> w])]
  <1> DEFINE t == [id |-> buffer[i].id, whole |-> w, eol |-> e]
             u == [id |-> buffer[i].id, whole |-> w]
  <1>1. t \in Text /\ [id |-> t.id, whole |-> t.whole] = u
    <2>1. buffer[i] \in Msg
      BY DEF TypeOK
    <2>2. QED BY <2>1 DEF Msg, Text
  <1>2. /\ files'[cur] = Append(files[cur], t) /\ files[cur] \in Seq(Text)
        /\ \A d \in Days : d # cur => files'[d] = files[d]
    BY DEF TypeOK
  <1> HIDE DEF t, u
  <1>3. Entries(files'[cur]) = Append(Entries(files[cur]), u)
    BY <1>1, <1>2, EntriesAppend
  <1>4. ASSUME NEW d \in Days
        PROVE  Entries(files'[d]) =
           IF d = cur THEN Append(Entries(files[cur]), u) ELSE Entries(files[d])
    <2>1. CASE d = cur
      BY <1>3, <2>1
    <2>2. CASE d # cur
      <3>1. files'[d] = files[d]
        BY <1>2, <2>2
      <3>2. QED BY <2>2, <3>1
    <2>3. QED BY <2>1, <2>2
  <1>5. /\ LogOf(files') = [d \in Days |->
              IF d = cur THEN Append(Entries(files[cur]), u) ELSE Entries(files[d])]
        /\ LogOf(files) = [d \in Days |-> Entries(files[d])]
    BY <1>4 DEF LogOf
  <1>6. LogOf(files') = [LogOf(files) EXCEPT ![cur] = Append(@, u)]
    BY <1>5
  <1>7. QED BY <1>6 DEF u

\* Initial states map to initial states.
LEMMA InitRefines == Init => Log!Init
  <1> SUFFICES ASSUME Init PROVE Log!Init
    OBVIOUS
  <1>1. Pending = {}
    BY DEF Init, Pending
  <1>2. \A d \in Days : Entries(files[d]) = <<>>
    BY DEF Init, Entries
  <1>3. QED BY <1>1, <1>2 DEF Init, Log!Init

\* A crash cuts a file to a prefix of it whose last text may be torn.
LEMMA SurvivingCut ==
    ASSUME NEW f \in Seq(Text), NEW n \in 0..Len(f), NEW s \in Nat, s <= n,
           NEW cut \in {"none", "newline", "text"}, cut # "none" => n > s
    PROVE  Log!Cut(Entries(f), Entries(Surviving(f, n, cut)), s)
  <1> DEFINE g == Surviving(f, n, cut)
  <1>1. /\ g \in Seq(Text) /\ Len(g) = n
        /\ \A i \in 1..n :
              /\ g[i].id = f[i].id
              /\ i < n \/ cut = "none" => g[i] = f[i]
              /\ cut # "none" /\ i = n => g[i].whole = (f[i].whole /\ cut = "newline")
    BY SurvivingFacts DEF Surviving
  <1> HIDE DEF g
  <1>2. /\ Len(Entries(f)) = Len(f) /\ Len(Entries(g)) = n /\ Len(f) \in Nat /\ n \in Nat
        /\ \A i \in 1..Len(f) : Entries(f)[i] = [id |-> f[i].id, whole |-> f[i].whole]
        /\ \A i \in 1..n : Entries(g)[i] = [id |-> g[i].id, whole |-> g[i].whole]
    BY <1>1, EntriesFacts
  <1>3. ASSUME NEW i \in 1..n
        PROVE  \/ Entries(g)[i] = Entries(f)[i]
               \/ /\ i = n /\ i > s
                  /\ Entries(g)[i] = [Entries(f)[i] EXCEPT !.whole = FALSE]
    <2>1. i \in 1..Len(f)
      BY <1>2
    <2>2. CASE i < n \/ cut = "none"
      BY <1>1, <1>2, <2>1, <2>2
    <2>3. CASE i = n /\ cut = "text"
      <3>1. g[i].whole = FALSE
        BY <1>1, <2>3
      <3>2. /\ Entries(g)[i] = [id |-> f[i].id, whole |-> FALSE]
            /\ Entries(f)[i] = [id |-> f[i].id, whole |-> f[i].whole]
        BY <1>1, <1>2, <2>1, <3>1
      <3>3. i = n /\ i > s
        BY <2>3
      <3>4. [Entries(f)[i] EXCEPT !.whole = FALSE] = [id |-> f[i].id, whole |-> FALSE]
        <4>1. Entries(f)[i] \in LogEntry
          BY <2>1, EntriesFacts
        <4>2. Entries(f)[i].id = f[i].id
          BY <3>2
        <4>3. QED BY <4>1, <4>2, CutEntry
      <3>5. QED BY <3>2, <3>3, <3>4
    <2>4. CASE i = n /\ cut = "newline"
      <3>1. f[i].whole \in BOOLEAN
        <4>1. f[i] \in Text
          BY <2>1
        <4>2. QED BY <4>1 DEF Text
      <3>2. g[i].whole = f[i].whole
        BY <1>1, <2>4, <3>1
      <3>3. QED BY <1>1, <1>2, <2>1, <3>2
    <2>5. QED BY <1>2, <2>2, <2>3, <2>4
  <1>4. QED BY <1>2, <1>3 DEF Log!Cut, g

\* Each step maps to a step of the abstract log, or to a stutter.
LEMMA StepRefines ==
    ASSUME TypeOK, TypeOK', OrderInv, SyncInv, [Next]_vars
    PROVE  [Log!Next]_(Log!vars)
  <1>0. /\ files \in [Days -> Seq(Text)] /\ synced \in [Days -> Nat]
        /\ \A d \in Days : synced[d] <= Len(files[d])
    BY DEF TypeOK, SyncInv
  <1>1. CASE UNCHANGED <<accepted, Pending, LogOf(files), synced>>
    BY <1>1 DEF Log!vars, LogOf
  <1>2. CASE UNCHANGED <<accepted, Pending, files, synced>>
    BY <1>1, <1>2 DEF LogOf
  <1>3. CASE Enqueue
    <2>1. UNCHANGED <<files, synced>>
      BY <1>3 DEF Enqueue, disk
    <2>2. CASE UNCHANGED <<Pending, accepted>>
      BY <1>2, <2>1, <2>2
    <2>3. CASE /\ accepted' = accepted + 1
               /\ \E d \in Days : Pending' =
                     Pending \cup {[id |-> accepted + 1, day |-> d]}
      BY <2>1, <2>3 DEF Log!Next, Log!Accept
    <2>4. QED BY <1>3, <2>2, <2>3, PendingStep
  <1>4. CASE FsyncIntervalPasses \/ Stop \/ Get \/ Timeout \/ Restart
    <2>1. UNCHANGED <<accepted, files, synced>>
      BY <1>4 DEF FsyncIntervalPasses, Stop, Get, Timeout, Restart, disk
    <2>2. QED BY <1>2, <1>4, <2>1, PendingStep
  <1>5. CASE Open
    <2>1. UNCHANGED <<accepted, synced>> /\ Pending' = Pending
      BY <1>5, PendingStep DEF Open
    <2>2. ASSUME NEW d \in Days
          PROVE  Entries(files'[d]) = Entries(files[d])
      <3>1. files[d] \in Seq(Text)
        BY <1>0
      <3>2. files'[d] = files[d] \/ files'[d] = CleanTail(files[d])
        BY <1>0, <1>5 DEF Open
      <3>3. QED BY <3>1, <3>2, CleanTailFacts, SameEntries
    <2>3. LogOf(files') = LogOf(files)
      BY <2>2 DEF LogOf
    <2>4. QED BY <1>1, <2>1, <2>3
  <1>6. CASE WriteLine
    <2>1. PICK i \in DOMAIN buffer :
             /\ NextLine(i)
             /\ files' = [files EXCEPT ![cur] =
                   Append(@, [id |-> buffer[i].id, whole |-> TRUE, eol |-> TRUE])]
      BY <1>6 DEF WriteLine
    <2>2. cur \in Days /\ UNCHANGED <<accepted, synced>> /\ pc = "write"
      BY <1>6 DEF WriteLine, TypeOK
    <2>3. LogOf(files') = [LogOf(files) EXCEPT ![cur] =
              Append(@, [id |-> buffer[i].id, whole |-> TRUE])]
      BY <2>1, <2>2, TextLogged
    <2>4. /\ buffer[i] \in Pending /\ buffer[i].day = cur
          /\ \A m \in Pending : m.day = buffer[i].day => buffer[i].id <= m.id
      BY <2>1, <2>2, NextLineOldest DEF NextLine
    <2>5. Pending' = Pending \ {buffer[i]}
      BY <1>6, <2>1, PendingStep
    <2>6. Log!Record
      BY <2>2, <2>3, <2>4, <2>5 DEF Log!Record, Log!Oldest, Log!Entry, LogOf
    <2>7. QED BY <2>6 DEF Log!Next
  <1>7. CASE Finish
    <2>1. UNCHANGED <<accepted, files>> /\ cur \in Days /\ Pending' = Pending
      BY <1>7, PendingStep DEF Finish, TypeOK
    <2>2. CASE syncing
      <3>1. synced' = [synced EXCEPT ![cur] = Len(files[cur])]
        BY <1>7, <2>2 DEF Finish
      <3>2. Len(Entries(files[cur])) = Len(files[cur])
        BY <1>0, <2>1, EntriesFacts
      <3>3. Log!Sync
        BY <2>1, <3>1, <3>2 DEF Log!Sync
      <3>4. QED BY <3>3 DEF Log!Next
    <2>3. CASE ~syncing
      BY <1>2, <1>7, <2>1, <2>3 DEF Finish
    <2>4. QED BY <2>2, <2>3
  <1>8. ASSUME pc \in {"open", "write"}, UNCHANGED <<accepted, synced>>,
               Pending' \in {{}, Later \cup Elements(queue)},
               Fragment
        PROVE  Log!GiveUp
    <2>1. PICK i \in DOMAIN buffer, w \in BOOLEAN :
             /\ NextLine(i)
             /\ files' = [files EXCEPT ![cur] =
                   Append(@, [id |-> buffer[i].id, whole |-> w, eol |-> FALSE])]
      BY <1>8 DEF Fragment
    <2>2. cur \in Days /\ pc = "write"
      BY <1>8 DEF Fragment, TypeOK
    <2>3. LogOf(files') = [LogOf(files) EXCEPT ![cur] =
              Append(@, [id |-> buffer[i].id, whole |-> w])]
      BY <2>1, <2>2, TextLogged
    <2>4. /\ buffer[i] \in Pending \ Pending' /\ buffer[i].day = cur
          /\ \A m \in Pending : m.day = buffer[i].day => buffer[i].id <= m.id
      BY <1>8, <2>1, <2>2, NextLineOldest DEF NextLine
    <2>5. Pending' \in SUBSET Pending
      BY <1>8, PendingInFlush
    <2>6. QED
      BY <1>8, <2>3, <2>4, <2>5 DEF Log!GiveUp, Log!Oldest, Log!Entry, LogOf
  <1>9. ASSUME UNCHANGED <<accepted, synced, files>>, Pending' \in SUBSET Pending
        PROVE  Log!GiveUp
    BY <1>9 DEF Log!GiveUp
  <1>10. CASE WriteFails
    <2>1. /\ UNCHANGED <<accepted, synced>> /\ (Fragment \/ UNCHANGED files)
          /\ pc \in {"open", "write"}
          /\ Pending' = Later \cup Elements(queue)
      BY <1>10, PendingStep DEF WriteFails
    <2>2. Pending' \in SUBSET Pending
      BY <2>1, PendingInFlush
    <2>3. Log!GiveUp
      BY <1>8, <1>9, <2>1, <2>2
    <2>4. QED BY <2>3 DEF Log!Next
  <1>11. CASE Exit
    <2>1. /\ UNCHANGED <<accepted, synced>> /\ (Fragment \/ UNCHANGED files)
          /\ Pending' = {}
      BY <1>11, PendingStep DEF Exit, MemoryLost
    <2>2. Fragment => pc = "write"
      BY DEF Fragment
    <2>3. Log!GiveUp
      BY <1>8, <1>9, <2>1, <2>2
    <2>4. QED BY <2>3 DEF Log!Next
  <1>12. CASE PowerLoss
    <2>1. PICK keep \in [Days -> 0..accepted],
               cut \in [Days -> {"none", "newline", "text"}] :
             /\ \A d \in Days :
                   /\ keep[d] \in synced[d]..Len(files[d])
                   /\ cut[d] # "none" => keep[d] > synced[d]
             /\ files' = [d \in Days |-> Surviving(files[d], keep[d], cut[d])]
             /\ synced' = [d \in Days |->
                   IF cut[d] # "none" THEN keep[d] - 1 ELSE keep[d]]
      BY <1>12 DEF PowerLoss
    <2>2. accepted' = accepted /\ Pending' = {}
      BY <1>12, PendingStep DEF PowerLoss, MemoryLost
    <2>3. ASSUME NEW d \in Days
          PROVE  /\ Log!Cut(Entries(files[d]), Entries(files'[d]), synced[d])
                 /\ synced'[d] \in synced[d]..Len(Entries(files'[d]))
      <3> DEFINE f == files[d]
                 n == keep[d]
                 c == cut[d]
                 s == synced[d]
      <3>1. /\ f \in Seq(Text) /\ n \in 0..Len(f) /\ s \in Nat /\ s <= n
            /\ c \in {"none", "newline", "text"} /\ (c # "none" => n > s)
        BY <1>0, <2>1
      <3>2. files'[d] = Surviving(f, n, c)
            /\ synced'[d] = IF c # "none" THEN n - 1 ELSE n
        BY <2>1
      <3> HIDE DEF f, n, c, s
      <3>3. Log!Cut(Entries(f), Entries(files'[d]), s)
        BY <3>1, <3>2, SurvivingCut
      <3>4. Len(Entries(files'[d])) = n
        <4>1. files'[d] \in Seq(Text) /\ Len(files'[d]) = n
          BY <3>1, <3>2, SurvivingFacts
        <4>2. QED BY <4>1, EntriesFacts
      <3>5. synced'[d] \in s..n
        BY <3>1, <3>2
      <3>6. QED BY <3>3, <3>4, <3>5 DEF f, s
    <2>4. Log!Crash
      BY <2>2, <2>3 DEF Log!Crash
    <2>5. QED BY <2>4 DEF Log!Next
  <1>13. CASE UNCHANGED vars
    BY <1>2, <1>13 DEF vars, coroutine, disk, Pending, Waiting
  <1>14. QED
    BY <1>3, <1>4, <1>5, <1>6, <1>7, <1>10, <1>11, <1>12, <1>13 DEF Next

\* The writer implements DeviceLog: each of its steps is a step of the abstract
\* log or leaves it alone.  WriteLine records the oldest pending message of
\* its day, a failed write and a kill give pending ones up, an fsync makes a
\* day durable and a power loss cuts what is not.
THEOREM Refinement == Spec => ImplementsDeviceLog
  <1>1. Init => Log!Init
    BY InitRefines
  <1>2. Init => SyncInv
    BY DEF Init, SyncInv
  <1>3. TypeOK /\ TypeOK' /\ SyncInv /\ [Next]_vars => SyncInv'
    BY DurableStep
  <1>4. /\ TypeOK /\ OrderInv /\ SyncInv /\ (TypeOK /\ OrderInv)' /\ [Next]_vars
        => [Log!Next]_(Log!vars)
    BY StepRefines
  <1>5. QED
    BY <1>1, <1>2, <1>3, <1>4, OrderInvariant, PTL
       DEF Spec, ImplementsDeviceLog, Log!Spec
=============================================================================
