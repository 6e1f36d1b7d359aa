---------------------------- MODULE IndexerProofs ----------------------------
(***************************************************************************)
(* Proofs about Indexer: the typing invariant, the three safety invariants *)
(* its run checks, RowsInOrder, Accounted and WrittenIsIndexed, and that   *)
(* it implements SearchIndex.                                              *)
(***************************************************************************)
EXTENDS Indexer, TLAPS, SequenceTheorems, FiniteSetTheorems

-----------------------------------------------------------------------------
(***************************************************************************)
(* Ids in a sequence of messages or rows.                                  *)
(***************************************************************************)

\* Appending an entry adds its id and no other.
LEMMA IdsAppend ==
  ASSUME NEW S, NEW a \in Seq(S), NEW e \in S
  PROVE  IdsIn(Append(a, e)) = IdsIn(a) \cup {e.id}
<1> DEFINE b == Append(a, e)
<1>1. /\ DOMAIN b = 1..(Len(a) + 1)
      /\ \A i \in 1..Len(a) : b[i] = a[i]
      /\ b[Len(a) + 1] = e
  OBVIOUS
<1>2. DOMAIN a = 1..Len(a) /\ Len(a) \in Nat
  OBVIOUS
<1> HIDE DEF b
<1>3. IdsIn(b) \subseteq IdsIn(a) \cup {e.id}
  BY <1>1, <1>2 DEF IdsIn
<1>4. IdsIn(a) \subseteq IdsIn(b)
  BY <1>1, <1>2 DEF IdsIn
<1>5. e.id \in IdsIn(b)
  BY <1>1, <1>2 DEF IdsIn
<1> QED
  BY <1>3, <1>4, <1>5 DEF b

\* A concatenation has the ids of its two parts.
LEMMA IdsConcat ==
  ASSUME NEW S, NEW a \in Seq(S), NEW b \in Seq(S)
  PROVE  IdsIn(a \o b) = IdsIn(a) \cup IdsIn(b)
<1> DEFINE c == a \o b
<1>1. /\ DOMAIN c = 1..(Len(a) + Len(b))
      /\ \A i \in 1..Len(a) : c[i] = a[i]
      /\ \A j \in 1..Len(b) : c[Len(a) + j] = b[j]
  OBVIOUS
<1>2. /\ DOMAIN a = 1..Len(a) /\ Len(a) \in Nat
      /\ DOMAIN b = 1..Len(b) /\ Len(b) \in Nat
  OBVIOUS
<1> HIDE DEF c
<1>3. ASSUME NEW i \in DOMAIN c
      PROVE  c[i].id \in IdsIn(a) \cup IdsIn(b)
  <2>1. CASE i \in 1..Len(a)
    BY <2>1, <1>1, <1>2 DEF IdsIn
  <2>2. CASE i \notin 1..Len(a)
    <3>1. PICK j \in 1..Len(b) : i = Len(a) + j
      <4>1. i - Len(a) \in 1..Len(b) /\ i = Len(a) + (i - Len(a))
        BY <2>2, <1>1, <1>2
      <4> QED
        BY <4>1
    <3> QED
      BY <3>1, <1>1, <1>2 DEF IdsIn
  <2> QED
    BY <2>1, <2>2
<1>4. IdsIn(a) \subseteq IdsIn(c)
  BY <1>1, <1>2 DEF IdsIn
<1>5. IdsIn(b) \subseteq IdsIn(c)
  BY <1>1, <1>2 DEF IdsIn
<1> QED
  BY <1>3, <1>4, <1>5 DEF c, IdsIn

\* What comes first in a concatenation, and where an appended entry goes.
LEMMA ConcatStarts ==
  ASSUME NEW S, NEW a \in Seq(S), NEW b \in Seq(S)
  PROVE  /\ a \o <<>> = a
         /\ a \o b \in Seq(S)
         /\ Len(a) \in Nat
         /\ Len(a) <= Len(a \o b)
         /\ \A i \in 1..Len(a) : (a \o b)[i] = a[i]
OBVIOUS

LEMMA ConcatAppends ==
  ASSUME NEW S, NEW a \in Seq(S), NEW b \in Seq(S), NEW e \in S
  PROVE  a \o Append(b, e) = Append(a \o b, e)
OBVIOUS

\* The ids of a queue are those of its head and of the rest.
LEMMA IdsTail ==
  ASSUME NEW S, NEW q \in Seq(S), q # <<>>
  PROVE  IdsIn(q) = {Head(q).id} \cup IdsIn(Tail(q))
<1> DEFINE t == Tail(q)
<1>1. /\ DOMAIN q = 1..Len(q) /\ Len(q) \in Nat \ {0}
      /\ DOMAIN t = 1..(Len(q) - 1)
      /\ \A i \in 1..(Len(q) - 1) : t[i] = q[i + 1]
      /\ Head(q) = q[1]
  OBVIOUS
<1> HIDE DEF t
<1>2. ASSUME NEW i \in DOMAIN q, i # 1
      PROVE  q[i].id \in IdsIn(t)
  <2>1. i - 1 \in DOMAIN t /\ t[i - 1] = q[i]
    BY <1>1, <1>2
  <2> QED
    BY <2>1 DEF IdsIn
<1>3. IdsIn(t) \subseteq IdsIn(q)
  <2> SUFFICES ASSUME NEW i \in DOMAIN t
               PROVE  t[i].id \in IdsIn(q)
    BY DEF IdsIn
  <2>1. i + 1 \in DOMAIN q /\ t[i] = q[i + 1]
    BY <1>1
  <2> QED
    BY <2>1 DEF IdsIn
<1>4. Head(q).id \in IdsIn(q)
  BY <1>1 DEF IdsIn
<1>5. IdsIn(q) \subseteq {Head(q).id} \cup IdsIn(t)
  BY <1>1, <1>2 DEF IdsIn
<1> QED
  BY <1>3, <1>4, <1>5 DEF t

\* Rows that have their full-text entry: appending a row.
LEMMA FtsAppend ==
  ASSUME NEW a \in Seq(Row), NEW e \in Row
  PROVE  FtsIds(Append(a, e)) = FtsIds(a) \cup (IF e.fts THEN {e.id} ELSE {})
<1> DEFINE b == Append(a, e)
<1>1. /\ DOMAIN b = 1..(Len(a) + 1)
      /\ \A i \in 1..Len(a) : b[i] = a[i]
      /\ b[Len(a) + 1] = e
  OBVIOUS
<1>2. DOMAIN a = 1..Len(a) /\ Len(a) \in Nat
  OBVIOUS
<1> HIDE DEF b
<1>3. FtsIds(b) \subseteq FtsIds(a) \cup (IF e.fts THEN {e.id} ELSE {})
  BY <1>1, <1>2 DEF FtsIds
<1>4. FtsIds(a) \subseteq FtsIds(b)
  BY <1>1, <1>2 DEF FtsIds
<1>5. e.fts => e.id \in FtsIds(b)
  BY <1>1, <1>2 DEF FtsIds
<1> QED
  BY <1>3, <1>4, <1>5 DEF b

\* A concatenation of rows has the full-text entries of its two parts.
LEMMA FtsConcat ==
  ASSUME NEW a \in Seq(Row), NEW b \in Seq(Row)
  PROVE  FtsIds(a \o b) = FtsIds(a) \cup FtsIds(b)
<1> DEFINE c == a \o b
<1>1. /\ DOMAIN c = 1..(Len(a) + Len(b))
      /\ \A i \in 1..Len(a) : c[i] = a[i]
      /\ \A j \in 1..Len(b) : c[Len(a) + j] = b[j]
  OBVIOUS
<1>2. /\ DOMAIN a = 1..Len(a) /\ Len(a) \in Nat
      /\ DOMAIN b = 1..Len(b) /\ Len(b) \in Nat
  OBVIOUS
<1> HIDE DEF c
<1>3. ASSUME NEW i \in DOMAIN c, c[i].fts
      PROVE  c[i].id \in FtsIds(a) \cup FtsIds(b)
  <2>1. CASE i \in 1..Len(a)
    BY <2>1, <1>1, <1>2, <1>3 DEF FtsIds
  <2>2. CASE i \notin 1..Len(a)
    <3>1. PICK j \in 1..Len(b) : i = Len(a) + j
      <4>1. i - Len(a) \in 1..Len(b) /\ i = Len(a) + (i - Len(a))
        BY <2>2, <1>1, <1>2
      <4> QED
        BY <4>1
    <3> QED
      BY <3>1, <1>1, <1>2, <1>3 DEF FtsIds
  <2> QED
    BY <2>1, <2>2
<1>4. FtsIds(a) \subseteq FtsIds(c)
  BY <1>1, <1>2 DEF FtsIds
<1>5. FtsIds(b) \subseteq FtsIds(c)
  BY <1>1, <1>2 DEF FtsIds
<1> QED
  BY <1>3, <1>4, <1>5 DEF c, FtsIds

\* A row that has its full-text entry is a row.
LEMMA FtsAreIds ==
  ASSUME NEW a
  PROVE  FtsIds(a) \subseteq IdsIn(a)
BY DEF FtsIds, IdsIn

-----------------------------------------------------------------------------
(***************************************************************************)
(* Control.  A step that ends a stretch of the coroutine leaves it at one  *)
(* of two places: at the next month of the flush under way, or between two *)
(* flushes, with all it has buffered still to be tried.                    *)
(***************************************************************************)

\* The coroutine has buf in its buffer and q in its queue, none of buf tried:
\* it waits, or has begun to flush, or has drained the queue and begun its last
\* flush, or has ended.
Restarts(buf, q) ==
    /\ \/ buffer' = buf /\ queue' = q
       \/ buffer' = buf \o q /\ queue' = <<>>
    /\ pc' \in {"get", "open", "done"}
    /\ final' \in BOOLEAN
    /\ todo' \in SUBSET Months
    /\ IF pc' = "open"
       THEN cur' \in Months
       ELSE cur' = NoMonth /\ todo' = {} /\ ~final'
    /\ pc' = "done" => buffer' = <<>>
    /\ cur' \notin todo'
    /\ pos' = 0
    /\ inserted' = 0
    /\ \A k \in 1..Len(buffer') :
          pc' = "get" \/ buffer'[k].month \in todo' \cup {cur'}

\* The flush goes on with another of its months.
NextMonth ==
    /\ pc' = "open"
    /\ cur' \in todo
    /\ todo' = todo \ {cur'}
    /\ pos' = 0
    /\ inserted' = 0
    /\ UNCHANGED <<buffer, final, queue>>

\* A flush that begins.
LEMMA FlushRestarts ==
  ASSUME NEW buf \in Seq(Msg), NEW q \in Seq(Msg), NEW last \in BOOLEAN,
         StartFlush(buf, last), queue' = q
  PROVE  Restarts(buf, q)
<1>1. MonthsOf(buf) \subseteq Months
  <2>1. \A i \in DOMAIN buf : buf[i] \in Msg
    OBVIOUS
  <2> QED
    BY <2>1 DEF MonthsOf, Msg
<1>2. DOMAIN buf = 1..Len(buf)
  OBVIOUS
<1>3. /\ buffer' = buf
      /\ cur' \in Months
      /\ todo' = MonthsOf(buf) \ {cur'}
      /\ pc' = "open" /\ pos' = 0 /\ inserted' = 0 /\ final' = last
  BY <1>1 DEF StartFlush, StartMonth
<1>4. \A k \in 1..Len(buf) : buf[k].month \in todo' \cup {cur'}
  BY <1>2, <1>3 DEF MonthsOf
<1> QED
  BY <1>1, <1>3, <1>4 DEF Restarts

\* The head of the loop, with the drain it may lead to.
LEMMA LoopRestarts ==
  ASSUME NEW buf \in Seq(Msg), NEW q \in Seq(Msg), LoopTop(buf, q)
  PROVE  Restarts(buf, q)
<1>1. CASE stopping /\ buf \o q = <<>>
  <2>1. /\ buffer' = buf \o q /\ queue' = <<>> /\ pc' = "done"
        /\ buffer' = <<>> /\ NoFlush
    BY <1>1 DEF LoopTop, Drain
  <2>2. 1..Len(buffer') = {}
    BY <2>1
  <2> QED
    BY <2>1, <2>2 DEF NoFlush, Restarts
<1>2. CASE stopping /\ buf \o q # <<>>
  <2>1. StartFlush(buf \o q, TRUE) /\ queue' = <<>>
    BY <1>2 DEF LoopTop, Drain
  <2>2. buf \o q \in Seq(Msg) /\ <<>> \in Seq(Msg)
    OBVIOUS
  <2>3. Restarts(buf \o q, <<>>)
    BY <2>1, <2>2, FlushRestarts
  <2>4. (buf \o q) \o <<>> = buf \o q
    BY <2>2
  <2> QED
    BY <2>3, <2>4 DEF Restarts
<1>3. CASE ~stopping
  BY <1>3 DEF LoopTop, NoFlush, Restarts
<1> QED
  BY <1>1, <1>2, <1>3

\* The end of a batch.
LEMMA BatchEnds ==
  ASSUME queue \in Seq(Msg), todo \in SUBSET Months, MonthDone
  PROVE  NextMonth \/ (todo = {} /\ Restarts(<<>>, queue))
<1>1. CASE todo # {}
  BY <1>1 DEF MonthDone, StartMonth, NextMonth
<1>2. CASE todo = {} /\ final
  <2>1. buffer' = <<>> /\ queue' = queue /\ pc' = "done" /\ NoFlush
    BY <1>2 DEF MonthDone
  <2>2. 1..Len(buffer') = {}
    BY <2>1
  <2> QED
    BY <1>2, <2>1, <2>2 DEF NoFlush, Restarts
<1>3. CASE todo = {} /\ ~final
  <2>1. LoopTop(<<>>, queue)
    BY <1>3 DEF MonthDone
  <2>2. <<>> \in Seq(Msg)
    OBVIOUS
  <2> QED
    BY <2>1, <2>2, <1>3, LoopRestarts
<1> QED
  BY <1>1, <1>2, <1>3

\* What Get and Timeout make of the buffer and the queue.
LEMMA GetRestarts ==
  ASSUME TypeOK, Get
  PROVE  /\ Append(buffer, Head(queue)) \in Seq(Msg)
         /\ Tail(queue) \in Seq(Msg)
         /\ Restarts(Append(buffer, Head(queue)), Tail(queue))
<1>1. /\ Append(buffer, Head(queue)) \in Seq(Msg)
      /\ Tail(queue) \in Seq(Msg)
  <2>1. queue \in Seq(Msg) /\ queue # <<>> /\ buffer \in Seq(Msg)
    BY DEF TypeOK, Get
  <2> QED
    BY <2>1
<1> DEFINE buf == Append(buffer, Head(queue))
           q == Tail(queue)
<1>2. \/ StartFlush(buf, FALSE) /\ queue' = q
      \/ LoopTop(buf, q)
  BY DEF Get
<1> HIDE DEF buf, q
<1>3. buf \in Seq(Msg) /\ q \in Seq(Msg)
  BY <1>1 DEF buf, q
<1>4. Restarts(buf, q)
  BY <1>2, <1>3, FlushRestarts, LoopRestarts
<1> QED
  BY <1>1, <1>4 DEF buf, q

LEMMA TimeoutRestarts ==
  ASSUME TypeOK, Timeout
  PROVE  Restarts(buffer, queue)
<1>1. buffer \in Seq(Msg) /\ queue \in Seq(Msg)
  BY DEF TypeOK
<1>2. CASE buffer # <<>>
  BY <1>1, <1>2, FlushRestarts DEF Timeout
<1>3. CASE buffer = <<>>
  BY <1>1, <1>3, LoopRestarts DEF Timeout
<1> QED
  BY <1>2, <1>3

-----------------------------------------------------------------------------
(***************************************************************************)
(* Typing.                                                                 *)
(***************************************************************************)

\* The part of TypeOK that is about the queue and the coroutine.
FlowOK ==
    /\ queue \in Seq(Msg)
    /\ buffer \in Seq(Msg)
    /\ pc \in Control
    /\ final \in BOOLEAN
    /\ todo \in SUBSET Months
    /\ cur \in Months \cup {NoMonth}
    /\ cur \in Months <=> pc \in {"open", "insert"}
    /\ pos \in Nat
    /\ inserted \in Nat

\* The rest of TypeOK.
DataOK ==
    /\ stopping \in BOOLEAN
    /\ conns \in SUBSET Months
    /\ tx \in [Months -> Seq(Row)]
    /\ table \in [Months -> Seq(Row)]
    /\ stats \in [queued : Nat, dropped : Nat, written : Nat, lag : Nat]
    /\ accepted \in Nat
    /\ skipped \in SUBSET Nat
    /\ failed \in SUBSET Nat
    /\ undone \in SUBSET Nat
    /\ crashed \in SUBSET Nat
    /\ refused \in Nat
    /\ born \in Nat
    /\ lives \in Nat

LEMMA TypeParts == TypeOK <=> FlowOK /\ DataOK
BY DEF TypeOK, FlowOK, DataOK

\* Both places where a stretch ends are well typed.
LEMMA RestartsTyped ==
  ASSUME NEW buf \in Seq(Msg), NEW q \in Seq(Msg), Restarts(buf, q)
  PROVE  FlowOK'
<1>1. buf \o q \in Seq(Msg) /\ <<>> \in Seq(Msg)
  OBVIOUS
<1>2. queue' \in Seq(Msg) /\ buffer' \in Seq(Msg)
  BY <1>1 DEF Restarts
<1>3. pc' = "open" => cur' \in Months
  BY DEF Restarts
<1>4. pc' # "open" => cur' = NoMonth /\ cur' \notin Months
  BY IndexerAssumption DEF Restarts
<1> QED
  BY <1>2, <1>3, <1>4 DEF Restarts, FlowOK, Control

LEMMA BatchEndsTyped ==
  ASSUME FlowOK, MonthDone
  PROVE  FlowOK'
<1>1. queue \in Seq(Msg) /\ todo \in SUBSET Months /\ <<>> \in Seq(Msg)
  BY DEF FlowOK
<1>2. CASE NextMonth
  BY <1>2 DEF NextMonth, FlowOK, Control
<1>3. CASE Restarts(<<>>, queue)
  BY <1>1, <1>3, RestartsTyped
<1> QED
  BY <1>1, <1>2, <1>3, BatchEnds

\* The months of a batch, and its ids, are finite sets of the right kind.
LEMMA BatchFinite ==
  ASSUME TypeOK
  PROVE  /\ IsFiniteSet(Batch)
         /\ Cardinality(Batch) \in Nat
         /\ IdsAt(Batch) \in SUBSET Nat
<1>1. buffer \in Seq(Msg)
  BY DEF TypeOK
<1>2. DOMAIN buffer = 1..Len(buffer) /\ Len(buffer) \in Nat
  BY <1>1
<1>3. IsFiniteSet(1..Len(buffer))
  BY <1>2, FS_Interval
<1>4. Batch \subseteq 1..Len(buffer)
  BY <1>2 DEF Batch
<1>5. IsFiniteSet(Batch)
  BY <1>3, <1>4, FS_Subset
<1>6. \A k \in Batch : buffer[k] \in Msg
  BY <1>1, <1>2 DEF Batch
<1> QED
  BY <1>5, <1>6, FS_CardinalityType DEF IdsAt, Msg

\* Buffered messages whose batch has not ended have ids that are numbers, and
\* so do those in the queue.
LEMMA VolatileTyped ==
  ASSUME TypeOK
  PROVE  Volatile \in SUBSET Nat
<1>1. \A k \in DOMAIN buffer : buffer[k] \in Msg
  BY DEF TypeOK
<1>2. \A k \in DOMAIN queue : queue[k] \in Msg
  BY DEF TypeOK
<1> QED
  BY <1>1, <1>2 DEF Volatile, Unsettled, IdsAt, Msg

\* A row that is inserted keeps the transaction well typed.
LEMMA RowsTyped ==
  ASSUME TypeOK, cur \in Months, NEW i \in DOMAIN buffer, NEW f \in BOOLEAN
  PROVE  /\ [id |-> buffer[i].id, fts |-> f] \in Row
         /\ [tx EXCEPT ![cur] = Append(@, [id |-> buffer[i].id, fts |-> f])]
               \in [Months -> Seq(Row)]
<1>1. buffer[i] \in Msg
  BY DEF TypeOK
<1>2. [id |-> buffer[i].id, fts |-> f] \in Row
  BY <1>1 DEF Msg, Row
<1> DEFINE r == [id |-> buffer[i].id, fts |-> f]
<1> HIDE DEF r
<1>3. r \in Row
  BY <1>2 DEF r
<1>4. tx \in [Months -> Seq(Row)]
  BY DEF TypeOK
<1>5. Append(tx[cur], r) \in Seq(Row)
  BY <1>3, <1>4
<1>6. [tx EXCEPT ![cur] = Append(@, r)] \in [Months -> Seq(Row)]
  BY <1>4, <1>5
<1> QED
  BY <1>2, <1>6 DEF r

\* Every step keeps the types.
LEMMA TypeStep ==
  ASSUME TypeOK, [Next]_vars
  PROVE  TypeOK'
<1>0. FlowOK /\ DataOK
  BY TypeParts
<1> SUFFICES FlowOK' /\ DataOK'
  BY DEF TypeOK, FlowOK, DataOK
<1>a. <<>> \in Seq(Msg) /\ <<>> \in Seq(Row)
  OBVIOUS
<1>c. IndexerAssumption
  BY IndexerAssumption
<1>d. ASSUME BatchFails
      PROVE  /\ failed' \in SUBSET Nat
             /\ stats' \in [queued : Nat, dropped : Nat, written : Nat, lag : Nat]
  <2> DEFINE n == stats.dropped + Cardinality(Batch)
             f == failed \cup IdsAt(Batch)
  <2>0. Cardinality(Batch) \in Nat /\ IdsAt(Batch) \in SUBSET Nat
    BY BatchFinite
  <2>1. n \in Nat /\ f \in SUBSET Nat
    <3>1. stats.dropped \in Nat /\ failed \in SUBSET Nat
      BY <1>0 DEF DataOK
    <3>2. stats.dropped + Cardinality(Batch) \in Nat
      BY <2>0, <3>1
    <3>3. failed \cup IdsAt(Batch) \in SUBSET Nat
      BY <2>0, <3>1
    <3> QED
      BY <3>2, <3>3
  <2>2. stats' = [stats EXCEPT !.dropped = n] /\ failed' = f
    BY <1>d DEF BatchFails
  <2> HIDE DEF n, f
  <2>3. stats' \in [queued : Nat, dropped : Nat, written : Nat, lag : Nat]
    BY <1>0, <2>1, <2>2 DEF DataOK
  <2> QED
    BY <2>1, <2>2, <2>3
<1>e. [stats EXCEPT !.written = @ + inserted]
          \in [queued : Nat, dropped : Nat, written : Nat, lag : Nat]
  <2> DEFINE n == stats.written + inserted
  <2>1. n \in Nat
    BY <1>0 DEF DataOK, FlowOK
  <2> HIDE DEF n
  <2>2. [stats EXCEPT !.written = n]
           \in [queued : Nat, dropped : Nat, written : Nat, lag : Nat]
    BY <1>0, <2>1 DEF DataOK
  <2> QED
    BY <2>2 DEF n
<1>1. CASE Enqueue
  <2>1. FlowOK'
    <3>1. CASE queue' = queue
      BY <1>0, <1>1, <3>1 DEF Enqueue, FlowOK, coroutine
    <3>2. CASE ~Full
      <4>1. PICK now \in Months :
               \/ queue' = Append(queue, [id |-> accepted + 1, month |-> now])
               \/ queue' = queue
        BY <1>1, <1>c DEF Enqueue, IndexerAssumption
      <4>2. [id |-> accepted + 1, month |-> now] \in Msg
        BY <1>0 DEF DataOK, Msg
      <4>3. queue \in Seq(Msg)
        BY <1>0 DEF FlowOK
      <4>4. Append(queue, [id |-> accepted + 1, month |-> now]) \in Seq(Msg)
        BY <4>2, <4>3
      <4>5. queue' \in Seq(Msg)
        BY <4>1, <4>3, <4>4
      <4> QED
        BY <1>0, <1>1, <4>5 DEF Enqueue, FlowOK, coroutine
    <3> QED
      BY <1>1, <3>1, <3>2 DEF Enqueue
  <2>2. Len(queue) \in Nat
    BY <1>0 DEF FlowOK
  <2>3. stats' \in [queued : Nat, dropped : Nat, written : Nat, lag : Nat]
    <3> DEFINE lag == stats.lag + (IF Len(queue) >= SoftLimit THEN 1 ELSE 0)
    <3>1. \/ stats' = [stats EXCEPT !.lag = lag, !.queued = Len(queue) + 1]
          \/ stats' = [stats EXCEPT !.lag = lag, !.dropped = @ + 1]
      BY <1>1 DEF Enqueue
    <3>2. lag \in Nat /\ stats.dropped + 1 \in Nat /\ Len(queue) + 1 \in Nat
      BY <1>0, <2>2 DEF DataOK
    <3> HIDE DEF lag
    <3> QED
      BY <1>0, <3>1, <3>2 DEF DataOK
  <2>4. accepted' \in Nat /\ refused' \in Nat
    BY <1>0, <1>1 DEF Enqueue, DataOK
  <2> QED
    BY <1>0, <1>1, <2>1, <2>3, <2>4 DEF Enqueue, DataOK, database, ghost
<1>2. CASE Stop
  BY <1>0, <1>2 DEF Stop, FlowOK, DataOK, coroutine, database, ghost
<1>3. CASE Get
  <2>1. FlowOK'
    BY <1>3, GetRestarts, RestartsTyped
  <2>2. Len(queue) - 1 \in Nat
    <3>1. queue \in Seq(Msg) /\ queue # <<>>
      BY <1>0, <1>3 DEF FlowOK, Get
    <3> QED
      BY <3>1
  <2> QED
    BY <1>0, <1>3, <2>1, <2>2 DEF Get, DataOK, database, ghost
<1>4. CASE Timeout
  <2>1. buffer \in Seq(Msg) /\ queue \in Seq(Msg)
    BY <1>0 DEF FlowOK
  <2>2. FlowOK'
    BY <1>4, <2>1, TimeoutRestarts, RestartsTyped
  <2> QED
    BY <1>0, <1>4, <2>2 DEF Timeout, DataOK, database, ghost
<1>5. CASE Open
  BY <1>0, <1>5 DEF Open, FlowOK, DataOK, Control, ghost
<1>6. CASE OpenFails
  <2>1. FlowOK'
    BY <1>0, <1>6, BatchEndsTyped DEF OpenFails, BatchFails
  <2> QED
    BY <1>0, <1>d, <1>6, <2>1 DEF OpenFails, BatchFails, DataOK, database
<1>7. CASE DirFails
  <2>1. FlowOK'
    BY <1>0, <1>7, <1>a, <1>c
       DEF DirFails, NoFlush, FlowOK, Control, IndexerAssumption
  <2>2. crashed' \in SUBSET Nat
    <3>1. \A k \in DOMAIN buffer : buffer[k] \in Msg
      BY <1>0 DEF FlowOK
    <3> QED
      BY <1>0, <1>7, <3>1 DEF DirFails, DataOK, Msg
  <2> QED
    BY <1>0, <1>7, <2>1, <2>2 DEF DirFails, DataOK, database
<1>8. ASSUME NEW i \in DOMAIN buffer, NextRow(i), pos' = i,
             skipped' \subseteq skipped \cup {buffer[i].id}
      PROVE  pos' \in Nat /\ skipped' \in SUBSET Nat /\ cur \in Months
  <2>1. buffer[i] \in Msg /\ i \in Nat
    BY <1>0 DEF FlowOK
  <2> QED
    BY <1>0, <1>8, <2>1 DEF FlowOK, DataOK, Msg, NextRow
<1>9. CASE InsertRow
  <2>1. PICK i \in DOMAIN buffer :
           /\ NextRow(i)
           /\ tx' = [tx EXCEPT ![cur] =
                 Append(@, [id |-> buffer[i].id, fts |-> TRUE])]
           /\ pos' = i
    BY <1>9 DEF InsertRow
  <2>2. pos' \in Nat /\ cur \in Months
    <3>1. skipped' \subseteq skipped \cup {buffer[i].id}
      BY <1>9 DEF InsertRow, ghost
    <3> QED
      BY <1>8, <2>1, <3>1
  <2>3. tx' \in [Months -> Seq(Row)]
    BY <2>1, <2>2, RowsTyped
  <2>4. inserted' \in Nat
    BY <1>0, <1>9 DEF InsertRow, FlowOK
  <2>5. FlowOK'
    BY <1>0, <1>9, <2>2, <2>4 DEF InsertRow, FlowOK
  <2>6. DataOK'
    BY <1>0, <1>9, <2>3 DEF InsertRow, DataOK, ghost
  <2> QED
    BY <2>5, <2>6
<1>10. CASE RowFails
  <2>1. pos' \in Nat /\ skipped' \in SUBSET Nat
    BY <1>8, <1>10 DEF RowFails
  <2> QED
    BY <1>0, <1>10, <2>1 DEF RowFails, FlowOK, DataOK, database
<1>11. CASE FtsFails
  <2>1. PICK i \in DOMAIN buffer :
           /\ NextRow(i)
           /\ tx' = [tx EXCEPT ![cur] =
                 Append(@, [id |-> buffer[i].id, fts |-> FALSE])]
           /\ skipped' = skipped \cup {buffer[i].id}
           /\ pos' = i
    BY <1>11 DEF FtsFails
  <2>2. pos' \in Nat /\ skipped' \in SUBSET Nat /\ cur \in Months
    BY <1>8, <2>1
  <2>3. tx' \in [Months -> Seq(Row)]
    BY <2>1, <2>2, RowsTyped
  <2> QED
    BY <1>0, <1>11, <2>2, <2>3 DEF FtsFails, FlowOK, DataOK
<1>12. CASE RollsBack
  <2>1. pos' \in Nat /\ skipped' \in SUBSET Nat /\ cur \in Months
    BY <1>8, <1>12 DEF RollsBack
  <2>2. undone' \in SUBSET Nat
    <3>1. tx[cur] \in Seq(Row)
      BY <1>0, <2>1 DEF DataOK
    <3>2. \A k \in DOMAIN tx[cur] : tx[cur][k] \in Row
      BY <3>1
    <3>3. IdsIn(tx[cur]) \in SUBSET Nat
      BY <3>2 DEF IdsIn, Row
    <3> QED
      BY <1>0, <1>12, <3>3 DEF RollsBack, DataOK
  <2> QED
    BY <1>0, <1>12, <1>a, <2>1, <2>2 DEF RollsBack, FlowOK, DataOK
<1>13. CASE Commit
  <2>1. FlowOK'
    BY <1>0, <1>13, BatchEndsTyped DEF Commit
  <2>2. cur \in Months
    BY <1>0, <1>13 DEF Commit, LoopOver, FlowOK
  <2>3. table[cur] \o tx[cur] \in Seq(Row)
    BY <1>0, <2>2 DEF DataOK
  <2>4. table' \in [Months -> Seq(Row)] /\ tx' \in [Months -> Seq(Row)]
    BY <1>0, <1>13, <1>a, <2>3 DEF Commit, DataOK
  <2> QED
    BY <1>0, <1>e, <1>13, <2>1, <2>4 DEF Commit, DataOK, ghost
<1>14. CASE CommitFails
  <2>1. FlowOK'
    BY <1>0, <1>14, BatchEndsTyped DEF CommitFails, BatchFails
  <2>2. tx' \in [Months -> Seq(Row)]
    BY <1>0, <1>14, <1>a DEF CommitFails, DataOK
  <2> QED
    BY <1>0, <1>d, <1>14, <2>1, <2>2 DEF CommitFails, BatchFails, DataOK
<1>15. CASE Close
  BY <1>0, <1>15, <1>a DEF Close, FlowOK, DataOK, Control, ghost
<1>16. CASE Exit
  BY <1>0, <1>16, <1>a, <1>c, VolatileTyped
     DEF Exit, NoFlush, FlowOK, DataOK, Control, IndexerAssumption
<1>17. CASE Restart
  <2>1. FlowOK'
    <3>1. /\ pc = "down" /\ pc' = "get"
          /\ queue' = queue /\ buffer' = buffer /\ final' = final /\ todo' = todo
          /\ cur' = cur /\ pos' = pos /\ inserted' = inserted
      BY <1>17 DEF Restart
    <3>2. cur' \notin Months
      BY <1>0, <3>1 DEF FlowOK
    <3>3. cur' \in Months <=> pc' \in {"open", "insert"}
      BY <3>1, <3>2
    <3> QED
      BY <1>0, <3>1, <3>3 DEF FlowOK, Control
  <2> QED
    <3>1. stats' \in [queued : Nat, dropped : Nat, written : Nat, lag : Nat]
      BY <1>17 DEF Restart, NoStats
    <3>2. lives' \in Nat /\ born' \in Nat /\ refused' \in Nat
      <4>1. /\ lives' = lives + 1 /\ born' = accepted /\ refused' = 0
            /\ lives \in Nat /\ accepted \in Nat
        BY <1>0, <1>17 DEF Restart, DataOK
      <4> QED
        BY <4>1
    <3>4. stopping' \in BOOLEAN
      BY <1>17 DEF Restart
    <3>3. UNCHANGED <<conns, tx, table, accepted, skipped, failed, undone, crashed>>
      BY <1>17 DEF Restart, database, ghost
    <3> QED
      BY <1>0, <2>1, <3>1, <3>2, <3>3, <3>4 DEF DataOK
<1>18. CASE UNCHANGED vars
  BY <1>0, <1>18 DEF vars, FlowOK, DataOK, coroutine, database, ghost
<1> QED
  BY <1>1, <1>2, <1>3, <1>4, <1>5, <1>6, <1>7, <1>9, <1>10, <1>11, <1>12, <1>13,
     <1>14, <1>15, <1>16, <1>17, <1>18 DEF Next

LEMMA InitTyped == Init => TypeOK
<1> SUFFICES ASSUME Init PROVE TypeOK
  OBVIOUS
<1>1. <<>> \in Seq(Msg) /\ <<>> \in Seq(Row)
  OBVIOUS
<1> QED
  BY <1>1, IndexerAssumption
     DEF Init, TypeOK, Control, NoStats, IndexerAssumption

\* Every variable keeps its type, and the executor thread works on a month
\* exactly while the coroutine is suspended on one of its batches.
THEOREM Typing == Spec => []TypeOK
<1>1. TypeOK /\ [Next]_vars => TypeOK'
  BY TypeStep
<1> QED
  BY <1>1, InitTyped, PTL DEF Spec

-----------------------------------------------------------------------------
(***************************************************************************)
(* Order.  RowsInOrder is not inductive: it says nothing of the messages   *)
(* still in memory, and a row is inserted from there.  What the steps keep *)
(* is that the buffer and the queue hold the last ids accepted, in a row;  *)
(* that no row and no batch is ahead of the queue; and that a message      *)
(* still to be tried is newer than every row of its month and in no        *)
(* transaction, whatever a failed commit has left there.                   *)
(***************************************************************************)

\* Per month, the committed rows and those of the open transaction.
Rows == [m \in Months |-> table[m] \o tx[m]]

Known == UNION {IdsIn(Rows[m]) : m \in Months}

\* The batch of the k-th buffered message has not ended.
Active(k) == pc = "get" \/ buffer[k].month \in todo \cup {cur}

\* What the locals of _run are at each point.
FlowInv ==
    /\ pc \notin {"open", "insert"} => todo = {} /\ ~final
    /\ pc \notin {"get", "open", "insert"} => buffer = <<>>
    /\ pc # "insert" => pos = 0 /\ inserted = 0
    /\ pc = "down" => queue = <<>>
    /\ cur \notin todo
    /\ pos <= Len(buffer)

\* buf and then q hold the ids up to accepted, without a gap, all of this run.
Consecutive(buf, q) ==
    /\ Len(buf) + Len(q) + born <= accepted
    /\ \A k \in 1..Len(buf) : buf[k].id + Len(buf) + Len(q) = accepted + k
    /\ \A k \in 1..Len(q) : q[k].id + Len(q) = accepted + k

NoneAhead ==
    \A id \in Known \cup failed \cup undone : id + Len(queue) <= accepted

Fresh(msg) ==
    /\ \A i \in 1..Len(Rows[msg.month]) : Rows[msg.month][i].id < msg.id
    /\ msg.id \notin Known \cup undone

Sorted ==
    \A m \in Months : \A i, j \in 1..Len(Rows[m]) :
        i < j => Rows[m][i].id < Rows[m][j].id

OrderInv ==
    /\ FlowInv
    /\ pc # "down" => Consecutive(buffer, queue)
    /\ NoneAhead
    /\ \A k \in 1..Len(buffer) : Waiting(k) => Fresh(buffer[k])
    /\ \A k \in 1..Len(buffer) : Active(k) => buffer[k].id \notin failed
    /\ Sorted

\* Rows are well typed.
RowsOK ==
    /\ \A m \in Months :
          /\ Rows[m] = table[m] \o tx[m]
          /\ Rows[m] \in Seq(Row)
          /\ Len(Rows[m]) \in Nat
          /\ DOMAIN Rows[m] = 1..Len(Rows[m])
          /\ \A i \in 1..Len(Rows[m]) : Rows[m][i] \in Row /\ Rows[m][i].id \in Nat
          /\ IdsIn(Rows[m]) \subseteq Known
    /\ Known \in SUBSET Nat

LEMMA RowsAreOK == TypeOK => RowsOK
<1> SUFFICES ASSUME TypeOK PROVE RowsOK
  OBVIOUS
<1>1. ASSUME NEW m \in Months
      PROVE  /\ Rows[m] = table[m] \o tx[m]
             /\ Rows[m] \in Seq(Row)
             /\ Len(Rows[m]) \in Nat
             /\ DOMAIN Rows[m] = 1..Len(Rows[m])
             /\ \A i \in 1..Len(Rows[m]) : Rows[m][i] \in Row /\ Rows[m][i].id \in Nat
  <2>1. table[m] \in Seq(Row) /\ tx[m] \in Seq(Row)
    BY DEF TypeOK
  <2>2. Rows[m] = table[m] \o tx[m]
    BY DEF Rows
  <2>3. Rows[m] \in Seq(Row)
    BY <2>1, <2>2
  <2>4. Len(Rows[m]) \in Nat /\ DOMAIN Rows[m] = 1..Len(Rows[m])
    BY <2>3
  <2>5. \A i \in 1..Len(Rows[m]) : Rows[m][i] \in Row
    BY <2>3
  <2>6. \A i \in 1..Len(Rows[m]) : Rows[m][i].id \in Nat
    BY <2>5 DEF Row
  <2> QED
    BY <2>2, <2>3, <2>4, <2>5, <2>6
<1>2. Known \in SUBSET Nat
  <2> SUFFICES ASSUME NEW id \in Known PROVE id \in Nat
    OBVIOUS
  <2>1. PICK m \in Months : id \in IdsIn(Rows[m])
    BY DEF Known
  <2> QED
    BY <1>1, <2>1 DEF IdsIn
<1>3. \A m \in Months : IdsIn(Rows[m]) \subseteq Known
  BY DEF Known
<1> QED
  BY <1>1, <1>2, <1>3 DEF RowsOK

LEMMA RowsStayOK == TypeOK' => RowsOK'
BY RowsAreOK, PTL

LEMMA OrderGivesRowsInOrder == TypeOK /\ OrderInv => RowsInOrder
<1> SUFFICES ASSUME TypeOK, OrderInv,
                    NEW m \in Months,
                    NEW i \in DOMAIN Rows[m], NEW j \in DOMAIN Rows[m], i < j
             PROVE  Rows[m][i].id < Rows[m][j].id
  BY DEF RowsInOrder, Rows
<1> QED
  BY RowsAreOK DEF OrderInv, Sorted, RowsOK

\* A step that appends no row may take rows away at the end, and what a
\* rollback took was there before.
Shrinks ==
    /\ \A m \in Months :
          /\ Len(Rows'[m]) <= Len(Rows[m])
          /\ \A i \in 1..Len(Rows'[m]) : Rows'[m][i] = Rows[m][i]
    /\ undone' \subseteq undone \cup Known

LEMMA ShrinksOrder ==
  ASSUME TypeOK, TypeOK', Shrinks
  PROVE  /\ Known' \cup undone' \subseteq Known \cup undone
         /\ Sorted => Sorted'
         /\ \A msg \in Msg : Fresh(msg) => Fresh(msg)'
<1>1. RowsOK /\ RowsOK'
  BY RowsAreOK, RowsStayOK
<1>2. Known' \subseteq Known
  BY <1>1 DEF Shrinks, RowsOK, Known, IdsIn
<1>3. Known' \cup undone' \subseteq Known \cup undone
  BY <1>2 DEF Shrinks
<1>4. ASSUME NEW m \in Months, NEW i \in 1..Len(Rows'[m])
      PROVE  i \in 1..Len(Rows[m]) /\ Rows'[m][i] = Rows[m][i]
  BY <1>1 DEF Shrinks, RowsOK
<1>5. Sorted => Sorted'
  BY <1>4 DEF Sorted
<1>6. ASSUME NEW msg \in Msg, Fresh(msg) PROVE Fresh(msg)'
  <2>1. msg.month \in Months
    BY DEF Msg
  <2>2. \A i \in 1..Len(Rows'[msg.month]) : Rows'[msg.month][i].id < msg.id
    BY <1>4, <1>6, <2>1 DEF Fresh
  <2> QED
    BY <1>3, <1>6, <2>2 DEF Fresh
<1> QED
  BY <1>3, <1>5, <1>6

\* Steps that leave the rows as they are, or empty a transaction.
LEMMA SameRowsShrink ==
  ASSUME TypeOK, \A m \in Months : table'[m] \o tx'[m] = Rows[m],
         undone' = undone
  PROVE  Shrinks
<1>1. \A m \in Months : Rows'[m] = Rows[m]
  BY DEF Rows
<1>2. \A m \in Months : Len(Rows[m]) \in Nat
  BY RowsAreOK DEF RowsOK
<1> QED
  BY <1>1, <1>2 DEF Shrinks

LEMMA EmptyTxShrinks ==
  ASSUME TypeOK, table' = table, NEW D \in SUBSET Months,
         tx' = [m \in Months |-> IF m \in D THEN <<>> ELSE tx[m]],
         undone' \subseteq undone \cup Known
  PROVE  Shrinks
<1> SUFFICES ASSUME NEW m \in Months
             PROVE  /\ Len(Rows'[m]) <= Len(Rows[m])
                    /\ \A i \in 1..Len(Rows'[m]) : Rows'[m][i] = Rows[m][i]
  BY DEF Shrinks
<1>1. /\ table[m] \in Seq(Row) /\ tx[m] \in Seq(Row)
      /\ Rows[m] = table[m] \o tx[m]
      /\ Rows'[m] = table[m] \o (IF m \in D THEN <<>> ELSE tx[m])
  BY DEF Rows, TypeOK
<1>2. CASE m \in D
  <2>1. /\ table[m] \o <<>> = table[m]
        /\ Len(table[m]) <= Len(Rows[m])
        /\ \A i \in 1..Len(table[m]) : Rows[m][i] = table[m][i]
    <3> DEFINE a == table[m]
               b == tx[m]
    <3>1. a \in Seq(Row) /\ b \in Seq(Row) /\ Rows[m] = a \o b
      BY <1>1
    <3> HIDE DEF a, b
    <3>2. /\ a \o <<>> = a
          /\ Len(a) <= Len(a \o b)
          /\ \A i \in 1..Len(a) : (a \o b)[i] = a[i]
      BY <3>1, ConcatStarts
    <3>3. /\ a \o <<>> = a
          /\ Len(a) <= Len(Rows[m])
          /\ \A i \in 1..Len(a) : Rows[m][i] = a[i]
      BY <3>1, <3>2
    <3> QED
      BY <3>3 DEF a
  <2>2. Rows'[m] = table[m]
    BY <1>1, <1>2, <2>1
  <2> QED
    BY <2>1, <2>2
<1>3. CASE m \notin D
  <2>1. Rows'[m] = Rows[m]
    BY <1>1, <1>3
  <2>2. Len(Rows[m]) \in Nat
    BY RowsAreOK DEF RowsOK
  <2> QED
    BY <2>1, <2>2
<1> QED
  BY <1>2, <1>3

\* A row that is inserted is newer than those of its month, and the message
\* it was made from was fresh.
LEMMA InsertOrder ==
  ASSUME TypeOK, TypeOK', cur \in Months, table' = table, undone' = undone,
         NEW msg \in Msg, msg.month = cur, Sorted, Fresh(msg),
         NEW r \in Row, r.id = msg.id,
         tx' = [tx EXCEPT ![cur] = Append(@, r)]
  PROVE  /\ Known' = Known \cup {msg.id}
         /\ Sorted'
         /\ \A o \in Msg : Fresh(o) /\ o.id # msg.id
                              /\ (o.month = cur => msg.id < o.id) => Fresh(o)'
<1>1. RowsOK /\ RowsOK'
  BY RowsAreOK, RowsStayOK
<1>2. /\ \A m \in Months : m # cur => Rows'[m] = Rows[m]
      /\ Rows'[cur] = Append(Rows[cur], r)
  <2>1. table[cur] \in Seq(Row) /\ tx[cur] \in Seq(Row)
    BY DEF TypeOK
  <2>2. table[cur] \o Append(tx[cur], r) = Append(table[cur] \o tx[cur], r)
    <3> DEFINE a == table[cur]
               b == tx[cur]
    <3>1. a \in Seq(Row) /\ b \in Seq(Row)
      BY <2>1
    <3> HIDE DEF a, b
    <3>2. a \o Append(b, r) = Append(a \o b, r)
      BY <3>1, ConcatAppends
    <3> QED
      BY <3>2 DEF a, b
  <2>3. /\ \A m \in Months : m # cur => tx'[m] = tx[m]
        /\ tx'[cur] = Append(tx[cur], r)
    BY DEF TypeOK
  <2>4. /\ \A m \in Months : Rows[m] = table[m] \o tx[m]
        /\ \A m \in Months : Rows'[m] = table[m] \o tx'[m]
    BY DEF Rows
  <2>5. Rows'[cur] = Append(Rows[cur], r)
    BY <2>2, <2>3, <2>4
  <2>6. ASSUME NEW m \in Months, m # cur
        PROVE  Rows'[m] = Rows[m]
    <3>1. tx'[m] = tx[m]
      BY <2>3, <2>6
    <3>2. Rows[m] = table[m] \o tx[m]
      BY <2>4
    <3>3. Rows'[m] = table[m] \o tx'[m]
      BY <2>4
    <3> QED
      BY <3>1, <3>2, <3>3
  <2> QED
    BY <2>5, <2>6
<1>3. /\ Len(Rows'[cur]) = Len(Rows[cur]) + 1
      /\ \A i \in 1..Len(Rows[cur]) : Rows'[cur][i] = Rows[cur][i]
      /\ Rows'[cur][Len(Rows[cur]) + 1].id = msg.id
  BY <1>1, <1>2 DEF RowsOK
<1>4. Known' = Known \cup {msg.id}
  <2>1. IdsIn(Rows'[cur]) = IdsIn(Rows[cur]) \cup {msg.id}
    <3>1. Rows[cur] \in Seq(Row)
      BY <1>1 DEF RowsOK
    <3>2. IdsIn(Append(Rows[cur], r)) = IdsIn(Rows[cur]) \cup {r.id}
      BY <3>1, IdsAppend
    <3> QED
      BY <1>2, <3>2
  <2>2. \A m \in Months : m # cur => IdsIn(Rows'[m]) = IdsIn(Rows[m])
    BY <1>2
  <2> QED
    BY <2>1, <2>2 DEF Known
<1>5. Sorted'
  <2> SUFFICES ASSUME NEW m \in Months,
                      NEW i \in 1..Len(Rows'[m]), NEW j \in 1..Len(Rows'[m]), i < j
               PROVE  Rows'[m][i].id < Rows'[m][j].id
    BY DEF Sorted
  <2>1. CASE m # cur
    BY <1>2, <2>1 DEF Sorted
  <2>2. CASE m = cur /\ j = Len(Rows[cur]) + 1
    BY <1>1, <1>3, <2>2 DEF Fresh, RowsOK
  <2>3. CASE m = cur /\ j # Len(Rows[cur]) + 1
    <3>1. i \in 1..Len(Rows[cur]) /\ j \in 1..Len(Rows[cur])
      BY <1>1, <1>3, <2>3 DEF RowsOK
    <3> QED
      BY <1>3, <2>3, <3>1 DEF Sorted
  <2> QED
    BY <2>1, <2>2, <2>3
<1>6. ASSUME NEW o \in Msg, Fresh(o), o.id # msg.id, o.month = cur => msg.id < o.id
      PROVE  Fresh(o)'
  <2>1. o.month \in Months
    BY DEF Msg
  <2>2. o.id \notin Known' \cup undone'
    BY <1>4, <1>6 DEF Fresh
  <2>3. ASSUME NEW i \in 1..Len(Rows'[o.month])
        PROVE  Rows'[o.month][i].id < o.id
    <3>1. CASE o.month # cur
      BY <1>2, <1>6, <2>1, <3>1 DEF Fresh
    <3>2. CASE o.month = cur
      <4>1. Len(Rows[cur]) \in Nat
        BY <1>1 DEF RowsOK
      <4>2. CASE i \in 1..Len(Rows[cur])
        <5>1. Rows'[cur][i] = Rows[cur][i]
          BY <1>3, <4>2
        <5>2. Rows[cur][i].id < o.id
          BY <1>6, <3>2, <4>2 DEF Fresh
        <5> QED
          BY <3>2, <5>1, <5>2
      <4>3. CASE i = Len(Rows[cur]) + 1
        BY <1>3, <1>6, <3>2, <4>3
      <4> QED
        BY <1>3, <2>3, <3>2, <4>1, <4>2, <4>3
    <3> QED
      BY <3>1, <3>2
  <2> QED
    BY <2>2, <2>3 DEF Fresh
<1> QED
  BY <1>4, <1>5, <1>6

\* What typing says of the messages of the buffer and the queue.
LEMMA MessagesTyped ==
  ASSUME TypeOK
  PROVE  /\ Len(buffer) \in Nat /\ DOMAIN buffer = 1..Len(buffer)
         /\ Len(queue) \in Nat /\ DOMAIN queue = 1..Len(queue)
         /\ \A k \in 1..Len(buffer) : /\ buffer[k] \in Msg
                                      /\ buffer[k].id \in Nat
                                      /\ buffer[k].month \in Months
         /\ \A k \in 1..Len(queue) : queue[k] \in Msg /\ queue[k].id \in Nat
<1>1. buffer \in Seq(Msg) /\ queue \in Seq(Msg)
  BY DEF TypeOK
<1>2. /\ Len(buffer) \in Nat /\ DOMAIN buffer = 1..Len(buffer)
      /\ Len(queue) \in Nat /\ DOMAIN queue = 1..Len(queue)
  BY <1>1
<1>3. \A k \in 1..Len(buffer) : buffer[k] \in Msg
  BY <1>1
<1>4. \A k \in 1..Len(queue) : queue[k] \in Msg
  BY <1>1
<1> QED
  BY <1>2, <1>3, <1>4 DEF Msg

\* A message newer than all rows, batches and rollbacks is fresh.
LEMMA NewerIsFresh ==
  ASSUME TypeOK', NEW msg \in Msg, \A id \in Known' \cup undone' : id < msg.id
  PROVE  Fresh(msg)'
<1>1. RowsOK'
  BY RowsStayOK
<1>2. msg.month \in Months /\ msg.id \in Nat
  BY DEF Msg
<1>3. ASSUME NEW i \in 1..Len(Rows'[msg.month])
      PROVE  Rows'[msg.month][i].id < msg.id
  <2>1. Rows'[msg.month][i].id \in Known'
    BY <1>1, <1>2 DEF RowsOK, IdsIn
  <2> QED
    BY <2>1
<1>4. msg.id \notin Known' \cup undone'
  BY <1>2
<1> QED
  BY <1>3, <1>4 DEF Fresh

\* Between two flushes everything settled is older than what is in memory.
LEMMA RestartsOrder ==
  ASSUME TypeOK, TypeOK', NEW buf \in Seq(Msg), NEW q \in Seq(Msg),
         Restarts(buf, q), accepted' = accepted, born' = born,
         Consecutive(buf, q), Sorted',
         \A id \in Known' \cup failed' \cup undone' :
            id + Len(buf) + Len(q) <= accepted
  PROVE  OrderInv'
<1>1. /\ Len(buf) \in Nat /\ Len(q) \in Nat /\ accepted \in Nat /\ born \in Nat
      /\ Known' \cup failed' \cup undone' \in SUBSET Nat
  <2>1. Known' \in SUBSET Nat
    BY RowsStayOK DEF RowsOK
  <2>2. failed' \in SUBSET Nat /\ undone' \in SUBSET Nat
    BY DEF TypeOK
  <2>3. accepted \in Nat /\ born \in Nat
    BY DEF TypeOK
  <2>4. Len(buf) \in Nat /\ Len(q) \in Nat
    OBVIOUS
  <2> QED
    BY <2>1, <2>2, <2>3, <2>4
<1>2. /\ Len(buffer') + Len(queue') = Len(buf) + Len(q)
      /\ Consecutive(buffer', queue')
  <2>1. CASE buffer' = buf /\ queue' = q
    BY <2>1
  <2>2. CASE buffer' = buf \o q /\ queue' = <<>>
    <3>1. /\ Len(buf \o q) = Len(buf) + Len(q) /\ Len(<<>>) = 0
          /\ \A k \in 1..Len(buf) : (buf \o q)[k] = buf[k]
          /\ \A j \in 1..Len(q) : (buf \o q)[Len(buf) + j] = q[j]
      OBVIOUS
    <3>2. ASSUME NEW k \in 1..(Len(buf) + Len(q))
          PROVE  (buf \o q)[k].id + (Len(buf) + Len(q)) + 0 = accepted + k
      <4>1. CASE k \in 1..Len(buf)
        <5>1. buf[k].id \in Nat
          <6>1. buf[k] \in Msg
            BY <4>1
          <6> QED
            BY <6>1 DEF Msg
        <5>2. buf[k].id + Len(buf) + Len(q) = accepted + k
          BY <4>1 DEF Consecutive
        <5> QED
          BY <1>1, <3>1, <4>1, <5>1, <5>2
      <4>2. CASE k \notin 1..Len(buf)
        <5>1. PICK j \in 1..Len(q) : k = Len(buf) + j
          <6>1. k - Len(buf) \in 1..Len(q) /\ k = Len(buf) + (k - Len(buf))
            BY <1>1, <4>2
          <6> QED
            BY <6>1
        <5>2. q[j].id \in Nat
          <6>1. q[j] \in Msg
            OBVIOUS
          <6> QED
            BY <6>1 DEF Msg
        <5>3. q[j].id + Len(q) = accepted + j
          BY DEF Consecutive
        <5>4. (buf \o q)[k] = q[j]
          BY <3>1, <5>1
        <5> DEFINE v == q[j].id
        <5>5. /\ v \in Nat /\ v + Len(q) = accepted + j
              /\ (buf \o q)[k].id = v /\ j \in Nat
          BY <5>2, <5>3, <5>4
        <5> HIDE DEF v
        <5>6. v + (Len(buf) + Len(q)) + 0 = accepted + k
          BY <1>1, <5>1, <5>5
        <5> QED
          BY <5>5, <5>6
      <4> QED
        BY <4>1, <4>2
    <3>3. Len(buf) + Len(q) + 0 + born <= accepted
      BY <1>1 DEF Consecutive
    <3>4. 1..0 = {}
      OBVIOUS
    <3> QED
      BY <1>1, <2>2, <3>1, <3>2, <3>3, <3>4 DEF Consecutive
  <2> QED
    BY <2>1, <2>2 DEF Restarts
<1> DEFINE n == Len(buffer')
           p == Len(queue')
<1>3. /\ n \in Nat /\ p \in Nat
      /\ \A k \in 1..n : /\ buffer'[k] \in Msg
                         /\ buffer'[k].id \in Nat
                         /\ buffer'[k].id + n + p = accepted + k
  <2>1. buffer' \in Seq(Msg) /\ queue' \in Seq(Msg)
    BY DEF TypeOK
  <2>2. n \in Nat /\ p \in Nat
    BY <2>1
  <2>3. \A k \in 1..n : buffer'[k] \in Msg
    BY <2>1
  <2>4. \A k \in 1..n : buffer'[k].id \in Nat
    BY <2>3 DEF Msg
  <2> QED
    BY <1>2, <2>2, <2>3, <2>4 DEF Consecutive
<1>4. \A id \in Known' \cup failed' \cup undone' : id + n + p <= accepted
  BY <1>1, <1>2
<1> HIDE DEF n, p
<1>5. ASSUME NEW k \in 1..n, NEW id \in Known' \cup failed' \cup undone'
      PROVE  id < buffer'[k].id
  <2>1. /\ buffer'[k].id \in Nat /\ k \in Nat \ {0} /\ id \in Nat
        /\ buffer'[k].id + n + p = accepted + k
    BY <1>1, <1>3
  <2>2. id + n + p <= accepted
    BY <1>4
  <2>3. n \in Nat /\ p \in Nat /\ accepted \in Nat
    BY <1>1, <1>3
  <2> DEFINE x == buffer'[k].id
  <2>4. x \in Nat /\ x + n + p = accepted + k
    BY <2>1
  <2> HIDE DEF x
  <2>5. id < x
    BY <2>1, <2>2, <2>3, <2>4
  <2> QED
    BY <2>5 DEF x
<1>6. \A k \in 1..n : Fresh(buffer[k])'
  BY <1>3, <1>5, NewerIsFresh
<1>7. NoneAhead'
  BY <1>1, <1>3, <1>4 DEF NoneAhead, p
<1>8. FlowInv'
  BY <1>3 DEF Restarts, FlowInv, n
<1>9. (pc # "down" => Consecutive(buffer, queue))'
  BY <1>2 DEF Consecutive
<1>10. \A k \in 1..n : buffer'[k].id \notin failed'
  BY <1>3, <1>5
<1> QED
  BY <1>6, <1>7, <1>8, <1>9, <1>10 DEF OrderInv, n

\* The ids of the buffer, while the process runs.
LEMMA BufferIds ==
  ASSUME TypeOK, OrderInv, pc # "down"
  PROVE  /\ \A k \in 1..Len(buffer) :
               /\ buffer[k].id + Len(buffer) + Len(queue) = accepted + k
               /\ buffer[k].id + Len(queue) <= accepted
               /\ buffer[k].id > born
         /\ \A j, k \in 1..Len(buffer) : j < k => buffer[j].id < buffer[k].id
         /\ \A j, k \in 1..Len(buffer) : buffer[j].id = buffer[k].id => j = k
<1>1. /\ Len(buffer) \in Nat /\ Len(queue) \in Nat
      /\ accepted \in Nat /\ born \in Nat
      /\ \A k \in 1..Len(buffer) : buffer[k].id \in Nat
  BY MessagesTyped DEF TypeOK
<1>2. /\ \A k \in 1..Len(buffer) :
            buffer[k].id + Len(buffer) + Len(queue) = accepted + k
      /\ Len(buffer) + Len(queue) + born <= accepted
  BY DEF OrderInv, Consecutive
<1> DEFINE n == Len(buffer)
           p == Len(queue)
<1>3. n \in Nat /\ p \in Nat /\ n + p + born <= accepted
  BY <1>1, <1>2
<1>4. ASSUME NEW k \in 1..n
      PROVE  /\ k \in Nat /\ k >= 1 /\ k <= n /\ buffer[k].id \in Nat
             /\ buffer[k].id + n + p = accepted + k
  <2>1. k \in Nat /\ k >= 1 /\ k <= n
    BY <1>3
  <2>2. buffer[k].id \in Nat
    BY <1>1
  <2>3. buffer[k].id + n + p = accepted + k
    BY <1>2
  <2> QED
    BY <2>1, <2>2, <2>3
<1>5. \A k \in 1..n : buffer[k].id + n + p = accepted + k
  BY <1>4
<1> HIDE DEF n, p
<1>6. ASSUME NEW k \in 1..n
      PROVE  buffer[k].id + p <= accepted /\ buffer[k].id > born
  <2> DEFINE x == buffer[k].id
  <2>1. /\ k \in Nat /\ k >= 1 /\ k <= n /\ x \in Nat
        /\ x + n + p = accepted + k
    BY <1>4
  <2> HIDE DEF x
  <2>2. x + p <= accepted /\ x > born
    BY <1>1, <1>3, <2>1
  <2> QED
    BY <2>2 DEF x
<1>7. ASSUME NEW j \in 1..n, NEW k \in 1..n
      PROVE  /\ j < k => buffer[j].id < buffer[k].id
             /\ buffer[j].id = buffer[k].id => j = k
  <2> DEFINE x == buffer[j].id
             y == buffer[k].id
  <2>1. /\ j \in Nat /\ k \in Nat /\ x \in Nat /\ y \in Nat
        /\ x + n + p = accepted + j /\ y + n + p = accepted + k
    BY <1>4
  <2> HIDE DEF x, y
  <2>2. (j < k => x < y) /\ (x = y => j = k)
    BY <1>1, <1>3, <2>1
  <2> QED
    BY <2>2 DEF x, y
<1> QED
  BY <1>5, <1>6, <1>7 DEF n, p

\* The end of a batch, whatever became of it.
LEMMA BatchEndsOrder ==
  ASSUME TypeOK, TypeOK', OrderInv, pc \in {"open", "insert"}, MonthDone,
         Shrinks, accepted' = accepted, born' = born,
         failed' \subseteq failed \cup IdsAt(Batch)
  PROVE  OrderInv'
<1>1. /\ Len(buffer) \in Nat /\ DOMAIN buffer = 1..Len(buffer)
      /\ Len(queue) \in Nat /\ accepted \in Nat /\ born \in Nat
      /\ \A k \in 1..Len(buffer) : buffer[k] \in Msg /\ buffer[k].id \in Nat
  BY MessagesTyped DEF TypeOK
<1>2. /\ Known' \cup undone' \subseteq Known \cup undone
      /\ Sorted'
      /\ \A msg \in Msg : Fresh(msg) => Fresh(msg)'
  BY ShrinksOrder DEF OrderInv
<1>3. /\ \A k \in 1..Len(buffer) : buffer[k].id + Len(queue) <= accepted
      /\ \A j, k \in 1..Len(buffer) : buffer[j].id = buffer[k].id => j = k
  BY BufferIds
<1>4. \A id \in Known' \cup failed' \cup undone' : id + Len(queue) <= accepted
  BY <1>1, <1>2, <1>3 DEF OrderInv, NoneAhead, IdsAt, Batch
<1>5. CASE NextMonth
  <2>1. /\ buffer' = buffer /\ queue' = queue /\ pc' = "open" /\ pos' = 0
        /\ inserted' = 0 /\ cur' \in todo /\ todo' = todo \ {cur'} /\ final' = final
    BY <1>5 DEF NextMonth
  <2>2. FlowInv'
    BY <1>1, <2>1 DEF FlowInv
  <2>3. (pc # "down" => Consecutive(buffer, queue))'
    <3>1. Consecutive(buffer, queue)
      BY DEF OrderInv
    <3> QED
      BY <2>1, <3>1 DEF Consecutive
  <2>4. NoneAhead'
    BY <1>4, <2>1 DEF NoneAhead
  <2>5. ASSUME NEW k \in 1..Len(buffer'), Active(k)'
        PROVE  k \in 1..Len(buffer) /\ buffer[k].month \in todo
    BY <2>1, <2>5 DEF Active
  <2>6. ASSUME NEW k \in 1..Len(buffer'), Waiting(k)' PROVE Fresh(buffer[k])'
    <3>1. k \in 1..Len(buffer) /\ buffer[k].month \in todo
      BY <2>5, <2>6 DEF Waiting, Active
    <3>2. Fresh(buffer[k])
      BY <3>1 DEF OrderInv, Waiting
    <3>3. buffer'[k] = buffer[k]
      BY <2>1
    <3> QED
      BY <1>1, <1>2, <3>1, <3>2, <3>3 DEF Fresh
  <2>7. ASSUME NEW k \in 1..Len(buffer'), Active(k)' PROVE buffer'[k].id \notin failed'
    <3>1. k \in 1..Len(buffer) /\ buffer[k].month \in todo /\ cur \notin todo
      BY <2>5, <2>7 DEF OrderInv, FlowInv
    <3>2. buffer[k].id \notin failed
      BY <3>1 DEF OrderInv, Active
    <3>3. buffer[k].id \notin IdsAt(Batch)
      BY <1>1, <1>3, <3>1 DEF IdsAt, Batch
    <3> QED
      BY <2>1, <3>2, <3>3
  <2> QED
    BY <1>2, <2>2, <2>3, <2>4, <2>6, <2>7 DEF OrderInv
<1>6. CASE Restarts(<<>>, queue)
  <2>1. <<>> \in Seq(Msg) /\ queue \in Seq(Msg) /\ Len(<<>>) = 0
    BY DEF TypeOK
  <2>2. Consecutive(<<>>, queue)
    <3>1. Consecutive(buffer, queue)
      BY DEF OrderInv
    <3>2. /\ Len(buffer) + Len(queue) + born <= accepted
          /\ \A k \in 1..Len(queue) : queue[k].id + Len(queue) = accepted + k
      BY <3>1 DEF Consecutive
    <3>3. 0 + Len(queue) + born <= accepted /\ 1..0 = {}
      BY <1>1, <3>2
    <3> QED
      BY <2>1, <3>2, <3>3 DEF Consecutive
  <2>3. \A id \in Known' \cup failed' \cup undone' :
           id + Len(<<>>) + Len(queue) <= accepted
    <3>1. Known' \cup failed' \cup undone' \in SUBSET Nat
      BY RowsStayOK DEF RowsOK, TypeOK
    <3> QED
      BY <1>1, <1>4, <2>1, <3>1
  <2> QED
    BY <1>2, <1>6, <2>1, <2>2, <2>3, RestartsOrder
<1>7. queue \in Seq(Msg) /\ todo \in SUBSET Months
  BY DEF TypeOK
<1> QED
  BY <1>5, <1>6, <1>7, BatchEnds

\* A row that was tried and is not in the table or its transaction.
LEMMA TriedOrder ==
  ASSUME TypeOK, TypeOK', OrderInv, Shrinks,
         NEW i \in DOMAIN buffer, NextRow(i), pos' = i,
         UNCHANGED <<queue, buffer, pc, final, todo, cur, accepted, born, failed>>
  PROVE  OrderInv'
<1>1. /\ Len(buffer) \in Nat /\ DOMAIN buffer = 1..Len(buffer)
      /\ \A k \in 1..Len(buffer) : buffer[k] \in Msg
      /\ pos \in Nat
  BY MessagesTyped DEF TypeOK
<1>2. /\ Known' \cup undone' \subseteq Known \cup undone
      /\ Sorted'
      /\ \A msg \in Msg : Fresh(msg) => Fresh(msg)'
  BY ShrinksOrder DEF OrderInv
<1>3. pc = "insert" /\ i > pos /\ i <= Len(buffer)
  BY <1>1 DEF NextRow
<1>4. \A k \in 1..Len(buffer) : Waiting(k)' => Waiting(k)
  BY <1>1, <1>3 DEF Waiting
<1>5. FlowInv'
  BY <1>1, <1>3 DEF OrderInv, FlowInv
<1>6. NoneAhead'
  BY <1>2 DEF OrderInv, NoneAhead
<1>7. (pc # "down" => Consecutive(buffer, queue))'
  BY DEF OrderInv, Consecutive
<1>8. \A k \in 1..Len(buffer') : Waiting(k)' => Fresh(buffer[k])'
  <2>1. \A k \in 1..Len(buffer) : Waiting(k) => Fresh(buffer[k])
    BY DEF OrderInv
  <2> SUFFICES ASSUME NEW k \in 1..Len(buffer), Waiting(k)' PROVE Fresh(buffer[k])'
    OBVIOUS
  <2>2. Fresh(buffer[k])
    BY <1>4, <2>1
  <2> QED
    BY <1>1, <1>2, <2>2 DEF Fresh
<1>9. \A k \in 1..Len(buffer') : Active(k)' => buffer'[k].id \notin failed'
  BY DEF OrderInv, Active
<1> QED
  BY <1>2, <1>5, <1>6, <1>7, <1>8, <1>9 DEF OrderInv

\* A row that was inserted.
LEMMA InsertedOrder ==
  ASSUME TypeOK, TypeOK', OrderInv, NEW i \in DOMAIN buffer, NextRow(i), pos' = i,
         NEW r \in Row, r.id = buffer[i].id,
         tx' = [tx EXCEPT ![cur] = Append(@, r)],
         UNCHANGED <<queue, buffer, pc, final, todo, cur, table, accepted, born,
                     failed, undone>>
  PROVE  OrderInv'
<1>1. /\ Len(buffer) \in Nat /\ DOMAIN buffer = 1..Len(buffer)
      /\ Len(queue) \in Nat /\ accepted \in Nat
      /\ \A k \in 1..Len(buffer) : buffer[k] \in Msg /\ buffer[k].id \in Nat
      /\ pos \in Nat
  BY MessagesTyped DEF TypeOK
<1>2. /\ pc = "insert" /\ i > pos /\ i <= Len(buffer) /\ buffer[i].month = cur
      /\ \A j \in 1..Len(buffer) : buffer[j].month = cur /\ j > pos => i <= j
  BY <1>1 DEF NextRow, Batch
<1>3. cur \in Months
  BY <1>2 DEF TypeOK
<1>4. Fresh(buffer[i])
  BY <1>1, <1>2 DEF OrderInv, Waiting
<1>5. /\ Known' = Known \cup {buffer[i].id}
      /\ Sorted'
      /\ \A o \in Msg : Fresh(o) /\ o.id # buffer[i].id
                          /\ (o.month = cur => buffer[i].id < o.id) => Fresh(o)'
  BY <1>1, <1>2, <1>3, <1>4, InsertOrder DEF OrderInv
<1>6. /\ \A k \in 1..Len(buffer) : buffer[k].id + Len(queue) <= accepted
      /\ \A j, k \in 1..Len(buffer) : j < k => buffer[j].id < buffer[k].id
      /\ \A j, k \in 1..Len(buffer) : buffer[j].id = buffer[k].id => j = k
  BY <1>2, BufferIds
<1>7. FlowInv'
  BY <1>1, <1>2 DEF OrderInv, FlowInv
<1>8. NoneAhead'
  BY <1>1, <1>5, <1>6 DEF OrderInv, NoneAhead
<1>9. (pc # "down" => Consecutive(buffer, queue))'
  BY DEF OrderInv, Consecutive
<1>10. ASSUME NEW k \in 1..Len(buffer), Waiting(k)' PROVE Fresh(buffer[k])'
  <2>1. Waiting(k) /\ k # i
    BY <1>1, <1>2, <1>10 DEF Waiting, OrderInv, FlowInv
  <2>2. Fresh(buffer[k])
    BY <2>1 DEF OrderInv
  <2>3. buffer[k].id # buffer[i].id
    BY <1>1, <1>6, <2>1
  <2>4. buffer[k].month = cur => buffer[i].id < buffer[k].id
    <3>1. buffer[k].month = cur => k > i
      BY <1>1, <1>2, <1>10, <2>1 DEF Waiting, OrderInv, FlowInv
    <3> QED
      BY <1>1, <1>6, <3>1
  <2> QED
    BY <1>1, <1>5, <2>2, <2>3, <2>4 DEF Fresh
<1>11. \A k \in 1..Len(buffer') : Waiting(k)' => Fresh(buffer[k])'
  BY <1>10
<1>12. \A k \in 1..Len(buffer') : Active(k)' => buffer'[k].id \notin failed'
  BY DEF OrderInv, Active
<1> QED
  BY <1>5, <1>7, <1>8, <1>9, <1>11, <1>12 DEF OrderInv

\* A flush or an end of the process leaves nothing buffered to be tried.
LEMMA EmptiedOrder ==
  ASSUME TypeOK, TypeOK', OrderInv, Shrinks, pc' \notin {"get", "open", "insert"},
         buffer' = <<>>, final' = FALSE, todo' = {}, pos' = 0, inserted' = 0,
         UNCHANGED <<failed, accepted, born>>,
         \/ pc' = "down" /\ queue' = <<>>
         \/ pc' # "down" /\ pc # "down" /\ queue' = queue
  PROVE  OrderInv'
<1>1. /\ Len(queue) \in Nat /\ Len(buffer) \in Nat
      /\ accepted \in Nat /\ born \in Nat
      /\ Known \cup failed \cup undone \in SUBSET Nat
  <2>1. RowsOK
    BY RowsAreOK
  <2> QED
    BY <2>1, MessagesTyped DEF TypeOK, RowsOK
<1>2. Known' \cup undone' \subseteq Known \cup undone /\ Sorted'
  BY ShrinksOrder DEF OrderInv
<1>3. Len(<<>>) = 0 /\ 1..0 = {}
  OBVIOUS
<1>4. FlowInv'
  BY <1>3 DEF FlowInv
<1>5. NoneAhead'
  <2>1. \A id \in Known' \cup failed' \cup undone' : id + Len(queue) <= accepted
    BY <1>2 DEF OrderInv, NoneAhead
  <2>2. Len(queue') \in Nat /\ Len(queue') <= Len(queue)
    BY <1>1, <1>3
  <2> QED
    BY <1>1, <1>2, <2>1, <2>2 DEF NoneAhead
<1>6. (pc # "down" => Consecutive(buffer, queue))'
  <2> SUFFICES ASSUME pc' # "down" PROVE Consecutive(<<>>, queue)'
    OBVIOUS
  <2>1. Consecutive(buffer, queue)
    BY DEF OrderInv
  <2>2. /\ Len(buffer) + Len(queue) + born <= accepted
        /\ \A k \in 1..Len(queue) : queue[k].id + Len(queue) = accepted + k
    BY <2>1 DEF Consecutive
  <2>3. 0 + Len(queue) + born <= accepted
    BY <1>1, <2>2
  <2> QED
    BY <1>3, <2>2, <2>3 DEF Consecutive
<1> QED
  BY <1>2, <1>3, <1>4, <1>5, <1>6 DEF OrderInv

\* In get, everything settled is older than what is buffered too.
LEMMA GetSettled ==
  ASSUME TypeOK, OrderInv, pc = "get"
  PROVE  \A id \in Known \cup failed \cup undone :
            id + Len(buffer) + Len(queue) <= accepted
<1> SUFFICES ASSUME NEW id \in Known \cup failed \cup undone,
                    ~(id + Len(buffer) + Len(queue) <= accepted)
             PROVE  FALSE
  OBVIOUS
<1>1. /\ Len(buffer) \in Nat /\ Len(queue) \in Nat /\ accepted \in Nat
      /\ id \in Nat /\ id + Len(queue) <= accepted
      /\ \A k \in 1..Len(buffer) : buffer[k].id \in Nat
  <2>1. RowsOK
    BY RowsAreOK
  <2> QED
    BY <2>1, MessagesTyped DEF TypeOK, RowsOK, OrderInv, NoneAhead
<1>2. PICK k \in 1..Len(buffer) : id + Len(buffer) + Len(queue) = accepted + k
  <2>1. /\ (id + Len(buffer) + Len(queue)) - accepted \in 1..Len(buffer)
        /\ id + Len(buffer) + Len(queue)
              = accepted + ((id + Len(buffer) + Len(queue)) - accepted)
    BY <1>1
  <2> QED
    BY <2>1
<1>3. buffer[k].id + Len(buffer) + Len(queue) = accepted + k
  BY BufferIds
<1>4. buffer[k].id = id
  BY <1>1, <1>2, <1>3
<1>5. Fresh(buffer[k]) /\ buffer[k].id \notin failed
  BY DEF OrderInv, Waiting, Active
<1> QED
  BY <1>4, <1>5 DEF Fresh

\* Taking a message off the queue keeps the ids in a row.
LEMMA GetConsecutive ==
  ASSUME TypeOK, Consecutive(buffer, queue), queue # <<>>
  PROVE  /\ Consecutive(Append(buffer, Head(queue)), Tail(queue))
         /\ Len(Append(buffer, Head(queue))) + Len(Tail(queue))
               = Len(buffer) + Len(queue)
<1> DEFINE buf == Append(buffer, Head(queue))
           q == Tail(queue)
<1>1. buffer \in Seq(Msg) /\ queue \in Seq(Msg)
  BY DEF TypeOK
<1>2. /\ Len(buffer) \in Nat /\ Len(queue) \in Nat /\ Len(queue) > 0
      /\ Len(buf) = Len(buffer) + 1
      /\ Len(q) + 1 = Len(queue) /\ Len(q) \in Nat
      /\ \A k \in 1..Len(buffer) : buf[k] = buffer[k]
      /\ buf[Len(buffer) + 1] = queue[1]
      /\ \A k \in 1..Len(q) : q[k] = queue[k + 1]
  BY <1>1
<1>3. /\ \A k \in 1..Len(buffer) : buffer[k].id \in Nat
      /\ \A k \in 1..Len(queue) : queue[k].id \in Nat
      /\ accepted \in Nat /\ born \in Nat
  BY MessagesTyped DEF TypeOK
<1>4. /\ Len(buffer) + Len(queue) + born <= accepted
      /\ \A k \in 1..Len(buffer) :
            buffer[k].id + Len(buffer) + Len(queue) = accepted + k
      /\ \A k \in 1..Len(queue) : queue[k].id + Len(queue) = accepted + k
  BY DEF Consecutive
<1> HIDE DEF buf, q
<1>5. Len(buf) + Len(q) + born <= accepted
  BY <1>2, <1>3, <1>4
<1>6. ASSUME NEW k \in 1..Len(buf)
      PROVE  buf[k].id + Len(buf) + Len(q) = accepted + k
  <2> DEFINE v == buf[k].id
  <2>1. CASE k \in 1..Len(buffer)
    <3>1. v = buffer[k].id
      BY <1>2, <2>1
    <3>2. v + Len(buffer) + Len(queue) = accepted + k
      BY <1>4, <2>1, <3>1
    <3>3. v \in Nat
      BY <1>3, <2>1, <3>1
    <3> HIDE DEF v
    <3>4. /\ Len(buffer) \in Nat /\ Len(queue) \in Nat /\ Len(q) \in Nat
          /\ Len(buf) = Len(buffer) + 1 /\ Len(q) + 1 = Len(queue)
          /\ accepted \in Nat /\ k \in Nat
      BY <1>2, <1>3
    <3>5. v + Len(buf) + Len(q) = accepted + k
      BY <3>2, <3>3, <3>4
    <3> QED
      BY <3>5 DEF v
  <2>2. CASE k = Len(buffer) + 1
    <3>1. v = queue[1].id /\ 1 \in 1..Len(queue)
      BY <1>2, <2>2
    <3>2. v + Len(queue) = accepted + 1
      BY <1>4, <3>1
    <3>3. v \in Nat
      BY <1>3, <3>1
    <3> HIDE DEF v
    <3>4. /\ Len(buffer) \in Nat /\ Len(queue) \in Nat /\ Len(q) \in Nat
          /\ Len(buf) = Len(buffer) + 1 /\ Len(q) + 1 = Len(queue)
          /\ accepted \in Nat
      BY <1>2, <1>3
    <3>5. v + Len(buf) + Len(q) = accepted + (Len(buffer) + 1)
      BY <3>2, <3>3, <3>4
    <3> QED
      BY <2>2, <3>5 DEF v
  <2> QED
    BY <1>2, <2>1, <2>2
<1>7. ASSUME NEW k \in 1..Len(q)
      PROVE  q[k].id + Len(q) = accepted + k
  <2>1. k + 1 \in 1..Len(queue)
    BY <1>2
  <2>2. queue[k + 1].id + Len(queue) = accepted + (k + 1) /\ queue[k + 1].id \in Nat
    BY <1>3, <1>4, <2>1
  <2> DEFINE v == q[k].id
  <2>3. v = queue[k + 1].id
    BY <1>2
  <2>4. v \in Nat /\ v + Len(queue) = accepted + (k + 1)
    BY <2>2, <2>3
  <2> HIDE DEF v
  <2>5. /\ Len(queue) \in Nat /\ Len(q) \in Nat /\ Len(q) + 1 = Len(queue)
        /\ accepted \in Nat /\ k \in Nat
    BY <1>2, <1>3
  <2>6. v + Len(q) = accepted + k
    BY <2>4, <2>5
  <2> QED
    BY <2>6 DEF v
<1>8. Consecutive(buf, q)
  BY <1>5, <1>6, <1>7 DEF Consecutive
<1> QED
  BY <1>2, <1>8 DEF buf, q

\* Every step keeps the order.
LEMMA OrderStep ==
  ASSUME TypeOK, TypeOK', OrderInv, [Next]_vars
  PROVE  OrderInv'
<1>a. table = table' /\ tx' = tx => \A m \in Months : table'[m] \o tx'[m] = Rows[m]
  BY DEF Rows
<1>b. table' = table /\ tx' = tx /\ undone' = undone => Shrinks
  BY <1>a, SameRowsShrink
<1>c. table' = table /\ tx' = [m \in Months |-> <<>>] /\ undone' = undone => Shrinks
  <2> SUFFICES ASSUME table' = table, tx' = [m \in Months |-> <<>>], undone' = undone
               PROVE  Shrinks
    OBVIOUS
  <2>1. tx' = [m \in Months |-> IF m \in Months THEN <<>> ELSE tx[m]]
    OBVIOUS
  <2> DEFINE D == Months
  <2>2. D \in SUBSET Months
    OBVIOUS
  <2> QED
    BY <2>1, EmptyTxShrinks
<1>d. ASSUME cur \in Months, table' = table, tx' = [tx EXCEPT ![cur] = <<>>],
             undone' \subseteq undone \cup Known
      PROVE  Shrinks
  <2>1. tx \in [Months -> Seq(Row)]
    BY DEF TypeOK
  <2>2. tx' = [m \in Months |-> IF m \in {cur} THEN <<>> ELSE tx[m]]
    BY <1>d, <2>1
  <2>3. {cur} \in SUBSET Months
    BY <1>d
  <2> QED
    BY <1>d, <2>2, <2>3, EmptyTxShrinks
<1>e. table' = table /\ tx' = tx /\ undone' = undone => Rows' = Rows /\ Known' = Known
  BY DEF Rows, Known
<1>1. CASE Enqueue
  <2>1. CASE queue' = queue /\ accepted' = accepted
    BY <1>1, <1>e, <2>1
       DEF Enqueue, coroutine, database, ghost, OrderInv, FlowInv, Consecutive,
           NoneAhead, Fresh, Waiting, Active, Sorted
  <2>2. CASE /\ \E now \in Months :
                   queue' = Append(queue, [id |-> accepted + 1, month |-> now])
             /\ accepted' = accepted + 1
    <3>1. PICK msg \in Msg : queue' = Append(queue, msg) /\ msg.id = accepted + 1
      <4>1. PICK now \in Months :
               queue' = Append(queue, [id |-> accepted + 1, month |-> now])
        BY <2>2
      <4>2. accepted \in Nat
        BY DEF TypeOK
      <4>3. [id |-> accepted + 1, month |-> now] \in Msg
        BY <4>2 DEF Msg
      <4> QED
        BY <4>1, <4>3
    <3>2. /\ UNCHANGED <<buffer, pc, final, todo, cur, pos, inserted, failed, born>>
          /\ pc # "down" /\ Rows' = Rows /\ Known' = Known /\ undone' = undone
      BY <1>1, <1>e DEF Enqueue, coroutine, database, ghost
    <3>3. /\ queue \in Seq(Msg)
          /\ accepted \in Nat /\ born \in Nat /\ Len(buffer) \in Nat
      BY MessagesTyped DEF TypeOK
    <3>4. /\ Len(queue) \in Nat /\ Len(queue') = Len(queue) + 1
          /\ \A k \in 1..Len(queue) : queue'[k] = queue[k]
          /\ queue'[Len(queue) + 1] = msg
      BY <3>1, <3>3
    <3>5. /\ Len(buffer) + Len(queue) + born <= accepted
          /\ \A k \in 1..Len(buffer) :
                buffer[k].id + Len(buffer) + Len(queue) = accepted + k
          /\ \A k \in 1..Len(queue) : queue[k].id + Len(queue) = accepted + k
      BY <3>2 DEF OrderInv, Consecutive
    <3>6. ASSUME NEW k \in 1..Len(buffer)
          PROVE  buffer[k].id + Len(buffer) + (Len(queue) + 1) = (accepted + 1) + k
      <4> DEFINE v == buffer[k].id
      <4>1. v \in Nat
        BY MessagesTyped
      <4>2. v + Len(buffer) + Len(queue) = accepted + k
        BY <3>5
      <4> HIDE DEF v
      <4>3. /\ Len(buffer) \in Nat /\ Len(queue) \in Nat /\ accepted \in Nat
            /\ k \in Nat
        BY <3>3, <3>4
      <4>4. v + Len(buffer) + (Len(queue) + 1) = (accepted + 1) + k
        BY <4>1, <4>2, <4>3
      <4> QED
        BY <4>4 DEF v
    <3>7. ASSUME NEW k \in 1..(Len(queue) + 1)
          PROVE  queue'[k].id + (Len(queue) + 1) = (accepted + 1) + k
      <4> DEFINE v == queue'[k].id
      <4>1. CASE k \in 1..Len(queue)
        <5>1. v = queue[k].id
          BY <3>4, <4>1
        <5>2. v \in Nat /\ v + Len(queue) = accepted + k
          BY <3>5, <4>1, <5>1, MessagesTyped
        <5> HIDE DEF v
        <5>3. v + (Len(queue) + 1) = (accepted + 1) + k
          BY <3>3, <3>4, <5>2
        <5> QED
          BY <5>3 DEF v
      <4>2. CASE k = Len(queue) + 1
        <5>1. v = accepted + 1
          BY <3>1, <3>4, <4>2
        <5> HIDE DEF v
        <5>2. v + (Len(queue) + 1) = (accepted + 1) + k
          BY <3>3, <3>4, <4>2, <5>1
        <5> QED
          BY <5>2 DEF v
      <4> QED
        BY <3>4, <4>1, <4>2
    <3>8. Len(buffer) + (Len(queue) + 1) + born <= accepted + 1
      BY <3>3, <3>4, <3>5
    <3>9. Consecutive(buffer, queue)'
      BY <2>2, <3>2, <3>4, <3>6, <3>7, <3>8 DEF Consecutive
    <3>10. NoneAhead'
      <4>1. Known \cup failed \cup undone \in SUBSET Nat
        BY RowsAreOK DEF TypeOK, RowsOK
      <4> QED
        BY <2>2, <3>2, <3>3, <3>4, <4>1 DEF OrderInv, NoneAhead
    <3> QED
      BY <3>2, <3>9, <3>10
         DEF OrderInv, FlowInv, Fresh, Waiting, Active, Sorted
  <2> QED
    BY <1>1, <2>1, <2>2 DEF Enqueue
<1>2. CASE Stop
  BY <1>2, <1>e
     DEF Stop, coroutine, database, ghost, OrderInv, FlowInv, Consecutive,
         NoneAhead, Fresh, Waiting, Active, Sorted
<1>3. ASSUME NEW buf \in Seq(Msg), NEW q \in Seq(Msg), Restarts(buf, q), pc = "get",
             Consecutive(buf, q), Len(buf) + Len(q) = Len(buffer) + Len(queue),
             UNCHANGED <<database, accepted, ghost, born>>
      PROVE  OrderInv'
  <2>1. Rows' = Rows /\ Known' = Known /\ failed' = failed /\ undone' = undone
    BY <1>3, <1>e DEF database, ghost
  <2>2. Sorted'
    BY <2>1 DEF OrderInv, Sorted
  <2>3. \A id \in Known' \cup failed' \cup undone' :
           id + Len(buf) + Len(q) <= accepted
    <3>1. Known \cup failed \cup undone \in SUBSET Nat
      BY RowsAreOK DEF TypeOK, RowsOK
    <3>2. \A id \in Known \cup failed \cup undone :
             id + Len(buffer) + Len(queue) <= accepted
      BY <1>3, GetSettled
    <3>3. /\ Len(buf) \in Nat /\ Len(q) \in Nat
          /\ Len(buffer) \in Nat /\ Len(queue) \in Nat
      <4>1. Len(buf) \in Nat /\ Len(q) \in Nat
        OBVIOUS
      <4> QED
        BY <4>1, MessagesTyped
    <3>4. Len(buf) + Len(q) = Len(buffer) + Len(queue)
      BY <1>3
    <3>5. ASSUME NEW id \in Known \cup failed \cup undone
          PROVE  id + Len(buf) + Len(q) <= accepted
      <4> DEFINE n == Len(buffer)
                 p == Len(queue)
                 x == Len(buf)
                 y == Len(q)
      <4>1. n \in Nat /\ p \in Nat /\ x \in Nat /\ y \in Nat /\ x + y = n + p
        BY <3>3, <3>4
      <4>2. id \in Nat /\ accepted \in Nat
        BY <3>1 DEF TypeOK
      <4>3. id + n + p <= accepted
        BY <3>2
      <4> HIDE DEF n, p, x, y
      <4>4. id + x + y <= accepted
        BY <4>1, <4>2, <4>3
      <4> QED
        BY <4>4 DEF x, y
    <3> QED
      BY <2>1, <3>5
  <2> QED
    BY <1>3, <2>2, <2>3, RestartsOrder
<1>4. CASE Get
  <2> DEFINE buf == Append(buffer, Head(queue))
             q == Tail(queue)
  <2>1. buf \in Seq(Msg) /\ q \in Seq(Msg) /\ Restarts(buf, q)
    BY <1>4, GetRestarts
  <2>2. Consecutive(buf, q) /\ Len(buf) + Len(q) = Len(buffer) + Len(queue)
    BY <1>4, GetConsecutive DEF Get, OrderInv
  <2> HIDE DEF buf, q
  <2> QED
    BY <1>3, <1>4, <2>1, <2>2 DEF Get
<1>5. CASE Timeout
  <2>1. buffer \in Seq(Msg) /\ queue \in Seq(Msg) /\ Restarts(buffer, queue)
    BY <1>5, TimeoutRestarts DEF TypeOK
  <2>2. Consecutive(buffer, queue)
    BY <1>5 DEF Timeout, OrderInv
  <2> QED
    BY <1>3, <1>5, <2>1, <2>2 DEF Timeout
<1>6. CASE Open
  BY <1>6, <1>e
     DEF Open, ghost, OrderInv, FlowInv, Consecutive, NoneAhead, Fresh, Waiting,
         Active, Sorted
<1>7. CASE OpenFails
  BY <1>7, <1>b, BatchEndsOrder DEF OpenFails, BatchFails, database
<1>8. CASE DirFails
  BY <1>8, <1>b, EmptiedOrder DEF DirFails, NoFlush, database
<1>9. CASE InsertRow
  <2>1. PICK i \in DOMAIN buffer :
           /\ NextRow(i)
           /\ tx' = [tx EXCEPT ![cur] =
                 Append(@, [id |-> buffer[i].id, fts |-> TRUE])]
           /\ pos' = i
    BY <1>9 DEF InsertRow
  <2>2. cur \in Months
    BY <2>1 DEF NextRow, TypeOK
  <2>3. [id |-> buffer[i].id, fts |-> TRUE] \in Row
    BY <2>2, RowsTyped
  <2> DEFINE r == [id |-> buffer[i].id, fts |-> TRUE]
  <2>4. r \in Row /\ r.id = buffer[i].id /\ tx' = [tx EXCEPT ![cur] = Append(@, r)]
    BY <2>1, <2>3
  <2> HIDE DEF r
  <2> QED
    BY <1>9, <2>1, <2>4, InsertedOrder DEF InsertRow, ghost
<1>10. CASE RowFails
  BY <1>10, <1>b, TriedOrder DEF RowFails, database
<1>11. CASE FtsFails
  <2>1. PICK i \in DOMAIN buffer :
           /\ NextRow(i)
           /\ tx' = [tx EXCEPT ![cur] =
                 Append(@, [id |-> buffer[i].id, fts |-> FALSE])]
           /\ pos' = i
    BY <1>11 DEF FtsFails
  <2>2. cur \in Months
    BY <2>1 DEF NextRow, TypeOK
  <2>3. [id |-> buffer[i].id, fts |-> FALSE] \in Row
    BY <2>2, RowsTyped
  <2> DEFINE r == [id |-> buffer[i].id, fts |-> FALSE]
  <2>4. r \in Row /\ r.id = buffer[i].id /\ tx' = [tx EXCEPT ![cur] = Append(@, r)]
    BY <2>1, <2>3
  <2> HIDE DEF r
  <2> QED
    BY <1>11, <2>1, <2>4, InsertedOrder DEF FtsFails
<1>12. CASE RollsBack
  <2>1. cur \in Months
    BY <1>12 DEF RollsBack, NextRow, TypeOK
  <2>2. IdsIn(tx[cur]) \subseteq Known
    <3> DEFINE a == table[cur]
               b == tx[cur]
    <3>1. a \in Seq(Row) /\ b \in Seq(Row)
      BY <2>1 DEF TypeOK
    <3> HIDE DEF a, b
    <3>2. IdsIn(b) \subseteq IdsIn(a \o b)
      BY <3>1, IdsConcat
    <3>3. a \o b = Rows[cur]
      BY <2>1 DEF a, b, Rows
    <3> QED
      BY <2>1, <3>2, <3>3 DEF b, Known
  <2>3. Shrinks
    BY <1>12, <1>d, <2>1, <2>2 DEF RollsBack
  <2> QED
    BY <1>12, <2>3, TriedOrder DEF RollsBack
<1>13. CASE Commit
  <2>1. cur \in Months
    BY <1>13 DEF Commit, LoopOver, TypeOK
  <2>2. \A m \in Months : table'[m] \o tx'[m] = Rows[m]
    <3> SUFFICES ASSUME NEW m \in Months PROVE table'[m] \o tx'[m] = Rows[m]
      OBVIOUS
    <3>1. table \in [Months -> Seq(Row)] /\ tx \in [Months -> Seq(Row)]
      BY DEF TypeOK
    <3>2. CASE m = cur
      <4>1. table'[m] = table[cur] \o tx[cur] /\ tx'[m] = <<>>
        BY <1>13, <2>1, <3>1, <3>2 DEF Commit
      <4>2. Rows[m] \in Seq(Row) /\ Rows[m] = table[cur] \o tx[cur]
        BY <3>2, RowsAreOK DEF RowsOK
      <4>3. Rows[m] \o <<>> = Rows[m]
        BY <4>2, ConcatEmptySeq
      <4> QED
        BY <4>1, <4>2, <4>3
    <3>3. CASE m # cur
      BY <1>13, <3>1, <3>3 DEF Commit, Rows
    <3> QED
      BY <3>2, <3>3
  <2>3. Shrinks
    BY <1>13, <2>2, SameRowsShrink DEF Commit, ghost
  <2> QED
    BY <1>13, <2>3, BatchEndsOrder DEF Commit, LoopOver, ghost
<1>14. CASE CommitFails
  <2>1. cur \in Months
    BY <1>14 DEF CommitFails, LoopOver, TypeOK
  <2>2. Shrinks
    BY <1>14, <1>b, <1>d, <2>1 DEF CommitFails
  <2> QED
    BY <1>14, <2>2, BatchEndsOrder DEF CommitFails, LoopOver, BatchFails
<1>15. CASE Close
  <2>1. Shrinks
    BY <1>15, <1>c DEF Close, ghost
  <2>2. buffer = <<>> /\ final = FALSE /\ todo = {} /\ pos = 0 /\ inserted = 0
    BY <1>15 DEF Close, OrderInv, FlowInv, TypeOK
  <2> QED
    BY <1>15, <2>1, <2>2, EmptiedOrder DEF Close, ghost
<1>16. CASE Exit
  <2>1. Shrinks
    BY <1>16, <1>c DEF Exit
  <2> QED
    BY <1>16, <2>1, EmptiedOrder DEF Exit, NoFlush
<1>17. CASE Restart
  <2>1. /\ pc = "down" /\ pc' = "get" /\ born' = accepted /\ accepted' = accepted
        /\ UNCHANGED <<queue, buffer, final, todo, cur, pos, inserted, failed>>
        /\ undone' = undone /\ Rows' = Rows /\ Known' = Known
    BY <1>17, <1>e DEF Restart, database, ghost
  <2>2. buffer = <<>> /\ queue = <<>>
    BY <2>1 DEF OrderInv, FlowInv
  <2>3. 1..Len(buffer) = {} /\ 1..Len(queue) = {} /\ Len(buffer) = 0 /\ Len(queue) = 0
    BY <2>2
  <2>4. Consecutive(buffer, queue)'
    <3>1. 0 + 0 + accepted <= accepted
      BY DEF TypeOK
    <3> QED
      BY <2>1, <2>3, <3>1 DEF Consecutive
  <2> QED
    BY <2>1, <2>3, <2>4 DEF OrderInv, FlowInv, NoneAhead, Sorted
<1>18. CASE UNCHANGED vars
  BY <1>18, <1>e
     DEF vars, coroutine, database, ghost, OrderInv, FlowInv, Consecutive,
         NoneAhead, Fresh, Waiting, Active, Sorted
<1> QED
  BY <1>1, <1>2, <1>4, <1>5, <1>6, <1>7, <1>8, <1>9, <1>10, <1>11, <1>12, <1>13,
     <1>14, <1>15, <1>16, <1>17, <1>18 DEF Next

LEMMA InitOrder == Init => OrderInv
<1> SUFFICES ASSUME Init PROVE OrderInv
  OBVIOUS
<1>1. /\ queue = <<>> /\ buffer = <<>> /\ pc = "get" /\ final = FALSE /\ todo = {}
      /\ pos = 0 /\ inserted = 0 /\ accepted = 0 /\ born = 0
      /\ failed = {} /\ undone = {}
  BY DEF Init
<1>2. Len(<<>>) = 0 /\ 1..0 = {} /\ <<>> \o <<>> = <<>>
  OBVIOUS
<1>3. \A m \in Months : Rows[m] = <<>>
  <2>1. <<>> \o <<>> = <<>>
    BY <1>2
  <2> QED
    BY <2>1 DEF Init, Rows
<1>4. Known = {}
  <2>1. IdsIn(<<>>) = {}
    BY DEF IdsIn
  <2> QED
    BY <1>3, <2>1 DEF Known
<1> QED
  BY <1>1, <1>2, <1>3, <1>4 DEF OrderInv, FlowInv, Consecutive, NoneAhead, Sorted

LEMMA OrderHolds == Spec => [](TypeOK /\ OrderInv)
<1>1. Init => TypeOK /\ OrderInv
  <2>1. Init => TypeOK
    BY InitTyped
  <2> QED
    BY <2>1, InitOrder
<1>2. TypeOK /\ OrderInv /\ [Next]_vars => TypeOK' /\ OrderInv'
  BY TypeStep, OrderStep
<1> QED
  BY <1>1, <1>2, PTL DEF Spec

\* A month's rows are in acceptance order, each message at most once, across
\* failed commits, rollbacks and restarts: RowsInOrder.
THEOREM Order == Spec => []RowsInOrder
BY OrderHolds, OrderGivesRowsInOrder, PTL

-----------------------------------------------------------------------------
(***************************************************************************)
(* No loss without a trace.  Accounted is not inductive: it does not say   *)
(* that a row the thread has tried is in the transaction a commit is about *)
(* to publish, was skipped, or went with a rollback.                       *)
(***************************************************************************)

Traced == IdsIn(tx[cur]) \cup skipped \cup undone

TriedInv ==
    pc \in {"open", "insert"} =>
        \A k \in Batch : k <= pos => buffer[k].id \in Traced

\* Where an accepted message can be.
Places == Volatile \cup Indexed \cup skipped \cup failed \cup undone \cup crashed

\* Between two flushes, whatever is in memory is on its way.
LEMMA RestartsVolatile ==
  ASSUME NEW buf \in Seq(Msg), NEW q \in Seq(Msg), Restarts(buf, q)
  PROVE  IdsIn(buf) \cup IdsIn(q) \subseteq Volatile'
<1>1. IdsIn(buffer') \cup IdsIn(queue') = IdsIn(buf) \cup IdsIn(q)
  <2>1. IdsIn(buf \o q) = IdsIn(buf) \cup IdsIn(q)
    BY IdsConcat
  <2>2. IdsIn(<<>>) = {}
    BY DEF IdsIn
  <2>3. CASE buffer' = buf /\ queue' = q
    BY <2>3
  <2>4. CASE buffer' = buf \o q /\ queue' = <<>>
    BY <2>1, <2>2, <2>4
  <2> QED
    BY <2>3, <2>4 DEF Restarts
<1>2. buffer' \in Seq(Msg)
  <2>1. buf \o q \in Seq(Msg)
    OBVIOUS
  <2> QED
    BY <2>1 DEF Restarts
<1>3. DOMAIN buffer' = 1..Len(buffer')
  BY <1>2
<1>4. IdsIn(buffer') \subseteq Unsettled'
  <2> SUFFICES ASSUME NEW i \in DOMAIN buffer'
               PROVE  buffer'[i].id \in Unsettled'
    BY DEF IdsIn
  <2>1. pc' = "get" \/ buffer'[i].month \in todo' \cup {cur'}
    BY <1>3 DEF Restarts
  <2> QED
    BY <2>1 DEF Unsettled, IdsAt
<1>5. IdsIn(queue') \subseteq Volatile'
  BY DEF IdsIn, Volatile
<1> QED
  BY <1>1, <1>4, <1>5 DEF Volatile

\* The end of a batch settles the batch and nothing else.
LEMMA BatchEndsVolatile ==
  ASSUME TypeOK, pc \in {"open", "insert"}, MonthDone
  PROVE  Volatile \subseteq Volatile' \cup IdsAt(Batch)
<1>1. queue \in Seq(Msg) /\ todo \in SUBSET Months /\ <<>> \in Seq(Msg)
  BY DEF TypeOK
<1>2. CASE NextMonth
  BY <1>2 DEF NextMonth, Volatile, Unsettled, IdsAt, Batch
<1>3. CASE todo = {} /\ Restarts(<<>>, queue)
  <2>1. IdsIn(queue) \subseteq Volatile'
    BY <1>1, <1>3, RestartsVolatile
  <2>2. Unsettled \subseteq IdsAt(Batch)
    BY <1>3 DEF Unsettled, IdsAt, Batch
  <2> QED
    BY <2>1, <2>2 DEF Volatile, IdsIn
<1> QED
  BY <1>1, <1>2, <1>3, BatchEnds

\* A batch that begins has no row tried.
LEMMA UntriedTraced ==
  ASSUME TypeOK, TypeOK', pos' = 0
  PROVE  TriedInv'
<1>1. buffer' \in Seq(Msg)
  BY DEF TypeOK
<1>2. \A k \in DOMAIN buffer' : k > 0
  BY <1>1
<1>3. \A k \in DOMAIN buffer' : k \in Nat
  BY <1>1
<1> QED
  BY <1>2, <1>3 DEF TriedInv, Batch

LEMMA EndsUntried ==
  ASSUME TypeOK, TypeOK', MonthDone
  PROVE  TriedInv'
<1>1. queue \in Seq(Msg) /\ todo \in SUBSET Months
  BY DEF TypeOK
<1>2. pos' = 0
  BY <1>1, BatchEnds DEF NextMonth, Restarts
<1> QED
  BY <1>2, UntriedTraced

\* One more row tried: it has its trace if the step gave it one.
LEMMA TriedTraced ==
  ASSUME TypeOK, TriedInv, NEW i \in DOMAIN buffer, NextRow(i), pos' = i,
         buffer' = buffer, cur' = cur,
         buffer[i].id \in Traced',
         \A k \in Batch : buffer[k].id \in Traced => buffer[k].id \in Traced'
  PROVE  TriedInv'
<1>1. DOMAIN buffer \subseteq Nat /\ pos \in Nat
  BY DEF TypeOK
<1>2. pc = "insert"
  BY DEF NextRow
<1>3. Batch' = Batch /\ Batch \subseteq Nat
  BY <1>1 DEF Batch
<1>4. ASSUME NEW k \in Batch, k <= i PROVE k <= pos \/ k = i
  BY <1>1, <1>3, <1>4 DEF NextRow
<1>5. \A k \in Batch : k <= pos => buffer[k].id \in Traced
  BY <1>2 DEF TriedInv
<1> QED
  BY <1>3, <1>4, <1>5 DEF TriedInv

\* The messages of a run do not move while the thread works on a batch.
LEMMA SameVolatile ==
  UNCHANGED <<queue, buffer, todo, cur>> /\ (pc = "get" => pc' = "get")
     => Volatile \subseteq Volatile'
BY DEF Volatile, Unsettled, IdsAt

\* What a commit publishes stays published.
LEMMA CommitPublishes ==
  ASSUME TypeOK, cur \in Months, table' = [table EXCEPT ![cur] = @ \o tx[cur]]
  PROVE  /\ Indexed' = Indexed \cup IdsIn(tx[cur])
         /\ Searchable' = Searchable \cup FtsIds(tx[cur])
<1> DEFINE a == table[cur]
           b == tx[cur]
<1>1. a \in Seq(Row) /\ b \in Seq(Row)
  BY DEF TypeOK
<1>2. /\ table'[cur] = a \o b
      /\ \A m \in Months : m # cur => table'[m] = table[m]
  BY DEF TypeOK
<1> HIDE DEF a, b
<1>3. IdsIn(a \o b) = IdsIn(a) \cup IdsIn(b) /\ FtsIds(a \o b) = FtsIds(a) \cup FtsIds(b)
  BY <1>1, IdsConcat, FtsConcat
<1>4. /\ IdsIn(table'[cur]) = IdsIn(a) \cup IdsIn(b)
      /\ FtsIds(table'[cur]) = FtsIds(a) \cup FtsIds(b)
  BY <1>2, <1>3
<1>5. \A m \in Months : m # cur => /\ IdsIn(table'[m]) = IdsIn(table[m])
                                   /\ FtsIds(table'[m]) = FtsIds(table[m])
  BY <1>2
<1>6. Indexed' = Indexed \cup IdsIn(b)
  BY <1>4, <1>5 DEF Indexed, a
<1>7. Searchable' = Searchable \cup FtsIds(b)
  BY <1>4, <1>5 DEF Searchable, a
<1> QED
  BY <1>6, <1>7 DEF b

\* A row that is inserted joins the ids of its transaction.
LEMMA RowInserted ==
  ASSUME TypeOK, cur \in Months, NEW i \in DOMAIN buffer, NEW f \in BOOLEAN,
         tx' = [tx EXCEPT ![cur] = Append(@, [id |-> buffer[i].id, fts |-> f])]
  PROVE  /\ IdsIn(tx'[cur]) = IdsIn(tx[cur]) \cup {buffer[i].id}
         /\ FtsIds(tx'[cur]) = FtsIds(tx[cur]) \cup (IF f THEN {buffer[i].id} ELSE {})
<1> DEFINE r == [id |-> buffer[i].id, fts |-> f]
           a == tx[cur]
<1>1. r \in Row /\ r.id = buffer[i].id
  BY RowsTyped
<1>2. IF f THEN r.fts ELSE ~r.fts
  OBVIOUS
<1>3. tx'[cur] = Append(a, r)
  <2>1. tx \in [Months -> Seq(Row)]
    BY DEF TypeOK
  <2> QED
    BY <2>1
<1>4. a \in Seq(Row)
  BY DEF TypeOK
<1> HIDE DEF r, a
<1>5. IdsIn(Append(a, r)) = IdsIn(a) \cup {r.id}
  BY <1>1, <1>4, IdsAppend
<1>6. FtsIds(Append(a, r)) = FtsIds(a) \cup (IF r.fts THEN {r.id} ELSE {})
  BY <1>1, <1>4, FtsAppend
<1>7. IdsIn(tx'[cur]) = IdsIn(a) \cup {buffer[i].id}
  BY <1>1, <1>3, <1>5
<1>8. FtsIds(tx'[cur]) = FtsIds(a) \cup (IF f THEN {buffer[i].id} ELSE {})
  <2>1. CASE f
    BY <1>1, <1>2, <1>3, <1>6, <2>1
  <2>2. CASE ~f
    BY <1>1, <1>2, <1>3, <1>6, <2>2
  <2> QED
    BY <2>1, <2>2
<1> QED
  BY <1>7, <1>8 DEF a

\* Every step keeps the account.
LEMMA AccountedStep ==
  ASSUME TypeOK, TypeOK', OrderInv, OrderInv', Accounted, TriedInv, [Next]_vars
  PROVE  Accounted' /\ TriedInv'
<1>a. 1..accepted \subseteq Places
  BY DEF Accounted, Places
<1>b. ASSUME accepted' = accepted, Places \subseteq Places'
      PROVE  Accounted'
  BY <1>a, <1>b DEF Accounted, Places
<1>c. table' = table => Indexed' = Indexed
  BY DEF Indexed
<1>1. CASE Enqueue
  <2>1. UNCHANGED <<buffer, pc, todo, cur, pos, tx, table, skipped, failed, undone,
                    crashed>>
    BY <1>1 DEF Enqueue, coroutine, database, ghost
  <2>2. TriedInv'
    BY <2>1 DEF TriedInv, Batch, Traced
  <2>3. CASE queue' = queue /\ accepted' = accepted
    <3>1. Places' = Places
      BY <1>c, <2>1, <2>3 DEF Places, Volatile, Unsettled, IdsAt
    <3> QED
      BY <1>b, <2>2, <2>3, <3>1
  <2>4. CASE /\ \E now \in Months :
                   queue' = Append(queue, [id |-> accepted + 1, month |-> now])
             /\ accepted' = accepted + 1
    <3>1. PICK now \in Months :
             queue' = Append(queue, [id |-> accepted + 1, month |-> now])
      BY <2>4
    <3> DEFINE msg == [id |-> accepted + 1, month |-> now]
    <3>2. accepted \in Nat /\ queue \in Seq(Msg)
      BY DEF TypeOK
    <3>3. msg \in Msg /\ msg.id = accepted + 1 /\ queue' = Append(queue, msg)
      BY <3>1, <3>2 DEF Msg
    <3> HIDE DEF msg
    <3>4. IdsIn(queue') = IdsIn(queue) \cup {accepted + 1}
      BY <3>2, <3>3, IdsAppend
    <3>5. Volatile' = Volatile \cup {accepted + 1}
      BY <2>1, <3>4 DEF Volatile, Unsettled, IdsAt, IdsIn
    <3>6. Places \cup {accepted + 1} \subseteq Places'
      BY <1>c, <2>1, <3>5 DEF Places
    <3>7. 1..(accepted + 1) = 1..accepted \cup {accepted + 1}
      BY <3>2
    <3> QED
      BY <1>a, <2>2, <2>4, <3>6, <3>7 DEF Accounted, Places
  <2> QED
    BY <1>1, <2>3, <2>4 DEF Enqueue
<1>2. CASE Stop
  BY <1>2
     DEF Stop, coroutine, database, ghost, Accounted, Indexed, Volatile, Unsettled,
         IdsAt, TriedInv, Batch, Traced
<1>3. CASE Get
  <2> DEFINE buf == Append(buffer, Head(queue))
             q == Tail(queue)
  <2>1. buf \in Seq(Msg) /\ q \in Seq(Msg) /\ Restarts(buf, q)
    BY <1>3, GetRestarts
  <2>2. IdsIn(buf) = IdsIn(buffer) \cup {Head(queue).id}
    <3>1. buffer \in Seq(Msg) /\ queue \in Seq(Msg) /\ queue # <<>>
      BY <1>3 DEF Get, TypeOK
    <3>2. Head(queue) \in Msg
      BY <3>1
    <3> QED
      BY <3>1, <3>2, IdsAppend
  <2>3. IdsIn(queue) = {Head(queue).id} \cup IdsIn(q)
    <3>1. queue \in Seq(Msg) /\ queue # <<>>
      BY <1>3 DEF Get, TypeOK
    <3> QED
      BY <3>1, IdsTail
  <2> HIDE DEF buf, q
  <2>4. Volatile \subseteq IdsIn(buf) \cup IdsIn(q)
    BY <2>2, <2>3 DEF Volatile, Unsettled, IdsAt, IdsIn
  <2>5. Volatile \subseteq Volatile'
    BY <2>1, <2>4, RestartsVolatile
  <2>6. Places \subseteq Places' /\ accepted' = accepted
    BY <1>3, <1>c, <2>5 DEF Get, Places, database, ghost
  <2>7. TriedInv'
    BY <2>1, UntriedTraced DEF Restarts
  <2> QED
    BY <1>b, <2>6, <2>7
<1>4. CASE Timeout
  <2>1. buffer \in Seq(Msg) /\ queue \in Seq(Msg) /\ Restarts(buffer, queue)
    BY <1>4, TimeoutRestarts DEF TypeOK
  <2>2. Volatile \subseteq IdsIn(buffer) \cup IdsIn(queue)
    BY DEF Volatile, Unsettled, IdsAt, IdsIn
  <2>3. Volatile \subseteq Volatile'
    BY <2>1, <2>2, RestartsVolatile
  <2>4. Places \subseteq Places' /\ accepted' = accepted
    BY <1>4, <1>c, <2>3 DEF Timeout, Places, database, ghost
  <2>5. TriedInv'
    BY <2>1, UntriedTraced DEF Restarts
  <2> QED
    BY <1>b, <2>4, <2>5
<1>5. CASE Open
  <2>1. Places \subseteq Places'
    BY <1>5, <1>c, SameVolatile DEF Open, Places, ghost
  <2>2. TriedInv'
    BY <1>5 DEF Open, TriedInv, Batch, Traced, ghost
  <2> QED
    BY <1>b, <1>5, <2>1, <2>2 DEF Open
<1>6. CASE OpenFails
  <2>1. MonthDone /\ failed' = failed \cup IdsAt(Batch) /\ pc = "open"
    BY <1>6 DEF OpenFails, BatchFails
  <2>2. Volatile \subseteq Volatile' \cup IdsAt(Batch)
    BY <2>1, BatchEndsVolatile
  <2>3. Places \subseteq Places' /\ accepted' = accepted
    BY <1>6, <1>c, <2>1, <2>2 DEF OpenFails, Places, database
  <2> QED
    BY <1>b, <2>1, <2>3, EndsUntried
<1>7. CASE DirFails
  <2>1. Volatile \subseteq Volatile' \cup crashed'
    BY <1>7 DEF DirFails, Volatile, Unsettled, IdsAt
  <2>2. Places \subseteq Places' /\ accepted' = accepted
    BY <1>7, <1>c, <2>1 DEF DirFails, Places, database
  <2>3. TriedInv'
    BY <1>7, UntriedTraced DEF DirFails, NoFlush
  <2> QED
    BY <1>b, <2>2, <2>3
<1>8. CASE InsertRow
  <2>1. PICK i \in DOMAIN buffer :
           /\ NextRow(i)
           /\ tx' = [tx EXCEPT ![cur] =
                 Append(@, [id |-> buffer[i].id, fts |-> TRUE])]
           /\ pos' = i
    BY <1>8 DEF InsertRow
  <2>2. cur \in Months
    BY <2>1 DEF NextRow, TypeOK
  <2>3. IdsIn(tx'[cur]) = IdsIn(tx[cur]) \cup {buffer[i].id}
    BY <2>1, <2>2, RowInserted
  <2>4. UNCHANGED <<queue, buffer, pc, todo, cur, table, accepted, skipped, failed,
                    undone, crashed>>
    BY <1>8 DEF InsertRow, ghost
  <2>5. Places \subseteq Places'
    BY <1>c, <2>4, SameVolatile DEF Places
  <2>6. TriedInv'
    BY <2>1, <2>3, <2>4, TriedTraced DEF Traced
  <2> QED
    BY <1>b, <2>4, <2>5, <2>6
<1>9. CASE RowFails
  <2>1. PICK i \in DOMAIN buffer :
           /\ NextRow(i)
           /\ skipped' = skipped \cup {buffer[i].id}
           /\ pos' = i
    BY <1>9 DEF RowFails
  <2>2. UNCHANGED <<queue, buffer, pc, todo, cur, tx, table, accepted, failed,
                    undone, crashed>>
    BY <1>9 DEF RowFails, database
  <2>3. Places \subseteq Places'
    BY <1>c, <2>1, <2>2, SameVolatile DEF Places
  <2>4. TriedInv'
    BY <2>1, <2>2, TriedTraced DEF Traced
  <2> QED
    BY <1>b, <2>2, <2>3, <2>4
<1>10. CASE FtsFails
  <2>1. PICK i \in DOMAIN buffer :
           /\ NextRow(i)
           /\ tx' = [tx EXCEPT ![cur] =
                 Append(@, [id |-> buffer[i].id, fts |-> FALSE])]
           /\ skipped' = skipped \cup {buffer[i].id}
           /\ pos' = i
    BY <1>10 DEF FtsFails
  <2>2. cur \in Months
    BY <2>1 DEF NextRow, TypeOK
  <2>3. IdsIn(tx'[cur]) = IdsIn(tx[cur]) \cup {buffer[i].id}
    BY <2>1, <2>2, RowInserted
  <2>4. UNCHANGED <<queue, buffer, pc, todo, cur, table, accepted, failed, undone,
                    crashed>>
    BY <1>10 DEF FtsFails
  <2>5. Places \subseteq Places'
    BY <1>c, <2>1, <2>4, SameVolatile DEF Places
  <2>6. TriedInv'
    BY <2>1, <2>3, <2>4, TriedTraced DEF Traced
  <2> QED
    BY <1>b, <2>4, <2>5, <2>6
<1>11. CASE RollsBack
  <2>1. PICK i \in DOMAIN buffer :
           /\ NextRow(i)
           /\ skipped' = skipped \cup {buffer[i].id}
           /\ pos' = i
    BY <1>11 DEF RollsBack
  <2>2. /\ UNCHANGED <<queue, buffer, pc, todo, cur, table, accepted, failed,
                       crashed>>
        /\ undone' = undone \cup (IdsIn(tx[cur]) \ failed)
    BY <1>11 DEF RollsBack
  <2>3. Places \subseteq Places'
    BY <1>c, <2>1, <2>2, SameVolatile DEF Places
  <2>4. \A k \in Batch : buffer[k].id \notin failed
    <3>1. DOMAIN buffer = 1..Len(buffer)
      BY MessagesTyped
    <3> QED
      BY <3>1 DEF OrderInv, Active, Batch
  <2>5. TriedInv'
    BY <2>1, <2>2, <2>4, TriedTraced DEF Traced
  <2> QED
    BY <1>b, <2>2, <2>3, <2>5
<1>12. CASE Commit
  <2>1. MonthDone /\ pc = "insert" /\ cur \in Months /\ accepted' = accepted
    BY <1>12 DEF Commit, LoopOver, TypeOK
  <2>2. Volatile \subseteq Volatile' \cup IdsAt(Batch)
    BY <2>1, BatchEndsVolatile
  <2>3. IdsAt(Batch) \subseteq Traced
    BY <1>12, <2>1 DEF Commit, LoopOver, TriedInv, IdsAt
  <2>4. Indexed' = Indexed \cup IdsIn(tx[cur])
    BY <1>12, <2>1, CommitPublishes DEF Commit
  <2>5. Places \subseteq Places'
    BY <1>12, <2>2, <2>3, <2>4 DEF Commit, Places, Traced, ghost
  <2> QED
    BY <1>b, <2>1, <2>5, EndsUntried
<1>13. CASE CommitFails
  <2>1. MonthDone /\ failed' = failed \cup IdsAt(Batch) /\ pc = "insert"
    BY <1>13 DEF CommitFails, BatchFails, LoopOver
  <2>2. Volatile \subseteq Volatile' \cup IdsAt(Batch)
    BY <2>1, BatchEndsVolatile
  <2>3. Places \subseteq Places' /\ accepted' = accepted
    BY <1>13, <1>c, <2>1, <2>2 DEF CommitFails, Places
  <2> QED
    BY <1>b, <2>1, <2>3, EndsUntried
<1>14. CASE Close
  <2>1. Places \subseteq Places' /\ accepted' = accepted
    BY <1>14, <1>c, SameVolatile DEF Close, Places, ghost
  <2>2. TriedInv'
    BY <1>14 DEF Close, TriedInv
  <2> QED
    BY <1>b, <2>1, <2>2
<1>15. CASE Exit
  <2>1. Places \subseteq Places' /\ accepted' = accepted
    BY <1>15, <1>c DEF Exit, Places
  <2>2. TriedInv'
    BY <1>15 DEF Exit, TriedInv
  <2> QED
    BY <1>b, <2>1, <2>2
<1>16. CASE Restart
  <2>1. Volatile \subseteq Volatile'
    BY <1>16, SameVolatile DEF Restart
  <2>2. Places \subseteq Places' /\ accepted' = accepted
    BY <1>16, <1>c, <2>1 DEF Restart, Places, database, ghost
  <2>3. TriedInv'
    BY <1>16 DEF Restart, TriedInv
  <2> QED
    BY <1>b, <2>2, <2>3
<1>17. CASE UNCHANGED vars
  BY <1>17
     DEF vars, coroutine, database, ghost, Accounted, Indexed, Volatile, Unsettled,
         IdsAt, TriedInv, Batch, Traced
<1> QED
  BY <1>1, <1>2, <1>3, <1>4, <1>5, <1>6, <1>7, <1>8, <1>9, <1>10, <1>11, <1>12,
     <1>13, <1>14, <1>15, <1>16, <1>17 DEF Next

\* A message that was accepted is on its way, indexed, or named by a log line,
\* or a rollback or the end of the process took it: Accounted.
THEOREM NoSilentLoss == Spec => []Accounted
<1>1. Init => Accounted /\ TriedInv
  <2> SUFFICES ASSUME Init PROVE Accounted /\ TriedInv
    OBVIOUS
  <2>1. accepted = 0 /\ pc = "get"
    BY DEF Init
  <2>2. 1..0 = {}
    OBVIOUS
  <2> QED
    BY <2>1, <2>2 DEF Accounted, TriedInv
<1>2. TypeOK /\ OrderInv /\ TypeOK' /\ OrderInv' /\ Accounted /\ TriedInv /\ [Next]_vars
         => Accounted' /\ TriedInv'
  BY AccountedStep
<1> QED
  BY <1>1, <1>2, OrderHolds, PTL DEF Spec

-----------------------------------------------------------------------------
(***************************************************************************)
(* Counting.  written is raised by inserted when a transaction is          *)
(* published, so inserted has to be tied to the rows of the batch that are *)
(* in the transaction, and those have to be new: they are counted once,    *)
(* with the batch under way, and then among the rows a search can find.    *)
(***************************************************************************)

\* Messages of this run that a search finds or a rollback took.
Found == {id \in Searchable \cup undone : id > born}

\* Those of batches that have ended, and those of the batch under way.
Counted == Found \ IdsAt(Batch)

CountedNow == IdsAt(Batch) \cap (FtsIds(tx[cur]) \cup undone)

CountInv ==
    /\ stats.written <= Cardinality(Counted)
    /\ pc = "insert" => inserted <= Cardinality(CountedNow)

\* The sets that are counted are finite, and the ids of a batch not yet begun
\* are in neither.
CountOK ==
    /\ Searchable \subseteq Known
    /\ cur \in Months => FtsIds(tx[cur]) \subseteq Known
    /\ IsFiniteSet(Found)
    /\ IsFiniteSet(Counted) /\ Cardinality(Counted) \in Nat
    /\ cur \in Months => IsFiniteSet(CountedNow) /\ Cardinality(CountedNow) \in Nat
    /\ pos = 0 => IdsAt(Batch) \cap (Known \cup undone) = {}

LEMMA CountIsOK == TypeOK /\ OrderInv => CountOK
<1> SUFFICES ASSUME TypeOK, OrderInv PROVE CountOK
  OBVIOUS
<1>1. ASSUME NEW m \in Months
      PROVE  FtsIds(table[m]) \subseteq Known /\ FtsIds(tx[m]) \subseteq Known
  <2> DEFINE a == table[m]
             b == tx[m]
  <2>1. a \in Seq(Row) /\ b \in Seq(Row)
    BY DEF TypeOK
  <2> HIDE DEF a, b
  <2>2. IdsIn(a \o b) = IdsIn(a) \cup IdsIn(b)
    BY <2>1, IdsConcat
  <2>3. FtsIds(a) \subseteq IdsIn(a) /\ FtsIds(b) \subseteq IdsIn(b)
    BY FtsAreIds
  <2>4. IdsIn(a \o b) \subseteq Known
    BY DEF Rows, Known, a, b
  <2> QED
    BY <2>2, <2>3, <2>4 DEF a, b
<1>2. Searchable \subseteq Known
  BY <1>1 DEF Searchable
<1>3. Known \cup undone \subseteq 0..accepted
  <2>1. Known \cup undone \in SUBSET Nat
    BY RowsAreOK DEF RowsOK, TypeOK
  <2>2. Len(queue) \in Nat /\ accepted \in Nat
    BY MessagesTyped DEF TypeOK
  <2> QED
    BY <2>1, <2>2 DEF OrderInv, NoneAhead
<1>4. \A S \in SUBSET (Known \cup undone) : IsFiniteSet(S) /\ Cardinality(S) \in Nat
  <2> SUFFICES ASSUME NEW S \in SUBSET (Known \cup undone)
               PROVE  IsFiniteSet(S) /\ Cardinality(S) \in Nat
    OBVIOUS
  <2>1. accepted \in Nat
    BY DEF TypeOK
  <2>2. IsFiniteSet(0..accepted)
    BY <2>1, FS_Interval
  <2>3. S \subseteq 0..accepted
    BY <1>3
  <2> QED
    BY <2>2, <2>3, FS_Subset, FS_CardinalityType
<1>5. Found \in SUBSET (Known \cup undone) /\ Counted \in SUBSET (Known \cup undone)
  BY <1>2 DEF Found, Counted
<1>6. cur \in Months => CountedNow \in SUBSET (Known \cup undone)
  BY <1>1 DEF CountedNow
<1>7. pos = 0 => IdsAt(Batch) \cap (Known \cup undone) = {}
  <2> SUFFICES ASSUME pos = 0, NEW k \in Batch
               PROVE  buffer[k].id \notin Known \cup undone
    BY DEF IdsAt
  <2>1. k \in 1..Len(buffer) /\ k > 0
    BY MessagesTyped DEF Batch
  <2>2. Waiting(k)
    BY <2>1 DEF Waiting, Batch
  <2> QED
    BY <2>1, <2>2 DEF OrderInv, Fresh
<1> QED
  BY <1>1, <1>2, <1>4, <1>5, <1>6, <1>7 DEF CountOK

LEMMA CountStaysOK == TypeOK' /\ OrderInv' => CountOK'
BY CountIsOK, PTL

\* Between two batches nothing is in the making, and what was counted stays.
LEMMA RestCount ==
  ASSUME TypeOK, TypeOK', OrderInv, OrderInv', CountInv, pos' = 0, pc' # "insert",
         UNCHANGED <<table, undone, born>>, stats'.written = stats.written
  PROVE  CountInv'
<1>1. CountOK /\ CountOK'
  BY CountIsOK, CountStaysOK
<1>2. Searchable' = Searchable
  BY DEF Searchable
<1>3. Counted \subseteq Counted'
  BY <1>1, <1>2 DEF Counted, Found, CountOK
<1>4. Cardinality(Counted) <= Cardinality(Counted')
  BY <1>1, <1>3, FS_Subset DEF CountOK
<1>5. stats.written \in Nat /\ Cardinality(Counted) \in Nat /\ Cardinality(Counted') \in Nat
  BY <1>1 DEF CountOK, TypeOK
<1>6. stats.written <= Cardinality(Counted)
  BY DEF CountInv
<1>7. stats'.written <= Cardinality(Counted')
  BY <1>4, <1>5, <1>6
<1> QED
  BY <1>7 DEF CountInv

\* While the batch goes on, its counted rows and those of others only grow.
LEMMA GrowCount ==
  ASSUME TypeOK, TypeOK', OrderInv, OrderInv', CountInv, pc = "insert",
         UNCHANGED <<pc, cur, buffer, born, stats>>, inserted' = inserted,
         Searchable \cup undone \subseteq Searchable' \cup undone',
         CountedNow \subseteq CountedNow'
  PROVE  CountInv'
<1>1. CountOK /\ CountOK' /\ cur \in Months
  BY CountIsOK, CountStaysOK DEF TypeOK
<1>2. Counted \subseteq Counted'
  BY DEF Counted, Found, IdsAt, Batch
<1>3. /\ Cardinality(Counted) <= Cardinality(Counted')
      /\ Cardinality(CountedNow) <= Cardinality(CountedNow')
  BY <1>1, <1>2, FS_Subset DEF CountOK
<1>4. /\ stats.written \in Nat /\ inserted \in Nat
      /\ Cardinality(Counted) \in Nat /\ Cardinality(Counted') \in Nat
      /\ Cardinality(CountedNow) \in Nat /\ Cardinality(CountedNow') \in Nat
  BY <1>1 DEF CountOK, TypeOK
<1>5. stats.written <= Cardinality(Counted) /\ inserted <= Cardinality(CountedNow)
  BY DEF CountInv
<1>6. stats.written <= Cardinality(Counted') /\ inserted <= Cardinality(CountedNow')
  BY <1>3, <1>4, <1>5
<1> QED
  BY <1>6 DEF CountInv

\* An inserted row is one more of the batch under way.
LEMMA InsertCount ==
  ASSUME TypeOK, TypeOK', OrderInv, OrderInv', CountInv, InsertRow
  PROVE  CountInv'
<1>1. PICK i \in DOMAIN buffer :
         /\ NextRow(i)
         /\ tx' = [tx EXCEPT ![cur] =
               Append(@, [id |-> buffer[i].id, fts |-> TRUE])]
         /\ pos' = i
  BY DEF InsertRow
<1>2. cur \in Months /\ pc = "insert"
  BY <1>1 DEF NextRow, TypeOK
<1>3. /\ UNCHANGED <<pc, cur, buffer, born, stats, table, undone>>
      /\ inserted' = inserted + 1
  BY DEF InsertRow, ghost
<1>4. FtsIds(tx'[cur]) = FtsIds(tx[cur]) \cup {buffer[i].id}
  BY <1>1, <1>2, RowInserted
<1>5. CountOK
  BY CountIsOK
<1>6. i \in Batch /\ buffer[i].id \notin Known \cup undone
  <2>1. i \in 1..Len(buffer)
    BY MessagesTyped
  <2>2. Waiting(i) /\ i \in Batch
    BY <1>1 DEF NextRow, Waiting, Batch
  <2> QED
    BY <2>1, <2>2 DEF OrderInv, Fresh
<1>7. CountedNow' = CountedNow \cup {buffer[i].id} /\ buffer[i].id \notin CountedNow
  BY <1>2, <1>3, <1>4, <1>5, <1>6 DEF CountedNow, CountOK, IdsAt, Batch
<1>8. Cardinality(CountedNow') = Cardinality(CountedNow) + 1
  BY <1>2, <1>5, <1>7, FS_AddElement DEF CountOK
<1>9. Counted' = Counted
  BY <1>3 DEF Counted, Found, Searchable, IdsAt, Batch
<1>10. inserted + 1 <= Cardinality(CountedNow')
  <2>1. inserted <= Cardinality(CountedNow) /\ inserted \in Nat
    BY <1>2 DEF CountInv, TypeOK
  <2>2. Cardinality(CountedNow) \in Nat
    BY <1>2, <1>5 DEF CountOK
  <2> QED
    BY <1>8, <2>1, <2>2
<1> QED
  BY <1>3, <1>9, <1>10 DEF CountInv

\* A commit moves the rows counted for the batch to those that are found.
LEMMA CommitCount ==
  ASSUME TypeOK, TypeOK', OrderInv, OrderInv', CountInv, Commit
  PROVE  CountInv'
<1>1. cur \in Months /\ pc = "insert" /\ MonthDone /\ undone' = undone /\ born' = born
  BY DEF Commit, LoopOver, TypeOK, ghost
<1>2. pos' = 0 /\ pc' # "insert"
  <2>1. queue \in Seq(Msg) /\ todo \in SUBSET Months
    BY DEF TypeOK
  <2> QED
    BY <1>1, <2>1, BatchEnds DEF NextMonth, Restarts
<1>3. Searchable' = Searchable \cup FtsIds(tx[cur])
  BY <1>1, CommitPublishes DEF Commit
<1>4. CountOK /\ CountOK'
  BY CountIsOK, CountStaysOK
<1>5. Counted \cup CountedNow \subseteq Counted'
  <2>1. \A id \in IdsAt(Batch) : id > born
    <3>1. \A k \in 1..Len(buffer) : buffer[k].id > born
      BY <1>1, BufferIds
    <3>2. DOMAIN buffer = 1..Len(buffer)
      BY MessagesTyped
    <3> QED
      BY <3>1, <3>2 DEF IdsAt, Batch
  <2>2. Counted \cup CountedNow \subseteq Found'
    BY <1>1, <1>3, <2>1 DEF Counted, CountedNow, Found
  <2>3. Found' \cap IdsAt(Batch)' = {}
    BY <1>2, <1>4 DEF CountOK, Found
  <2> QED
    BY <2>2, <2>3 DEF Counted
<1>6. Cardinality(Counted \cup CountedNow) = Cardinality(Counted) + Cardinality(CountedNow)
  <2>1. Counted \cap CountedNow = {}
    BY DEF Counted, CountedNow
  <2>2. /\ IsFiniteSet(Counted) /\ Cardinality(Counted) \in Nat
        /\ IsFiniteSet(CountedNow) /\ Cardinality(CountedNow) \in Nat
    BY <1>1, <1>4 DEF CountOK
  <2>3. Cardinality(Counted \cup CountedNow)
           = Cardinality(Counted) + Cardinality(CountedNow) - Cardinality({})
    BY <2>1, <2>2, FS_Union
  <2>4. Cardinality({}) = 0
    BY FS_EmptySet
  <2> QED
    BY <2>2, <2>3, <2>4
<1>7. Cardinality(Counted \cup CountedNow) <= Cardinality(Counted')
  BY <1>4, <1>5, FS_Subset DEF CountOK
<1>8. stats'.written = stats.written + inserted
  BY DEF Commit, TypeOK
<1>9. /\ stats.written \in Nat /\ inserted \in Nat
      /\ Cardinality(Counted) \in Nat /\ Cardinality(CountedNow) \in Nat
      /\ Cardinality(Counted') \in Nat
  BY <1>1, <1>4 DEF CountOK, TypeOK
<1>10. stats.written <= Cardinality(Counted) /\ inserted <= Cardinality(CountedNow)
  BY <1>1 DEF CountInv
<1>11. Cardinality(Counted) + Cardinality(CountedNow) <= Cardinality(Counted')
  BY <1>6, <1>7
<1>12. stats.written + inserted <= Cardinality(Counted')
  BY <1>9, <1>10, <1>11
<1> QED
  BY <1>2, <1>8, <1>12 DEF CountInv

\* Every step keeps the count.
LEMMA CountStep ==
  ASSUME TypeOK, TypeOK', OrderInv, OrderInv', CountInv, [Next]_vars
  PROVE  CountInv'
<1>a. queue \in Seq(Msg) /\ todo \in SUBSET Months
  BY DEF TypeOK
<1>b. BatchFails => stats'.written = stats.written /\ pos' = 0 /\ pc' # "insert"
  BY <1>a, BatchEnds DEF BatchFails, TypeOK, NextMonth, Restarts
<1>c. UNCHANGED <<tx, table, buffer, cur, undone, born>>
         => Counted' = Counted /\ CountedNow' = CountedNow
  BY DEF Counted, CountedNow, Found, Searchable, IdsAt, Batch
<1>1. CASE Enqueue
  <2>1. stats'.written = stats.written
    BY <1>1 DEF Enqueue, TypeOK
  <2> QED
    BY <1>1, <1>c, <2>1 DEF Enqueue, coroutine, database, ghost, CountInv
<1>2. CASE Stop
  BY <1>2, <1>c DEF Stop, coroutine, database, ghost, CountInv
<1>3. CASE Get
  <2>1. stats'.written = stats.written
    BY <1>3 DEF Get, TypeOK
  <2>2. pos' = 0 /\ pc' # "insert"
    BY <1>3, GetRestarts DEF Restarts
  <2> QED
    BY <1>3, <2>1, <2>2, RestCount DEF Get, database, ghost
<1>4. CASE Timeout
  <2>1. pos' = 0 /\ pc' # "insert"
    BY <1>4, TimeoutRestarts DEF Restarts
  <2> QED
    BY <1>4, <2>1, RestCount DEF Timeout, database, ghost
<1>5. CASE Open
  <2>1. inserted = 0 /\ cur \in Months
    BY <1>5 DEF Open, OrderInv, FlowInv, TypeOK
  <2>2. 0 <= Cardinality(CountedNow)
    BY <2>1, CountIsOK DEF CountOK
  <2> QED
    BY <1>5, <1>c, <2>1, <2>2 DEF Open, ghost, CountInv
<1>6. CASE OpenFails
  BY <1>6, <1>b, RestCount DEF OpenFails, database
<1>7. CASE DirFails
  BY <1>7, RestCount DEF DirFails, NoFlush, database
<1>8. CASE InsertRow
  BY <1>8, InsertCount
<1>9. CASE RowFails
  BY <1>9, <1>c DEF RowFails, database, CountInv
<1>10. CASE FtsFails
  <2>1. PICK i \in DOMAIN buffer :
           /\ NextRow(i)
           /\ tx' = [tx EXCEPT ![cur] =
                 Append(@, [id |-> buffer[i].id, fts |-> FALSE])]
    BY <1>10 DEF FtsFails
  <2>2. cur \in Months /\ pc = "insert"
    BY <2>1 DEF NextRow, TypeOK
  <2>3. FtsIds(tx[cur]) \subseteq FtsIds(tx'[cur])
    BY <2>1, <2>2, RowInserted
  <2>4. CountedNow \subseteq CountedNow'
    BY <1>10, <2>3 DEF FtsFails, CountedNow, IdsAt, Batch
  <2>5. Searchable' = Searchable
    BY <1>10 DEF FtsFails, Searchable
  <2> QED
    BY <1>10, <2>2, <2>4, <2>5, GrowCount DEF FtsFails
<1>11. CASE RollsBack
  <2>1. pc = "insert"
    BY <1>11 DEF RollsBack, NextRow
  <2>2. IdsAt(Batch) \cap failed = {}
    <3>1. DOMAIN buffer = 1..Len(buffer)
      BY MessagesTyped
    <3> QED
      BY <3>1 DEF OrderInv, Active, IdsAt, Batch
  <2>3. FtsIds(tx[cur]) \subseteq IdsIn(tx[cur])
    BY FtsAreIds
  <2>4. CountedNow \subseteq CountedNow'
    BY <1>11, <2>2, <2>3 DEF RollsBack, CountedNow, IdsAt, Batch
  <2>5. Searchable \cup undone \subseteq Searchable' \cup undone'
    BY <1>11 DEF RollsBack, Searchable
  <2> QED
    BY <1>11, <2>1, <2>4, <2>5, GrowCount DEF RollsBack
<1>12. CASE Commit
  BY <1>12, CommitCount
<1>13. CASE CommitFails
  BY <1>13, <1>b, RestCount DEF CommitFails
<1>14. CASE Close
  <2>1. pos' = 0
    BY <1>14 DEF Close, OrderInv, FlowInv
  <2> QED
    BY <1>14, <2>1, RestCount DEF Close, ghost
<1>15. CASE Exit
  BY <1>15, RestCount DEF Exit, NoFlush
<1>16. CASE Restart
  <2>1. stats'.written = 0 /\ pc' = "get"
    BY <1>16 DEF Restart, NoStats
  <2>2. 0 <= Cardinality(Counted')
    BY CountStaysOK DEF CountOK
  <2> QED
    BY <2>1, <2>2 DEF CountInv
<1>17. CASE UNCHANGED vars
  BY <1>17, <1>c DEF vars, coroutine, database, ghost, CountInv
<1> QED
  BY <1>1, <1>2, <1>3, <1>4, <1>5, <1>6, <1>7, <1>8, <1>9, <1>10, <1>11, <1>12,
     <1>13, <1>14, <1>15, <1>16, <1>17 DEF Next

\* The counter of written messages counts messages of this run that a search
\* finds, or that a rollback took: WrittenIsIndexed.
THEOREM Written == Spec => []WrittenIsIndexed
<1>1. Init => CountInv
  <2> SUFFICES ASSUME Init PROVE CountInv
    OBVIOUS
  <2>1. stats.written = 0 /\ pc = "get"
    BY DEF Init, NoStats
  <2>2. 0 <= Cardinality(Counted)
    BY InitTyped, InitOrder, CountIsOK DEF CountOK
  <2> QED
    BY <2>1, <2>2 DEF CountInv
<1>2. TypeOK /\ OrderInv /\ TypeOK' /\ OrderInv' /\ CountInv /\ [Next]_vars => CountInv'
  BY CountStep
<1>3. TypeOK /\ OrderInv /\ CountInv => WrittenIsIndexed
  <2> SUFFICES ASSUME TypeOK, OrderInv, CountInv PROVE WrittenIsIndexed
    OBVIOUS
  <2>1. CountOK
    BY CountIsOK
  <2>2. Cardinality(Counted) <= Cardinality(Found) /\ Cardinality(Found) \in Nat
    BY <2>1, FS_Subset, FS_CardinalityType DEF CountOK, Counted
  <2>3. stats.written \in Nat /\ Cardinality(Counted) \in Nat
    BY <2>1 DEF CountOK, TypeOK
  <2>4. stats.written <= Cardinality(Found)
    BY <2>2, <2>3 DEF CountInv
  <2> QED
    BY <2>4 DEF WrittenIsIndexed, Found
<1> QED
  BY <1>1, <1>2, <1>3, OrderHolds, PTL DEF Spec
-----------------------------------------------------------------------------
(***************************************************************************)
(* SearchIndex.  Its pending messages are those of Remaining, in the       *)
(* memory of the process, and those of Staged, in a transaction.           *)
(***************************************************************************)

Elements(s) == {s[i] : i \in DOMAIN s}

Untried == {buffer[k] : k \in {i \in DOMAIN buffer : Waiting(i)}}

Remaining == Untried \cup Elements(queue)

\* Elements of the sequences the coroutine builds.
LEMMA ElementsAppend ==
  ASSUME NEW S, NEW a \in Seq(S), NEW e \in S
  PROVE  Elements(Append(a, e)) = Elements(a) \cup {e}
<1> DEFINE b == Append(a, e)
<1>1. /\ DOMAIN b = 1..(Len(a) + 1)
      /\ \A i \in 1..Len(a) : b[i] = a[i]
      /\ b[Len(a) + 1] = e
      /\ DOMAIN a = 1..Len(a) /\ Len(a) \in Nat
  OBVIOUS
<1> HIDE DEF b
<1>2. Elements(b) \subseteq Elements(a) \cup {e}
  BY <1>1 DEF Elements
<1>3. Elements(a) \subseteq Elements(b)
  BY <1>1 DEF Elements
<1>4. e \in Elements(b)
  BY <1>1 DEF Elements
<1> QED
  BY <1>2, <1>3, <1>4 DEF b

LEMMA ElementsConcat ==
  ASSUME NEW S, NEW a \in Seq(S), NEW b \in Seq(S)
  PROVE  Elements(a \o b) = Elements(a) \cup Elements(b)
<1> DEFINE c == a \o b
<1>1. /\ DOMAIN c = 1..(Len(a) + Len(b))
      /\ \A i \in 1..Len(a) : c[i] = a[i]
      /\ \A j \in 1..Len(b) : c[Len(a) + j] = b[j]
      /\ DOMAIN a = 1..Len(a) /\ Len(a) \in Nat
      /\ DOMAIN b = 1..Len(b) /\ Len(b) \in Nat
  OBVIOUS
<1> HIDE DEF c
<1>2. ASSUME NEW i \in DOMAIN c
      PROVE  c[i] \in Elements(a) \cup Elements(b)
  <2>1. CASE i \in 1..Len(a)
    BY <2>1, <1>1 DEF Elements
  <2>2. CASE i \notin 1..Len(a)
    <3>1. i - Len(a) \in 1..Len(b) /\ i = Len(a) + (i - Len(a))
      BY <2>2, <1>1
    <3>2. PICK j \in 1..Len(b) : i = Len(a) + j
      BY <3>1
    <3> QED
      BY <3>2, <1>1 DEF Elements
  <2> QED
    BY <2>1, <2>2
<1>3. Elements(a) \subseteq Elements(c)
  BY <1>1 DEF Elements
<1>4. Elements(b) \subseteq Elements(c)
  BY <1>1 DEF Elements
<1>5. Elements(c) \subseteq Elements(a) \cup Elements(b)
  BY <1>2 DEF Elements
<1> QED
  BY <1>3, <1>4, <1>5 DEF c

LEMMA ElementsTail ==
  ASSUME NEW S, NEW q \in Seq(S), q # <<>>
  PROVE  Elements(q) = {Head(q)} \cup Elements(Tail(q))
<1> DEFINE t == Tail(q)
<1>1. /\ DOMAIN q = 1..Len(q) /\ Len(q) \in Nat \ {0}
      /\ DOMAIN t = 1..(Len(q) - 1)
      /\ \A i \in 1..(Len(q) - 1) : t[i] = q[i + 1]
      /\ Head(q) = q[1]
  OBVIOUS
<1> HIDE DEF t
<1>2. ASSUME NEW i \in DOMAIN q, i # 1
      PROVE  q[i] \in Elements(t)
  <2>1. i - 1 \in DOMAIN t /\ t[i - 1] = q[i]
    BY <1>1, <1>2
  <2> QED
    BY <2>1 DEF Elements
<1>3. ASSUME NEW i \in DOMAIN t
      PROVE  t[i] \in Elements(q)
  <2>1. i + 1 \in DOMAIN q /\ t[i] = q[i + 1]
    BY <1>1
  <2> QED
    BY <2>1 DEF Elements
<1>4. Head(q) \in Elements(q)
  BY <1>1 DEF Elements
<1>5. Elements(q) \subseteq {Head(q)} \cup Elements(t)
  BY <1>1, <1>2 DEF Elements
<1> QED
  BY <1>3, <1>4, <1>5 DEF t, Elements

\* What is pending, in its two parts.
LEMMA PendingParts ==
  /\ Pending = Remaining \cup Staged
  /\ Pending' = Remaining' \cup Staged'
BY DEF Pending, Remaining, Untried, Elements

LEMMA StagedMember ==
  ASSUME NEW x
  PROVE  x \in Staged <=>
            \E m \in Months : \E i \in IdsIn(tx[m]) : x = [id |-> i, month |-> m]
BY DEF Staged

\* Between two flushes no buffered message has been tried.
LEMMA RestartsRemaining ==
  ASSUME NEW buf \in Seq(Msg), NEW q \in Seq(Msg), Restarts(buf, q)
  PROVE  Remaining' = Elements(buf) \cup Elements(q)
<1>1. Elements(buffer') \cup Elements(queue') = Elements(buf) \cup Elements(q)
  <2>1. Elements(buf \o q) = Elements(buf) \cup Elements(q)
    BY ElementsConcat
  <2>2. Elements(<<>>) = {}
    BY DEF Elements
  <2>3. CASE buffer' = buf /\ queue' = q
    BY <2>3
  <2>4. CASE buffer' = buf \o q /\ queue' = <<>>
    BY <2>1, <2>2, <2>4
  <2> QED
    BY <2>3, <2>4 DEF Restarts
<1>2. buffer' \in Seq(Msg)
  <2>1. buf \o q \in Seq(Msg)
    OBVIOUS
  <2> QED
    BY <2>1 DEF Restarts
<1>3. DOMAIN buffer' = 1..Len(buffer') /\ \A k \in DOMAIN buffer' : k > 0
  BY <1>2
<1>4. \A k \in DOMAIN buffer' : Waiting(k)'
  <2> SUFFICES ASSUME NEW k \in DOMAIN buffer'
               PROVE  Waiting(k)'
    OBVIOUS
  <2>1. pc' = "get" \/ buffer'[k].month \in todo' \cup {cur'}
    BY <1>3 DEF Restarts
  <2>2. pos' = 0 /\ k > pos'
    BY <1>3 DEF Restarts
  <2> QED
    BY <2>1, <2>2 DEF Waiting
<1>5. Untried' = Elements(buffer')
  BY <1>4 DEF Untried, Elements
<1> QED
  BY <1>1, <1>5 DEF Remaining, Elements

\* The end of a batch leaves the rest of the buffer and the queue to be tried.
LEMMA BatchEndsRemaining ==
  ASSUME TypeOK, pc \in {"open", "insert"}, MonthDone
  PROVE  /\ Remaining' \subseteq Remaining
         /\ LoopOver => Remaining' = Remaining
<1>1. /\ queue \in Seq(Msg) /\ buffer \in Seq(Msg) /\ todo \in SUBSET Months
      /\ <<>> \in Seq(Msg)
  BY DEF TypeOK
<1>2. DOMAIN buffer \subseteq Nat /\ pos \in Nat /\ \A k \in DOMAIN buffer : k > 0
  BY <1>1 DEF TypeOK
<1>3. LoopOver => \A k \in DOMAIN buffer : Waiting(k) => buffer[k].month \in todo
  BY <1>2 DEF LoopOver, Batch, Waiting
<1>4. CASE NextMonth
  <2>1. /\ buffer' = buffer /\ queue' = queue
        /\ pc' = "open" /\ pos' = 0 /\ todo' \cup {cur'} = todo
    BY <1>4 DEF NextMonth
  <2>2. \A k \in DOMAIN buffer : Waiting(k)' <=> buffer[k].month \in todo
    BY <1>2, <2>1 DEF Waiting
  <2>3. \A k \in DOMAIN buffer : Waiting(k)' => Waiting(k)
    BY <2>2 DEF Waiting
  <2>4. LoopOver => \A k \in DOMAIN buffer : Waiting(k) => Waiting(k)'
    BY <1>3, <2>2
  <2>5. Untried' \subseteq Untried
    BY <2>1, <2>3 DEF Untried
  <2>6. LoopOver => Untried \subseteq Untried'
    BY <2>1, <2>4 DEF Untried
  <2> QED
    BY <2>1, <2>5, <2>6 DEF Remaining, Elements
<1>5. CASE todo = {} /\ Restarts(<<>>, queue)
  <2>1. Remaining' = Elements(<<>>) \cup Elements(queue)
    BY <1>1, <1>5, RestartsRemaining
  <2>2. Elements(<<>>) = {}
    BY DEF Elements
  <2>3. LoopOver => Untried = {}
    BY <1>3, <1>5 DEF Untried
  <2> QED
    BY <2>1, <2>2, <2>3 DEF Remaining
<1> QED
  BY <1>1, <1>4, <1>5, BatchEnds

\* One more row tried: its message is no longer to be tried, the others are.
LEMMA TriedRemaining ==
  ASSUME TypeOK, FlowInv, NEW i \in DOMAIN buffer, NextRow(i), pos' = i,
         UNCHANGED <<queue, buffer, pc, todo, cur>>
  PROVE  /\ Remaining' \subseteq Remaining
         /\ Remaining = Remaining' \cup {buffer[i]}
<1>1. DOMAIN buffer \subseteq Nat /\ pos \in Nat /\ i \in Nat
  <2>1. buffer \in Seq(Msg)
    BY DEF TypeOK
  <2>2. DOMAIN buffer \subseteq Nat
    BY <2>1
  <2> QED
    BY <2>2 DEF TypeOK
<1>2. /\ pc = "insert" /\ i > pos /\ buffer[i].month = cur
      /\ \A j \in DOMAIN buffer : buffer[j].month = cur /\ j > pos => i <= j
  BY DEF NextRow, Batch
<1>3. \A k \in DOMAIN buffer : Waiting(k)' => Waiting(k)
  BY <1>1, <1>2 DEF Waiting
<1>4. \A k \in DOMAIN buffer : Waiting(k) => Waiting(k)' \/ k = i
  BY <1>1, <1>2 DEF Waiting
<1>5. Waiting(i)
  BY <1>2 DEF Waiting
<1>6. Untried' \subseteq Untried
  BY <1>3 DEF Untried
<1>7. Untried \subseteq Untried' \cup {buffer[i]}
  BY <1>4 DEF Untried
<1>8. buffer[i] \in Untried
  BY <1>5 DEF Untried
<1> QED
  BY <1>6, <1>7, <1>8 DEF Remaining, Elements

\* Transactions: one that gets a row, ones that are emptied.
LEMMA StagedGrows ==
  ASSUME TypeOK, cur \in Months, NEW i,
         \A m \in Months : m # cur => tx'[m] = tx[m],
         IdsIn(tx'[cur]) = IdsIn(tx[cur]) \cup {i}
  PROVE  Staged' = Staged \cup {[id |-> i, month |-> cur]}
<1>1. \A m \in Months : IdsIn(tx'[m]) = IdsIn(tx[m]) \cup (IF m = cur THEN {i} ELSE {})
  OBVIOUS
<1> QED
  BY <1>1 DEF Staged

LEMMA StagedShrinks ==
  ASSUME NEW D \in SUBSET Months,
         \A m \in Months : tx'[m] = IF m \in D THEN <<>> ELSE tx[m]
  PROVE  /\ Staged' \subseteq Staged
         /\ \A x \in Staged : x \in Staged' <=> x.month \notin D
<1>1. \A m \in Months : IdsIn(tx'[m]) = IF m \in D THEN {} ELSE IdsIn(tx[m])
  BY DEF IdsIn
<1>2. ASSUME NEW x \in Staged'
      PROVE  x \in Staged
  <2>1. PICK m \in Months : \E i \in IdsIn(tx'[m]) : x = [id |-> i, month |-> m]
    BY DEF Staged
  <2>2. IdsIn(tx'[m]) \subseteq IdsIn(tx[m])
    BY <1>1
  <2> QED
    BY <2>1, <2>2 DEF Staged
<1>3. ASSUME NEW x \in Staged
      PROVE  x \in Staged' <=> x.month \notin D
  <2>1. PICK m \in Months : \E i \in IdsIn(tx[m]) : x = [id |-> i, month |-> m]
    BY DEF Staged
  <2>2. x.month = m
    BY <2>1
  <2>3. CASE m \notin D
    <3>1. IdsIn(tx'[m]) = IdsIn(tx[m])
      BY <1>1, <2>3
    <3>2. x \in {[id |-> i, month |-> m] : i \in IdsIn(tx'[m])}
      BY <2>1, <3>1
    <3>3. x \in Staged'
      BY <3>2 DEF Staged
    <3> QED
      BY <2>2, <2>3, <3>3
  <2>4. CASE m \in D
    <3>1. ASSUME x \in Staged' PROVE FALSE
      <4>1. PICK n \in Months : \E j \in IdsIn(tx'[n]) : x = [id |-> j, month |-> n]
        BY <3>1 DEF Staged
      <4>2. n = m
        BY <2>2, <4>1
      <4> QED
        BY <1>1, <2>4, <4>1, <4>2
    <3> QED
      BY <2>2, <2>4, <3>1
  <2> QED
    BY <2>3, <2>4
<1> QED
  BY <1>2, <1>3

\* The ids of rows, one by one.
LEMMA RowIdsFacts ==
  ASSUME NEW rows \in Seq(Row)
  PROVE  /\ Len(RowIds(rows)) = Len(rows)
         /\ DOMAIN RowIds(rows) = 1..Len(rows)
         /\ \A i \in 1..Len(rows) : RowIds(rows)[i] = rows[i].id
<1>1. DOMAIN rows = 1..Len(rows) /\ Len(rows) \in Nat
  OBVIOUS
<1>2. \A i \in 1..Len(rows) : rows[i].id \in Nat
  <2>1. \A i \in 1..Len(rows) : rows[i] \in Row
    OBVIOUS
  <2> QED
    BY <2>1 DEF Row
<1>3. RowIds(rows) \in [1..Len(rows) -> Nat]
  BY <1>1, <1>2 DEF RowIds
<1>4. RowIds(rows) \in Seq(Nat) /\ Len(RowIds(rows)) = Len(rows)
  BY <1>1, <1>3
<1> QED
  BY <1>1, <1>3, <1>4 DEF RowIds

\* What is still in memory of a month is newer than what its transaction has.
LEMMA RemainingIsNewer ==
  ASSUME TypeOK, OrderInv, LoopOver,
         NEW x \in Remaining, x.month = cur, NEW i \in IdsIn(tx[cur])
  PROVE  i < x.id
<1>1. /\ pc = "insert" /\ cur \in Months
      /\ \A k \in DOMAIN buffer : buffer[k].month = cur => k <= pos
  BY DEF LoopOver, Batch, TypeOK
<1>2. /\ Len(buffer) \in Nat /\ DOMAIN buffer = 1..Len(buffer) /\ pos \in Nat
      /\ Len(queue) \in Nat /\ DOMAIN queue = 1..Len(queue)
      /\ \A k \in 1..Len(queue) : queue[k].id \in Nat
      /\ accepted \in Nat
  BY MessagesTyped DEF TypeOK
<1>3. ASSUME NEW k \in DOMAIN buffer, buffer[k].month = cur
      PROVE  ~Waiting(k)
  <2>1. cur \notin todo
    BY DEF OrderInv, FlowInv
  <2>2. k <= pos
    BY <1>1, <1>3
  <2>3. ~(k > pos)
    BY <1>2, <2>2
  <2> QED
    BY <1>1, <1>3, <2>1, <2>3 DEF Waiting
<1>4. x \notin Untried
  BY <1>3 DEF Untried
<1>5. PICK k \in 1..Len(queue) : x = queue[k]
  BY <1>2, <1>4 DEF Remaining, Elements
<1>6. i \in Known /\ i \in Nat
  <2>1. RowsOK
    BY RowsAreOK
  <2>2. table[cur] \in Seq(Row) /\ tx[cur] \in Seq(Row)
    BY <1>1 DEF TypeOK
  <2>3. IdsIn(tx[cur]) \subseteq IdsIn(table[cur] \o tx[cur])
    BY <2>2, IdsConcat
  <2> QED
    BY <1>1, <2>1, <2>3 DEF RowsOK
<1>7. i + Len(queue) <= accepted
  BY <1>6 DEF OrderInv, NoneAhead
<1>8. queue[k].id + Len(queue) = accepted + k
  BY <1>1 DEF OrderInv, Consecutive
<1> DEFINE v == x.id
           p == Len(queue)
<1>9. /\ v \in Nat /\ p \in Nat /\ k \in Nat /\ k > 0
      /\ v + p = accepted + k /\ i + p <= accepted
  BY <1>2, <1>5, <1>7, <1>8
<1> HIDE DEF v, p
<1>10. i < v
  BY <1>2, <1>6, <1>9
<1> QED
  BY <1>10 DEF v

\* A table that gets the rows of a transaction at its end.
LEMMA ConcatContinues ==
  ASSUME NEW a \in Seq(Row), NEW b \in Seq(Row), NEW m,
         \A i, j \in 1..Len(a \o b) : i < j => (a \o b)[i].id < (a \o b)[j].id
  PROVE  Index!Continues(RowIds(a), RowIds(a \o b),
                         {[id |-> i, month |-> m] : i \in IdsIn(b)})
<1> DEFINE c == a \o b
           n == Len(a)
           new == RowIds(c)
           batch == {[id |-> i, month |-> m] : i \in IdsIn(b)}
<1>1. /\ c \in Seq(Row) /\ Len(c) = n + Len(b) /\ n \in Nat /\ Len(b) \in Nat
      /\ DOMAIN a = 1..n /\ DOMAIN b = 1..Len(b)
      /\ DOMAIN c = 1..(n + Len(b))
      /\ \A i \in 1..n : c[i] = a[i]
      /\ \A j \in 1..Len(b) : c[n + j] = b[j]
  OBVIOUS
<1>2. \A i, j \in 1..Len(c) : i < j => c[i].id < c[j].id
  OBVIOUS
<1> HIDE DEF c, n
<1>3. /\ Len(RowIds(a)) = n
      /\ \A i \in 1..n : RowIds(a)[i] = a[i].id
  BY <1>1, RowIdsFacts DEF n
<1>4. /\ Len(new) = n + Len(b)
      /\ \A i \in 1..(n + Len(b)) : new[i] = c[i].id
  BY <1>1, RowIdsFacts
<1> HIDE DEF new
<1>5. n <= n + Len(b) /\ \A i \in 1..n : i \in 1..(n + Len(b))
  BY <1>1
<1>6. \A i \in 1..n : new[i] = RowIds(a)[i]
  BY <1>1, <1>3, <1>4, <1>5
<1>7. \A i, j \in 1..Len(new) : i < j => new[i] < new[j]
  BY <1>1, <1>2, <1>4
<1>8. {new[i] : i \in (n + 1)..(n + Len(b))} = IdsIn(b)
  <2>1. ASSUME NEW i \in (n + 1)..(n + Len(b))
        PROVE  new[i] \in IdsIn(b)
    <3>1. i - n \in 1..Len(b) /\ i = n + (i - n) /\ i \in 1..(n + Len(b))
      BY <1>1
    <3>2. PICK j \in 1..Len(b) : i = n + j
      BY <3>1
    <3>3. new[i] = b[j].id
      BY <1>1, <1>4, <3>1, <3>2
    <3> QED
      BY <1>1, <3>3 DEF IdsIn
  <2>2. ASSUME NEW j \in DOMAIN b
        PROVE  \E i \in (n + 1)..(n + Len(b)) : new[i] = b[j].id
    <3>1. n + j \in (n + 1)..(n + Len(b)) /\ n + j \in 1..(n + Len(b))
      BY <1>1
    <3>2. new[n + j] = b[j].id
      BY <1>1, <1>4, <3>1
    <3> QED
      BY <3>1, <3>2
  <2> QED
    BY <2>1, <2>2 DEF IdsIn
<1>9. {msg.id : msg \in batch} = IdsIn(b)
  <2>1. \A i : [id |-> i, month |-> m].id = i
    OBVIOUS
  <2> QED
    BY <2>1
<1> HIDE DEF batch
<1>10. Index!Continues(RowIds(a), new, batch)
  BY <1>3, <1>4, <1>5, <1>6, <1>7, <1>8, <1>9 DEF Index!Continues
<1> QED
  BY <1>10 DEF new, c, batch

\* A commit publishes what its transaction has: the oldest of its month.
LEMMA CommitRefines ==
  ASSUME TypeOK, OrderInv, Commit
  PROVE  Index!Publish
<1> DEFINE a == table[cur]
           b == tx[cur]
           batch == {[id |-> i, month |-> cur] : i \in IdsIn(b)}
<1>1. /\ pc = "insert" /\ LoopOver /\ MonthDone
      /\ table' = [table EXCEPT ![cur] = table[cur] \o tx[cur]]
      /\ tx' = [tx EXCEPT ![cur] = <<>>]
      /\ accepted' = accepted
  BY DEF Commit, LoopOver
<1>2. /\ cur \in Months /\ a \in Seq(Row) /\ b \in Seq(Row)
      /\ table \in [Months -> Seq(Row)] /\ tx \in [Months -> Seq(Row)]
  BY <1>1 DEF TypeOK
<1>3. /\ table'[cur] = a \o b
      /\ \A m \in Months : m # cur => table'[m] = table[m]
      /\ {cur} \in SUBSET Months
      /\ \A m \in Months : tx'[m] = IF m \in {cur} THEN <<>> ELSE tx[m]
  BY <1>1, <1>2
<1>4. batch \subseteq Staged
  BY <1>2 DEF Staged
<1>5. ASSUME NEW x \in Staged, x.month = cur
      PROVE  x \in batch
  <2>1. PICK m \in Months : \E i \in IdsIn(tx[m]) : x = [id |-> i, month |-> m]
    BY DEF Staged
  <2>2. m = cur
    BY <1>5, <2>1
  <2> QED
    BY <2>1, <2>2
<1>6. \A msg \in batch : msg.month = cur /\ msg.id \in IdsIn(b)
  OBVIOUS
<1>7. ASSUME NEW msg \in batch, NEW x \in Remaining, x.month = cur
      PROVE  msg.id < x.id
  BY <1>1, <1>6, <1>7, RemainingIsNewer
<1>8. ASSUME NEW x \in Remaining PROVE x \notin batch
  <2> SUFFICES ASSUME x \in batch PROVE FALSE
    OBVIOUS
  <2>1. x.month = cur /\ x.id \in IdsIn(b)
    BY <1>6
  <2>2. x.id < x.id
    BY <1>7, <2>1
  <2>3. x.id \in Nat
    <3>1. \A i \in DOMAIN b : b[i] \in Row
      BY <1>2
    <3>2. IdsIn(b) \subseteq Nat
      BY <3>1 DEF IdsIn, Row
    <3> QED
      BY <2>1, <3>2
  <2> QED
    BY <2>2, <2>3
<1>9. Remaining' = Remaining
  BY <1>1, BatchEndsRemaining
<1>10. /\ Staged' \subseteq Staged
       /\ \A x \in Staged : x \in Staged' <=> x.month \notin {cur}
  BY <1>3, StagedShrinks
<1>11. Index!Continues(RowIds(a), RowIds(a \o b), batch)
  <2>1. a \o b = Rows[cur]
    BY <1>2 DEF Rows
  <2>2. \A i, j \in 1..Len(a \o b) : i < j => (a \o b)[i].id < (a \o b)[j].id
    BY <1>2, <2>1 DEF OrderInv, Sorted
  <2> HIDE DEF a, b
  <2> QED
    BY <1>2, <2>2, ConcatContinues
<1>12. Index!Continues(RowIds(table[cur]), RowIds(table'[cur]), batch)
  BY <1>3, <1>11
<1> HIDE DEF batch
<1>13. Staged' = Staged \ batch
  BY <1>5, <1>6, <1>10
<1>14. Pending' = Pending \ batch
  BY <1>8, <1>9, <1>13, PendingParts
<1>15. batch \in SUBSET Pending
  BY <1>4, PendingParts
<1>16. \A msg \in batch, rest \in Pending \ batch :
          rest.month = cur => msg.id < rest.id
  BY <1>5, <1>7, PendingParts
<1>17. \A m \in Months \ {cur} : RowIds(table'[m]) = RowIds(table[m])
  BY <1>3
<1>18. \A msg \in batch : msg.month = cur
  BY <1>6
<1> QED
  BY <1>1, <1>2, <1>12, <1>14, <1>15, <1>16, <1>17, <1>18 DEF Index!Publish

\* A row that is inserted is as pending as its message was.
LEMMA InsertRefines ==
  ASSUME TypeOK, FlowInv, NEW i \in DOMAIN buffer, NextRow(i), pos' = i,
         NEW f \in BOOLEAN,
         tx' = [tx EXCEPT ![cur] = Append(@, [id |-> buffer[i].id, fts |-> f])],
         UNCHANGED <<queue, buffer, pc, todo, cur>>
  PROVE  Pending' = Pending
<1>1. pc = "insert" /\ buffer[i].month = cur
  BY DEF NextRow, Batch
<1>2. cur \in Months /\ tx \in [Months -> Seq(Row)] /\ buffer[i] \in Msg
  BY <1>1, RowsTyped DEF TypeOK
<1>3. Remaining = Remaining' \cup {buffer[i]}
  BY TriedRemaining
<1>4. \A m \in Months : m # cur => tx'[m] = tx[m]
  BY <1>2
<1>5. IdsIn(tx'[cur]) = IdsIn(tx[cur]) \cup {buffer[i].id}
  BY <1>2, RowInserted
<1>6. Staged' = Staged \cup {[id |-> buffer[i].id, month |-> cur]}
  BY <1>2, <1>4, <1>5, StagedGrows
<1>7. buffer[i] = [id |-> buffer[i].id, month |-> cur]
  BY <1>1, <1>2 DEF Msg
<1>8. Staged' = Staged \cup {buffer[i]}
  BY <1>6, <1>7
<1> QED
  BY <1>3, <1>8, PendingParts

\* A message that is accepted is pending.
LEMMA EnqueueRefines ==
  ASSUME TypeOK, Enqueue
  PROVE  Index!Accept \/ (Pending' = Pending /\ accepted' = accepted)
<1>1. /\ UNCHANGED <<buffer, pc, todo, cur, pos, tx, table>>
      /\ queue \in Seq(Msg) /\ accepted \in Nat
  BY DEF Enqueue, coroutine, database, TypeOK
<1>2. Untried' = Untried
  BY <1>1 DEF Untried, Waiting
<1>3. Staged' = Staged
  BY <1>1 DEF Staged
<1>4. CASE queue' = queue /\ accepted' = accepted
  BY <1>2, <1>3, <1>4, PendingParts DEF Remaining
<1>5. ASSUME NEW now \in Months, accepted' = accepted + 1,
             queue' = Append(queue, [id |-> accepted + 1, month |-> now])
      PROVE  Index!Accept
  <2> DEFINE msg == [id |-> accepted + 1, month |-> now]
  <2>1. msg \in Msg
    BY <1>1 DEF Msg
  <2>2. queue' = Append(queue, msg)
    BY <1>5
  <2> HIDE DEF msg
  <2>3. Elements(queue') = Elements(queue) \cup {msg}
    BY <1>1, <2>1, <2>2, ElementsAppend
  <2>4. Pending' = Pending \cup {msg}
    BY <1>2, <1>3, <2>3, PendingParts DEF Remaining, Elements
  <2>5. Pending' = Pending \cup {[id |-> accepted + 1, month |-> now]}
    BY <2>4 DEF msg
  <2> QED
    BY <1>1, <1>5, <2>5 DEF Index!Accept
<1>6. \/ queue' = queue /\ accepted' = accepted
      \/ /\ accepted' = accepted + 1
         /\ \E now \in Months :
               queue' = Append(queue, [id |-> accepted + 1, month |-> now])
  BY DEF Enqueue
<1> QED
  BY <1>4, <1>5, <1>6

LEMMA InitRefines == Init => Index!Init
<1> SUFFICES ASSUME Init PROVE Index!Init
  OBVIOUS
<1>1. \A m \in Months : IdsIn(tx[m]) = {} /\ RowIds(table[m]) = <<>>
  BY DEF Init, IdsIn, RowIds
<1>2. Staged = {}
  BY <1>1 DEF Staged
<1>3. Pending = {}
  BY <1>2 DEF Init, Pending
<1> QED
  BY <1>1, <1>3 DEF Init, Index!Init

\* The tables are what they were, and what is pending was.
LEMMA LessIsPending ==
  ASSUME UNCHANGED <<accepted, table>>, Pending' \subseteq Pending
  PROVE  Index!GiveUp
BY DEF Index!GiveUp

\* The steps of the event loop between two flushes.
LEMMA LoopRefines ==
  ASSUME TypeOK, FlowInv, Get \/ Timeout \/ Stop \/ Open \/ Restart
  PROVE  Pending' = Pending
<1>1. tx' = tx
  BY DEF Get, Timeout, Stop, Open, Restart, database
<1>2. Staged' = Staged
  BY <1>1 DEF Staged
<1>3. buffer \in Seq(Msg) /\ queue \in Seq(Msg)
  BY DEF TypeOK
<1>4. CASE Get
  <2>1. pc = "get" /\ queue # <<>>
    BY <1>4 DEF Get
  <2>2. Untried = Elements(buffer)
    BY <2>1 DEF Untried, Waiting, Elements
  <2>3. Remaining' = Elements(Append(buffer, Head(queue))) \cup Elements(Tail(queue))
    BY <1>4, GetRestarts, RestartsRemaining
  <2>4. Head(queue) \in Msg
    BY <1>3, <2>1
  <2>5. Elements(Append(buffer, Head(queue))) = Elements(buffer) \cup {Head(queue)}
    BY <1>3, <2>4, ElementsAppend
  <2>6. Elements(queue) = {Head(queue)} \cup Elements(Tail(queue))
    BY <1>3, <2>1, ElementsTail
  <2>7. Remaining' = Remaining
    BY <2>2, <2>3, <2>5, <2>6 DEF Remaining
  <2> QED
    BY <1>2, <2>7, PendingParts
<1>5. CASE Timeout
  <2>1. pc = "get"
    BY <1>5 DEF Timeout
  <2>2. Untried = Elements(buffer)
    BY <2>1 DEF Untried, Waiting, Elements
  <2>3. Remaining' = Elements(buffer) \cup Elements(queue)
    BY <1>3, <1>5, TimeoutRestarts, RestartsRemaining
  <2> QED
    BY <1>2, <2>2, <2>3, PendingParts DEF Remaining
<1>6. CASE Stop
  <2>1. Untried' = Untried /\ queue' = queue
    BY <1>6 DEF Stop, coroutine, Untried, Waiting
  <2> QED
    BY <1>2, <2>1, PendingParts DEF Remaining, Elements
<1>7. CASE Open
  <2>1. Untried' = Untried /\ queue' = queue
    BY <1>7 DEF Open, Untried, Waiting
  <2> QED
    BY <1>2, <2>1, PendingParts DEF Remaining, Elements
<1>8. CASE Restart
  <2>1. buffer = <<>> /\ buffer' = <<>> /\ queue' = queue
    BY <1>8 DEF Restart, FlowInv
  <2>2. Untried' = Untried
    BY <2>1 DEF Untried
  <2> QED
    BY <1>2, <2>1, <2>2, PendingParts DEF Remaining, Elements
<1> QED
  BY <1>4, <1>5, <1>6, <1>7, <1>8

\* A batch that fails, a row that is skipped and whatever a rollback or the end
\* of the coroutine or of the process takes: what is pending can only shrink.
LEMMA LossRefines ==
  ASSUME TypeOK, FlowInv,
         \/ OpenFails \/ DirFails \/ RowFails \/ RollsBack \/ CommitFails
         \/ Close \/ Exit
  PROVE  Pending' \subseteq Pending
<1>1. tx \in [Months -> Seq(Row)]
  BY DEF TypeOK
<1>2. CASE OpenFails
  <2>1. pc = "open" /\ MonthDone /\ tx' = tx
    BY <1>2 DEF OpenFails, BatchFails, database
  <2>2. Staged' = Staged
    BY <2>1 DEF Staged
  <2> QED
    BY <2>1, <2>2, BatchEndsRemaining, PendingParts
<1>3. CASE DirFails
  <2>1. buffer' = <<>> /\ queue' = queue /\ tx' = tx
    BY <1>3 DEF DirFails, database
  <2>2. Staged' = Staged
    BY <2>1 DEF Staged
  <2>3. Untried' = {}
    BY <2>1 DEF Untried
  <2> QED
    BY <2>1, <2>2, <2>3, PendingParts DEF Remaining, Elements
<1>4. CASE RowFails
  <2>1. PICK i \in DOMAIN buffer : NextRow(i) /\ pos' = i
    BY <1>4 DEF RowFails
  <2>2. UNCHANGED <<queue, buffer, pc, todo, cur, tx>>
    BY <1>4 DEF RowFails, database
  <2>3. Remaining' \subseteq Remaining
    BY <2>1, <2>2, TriedRemaining
  <2>4. Staged' = Staged
    BY <2>2 DEF Staged
  <2> QED
    BY <2>3, <2>4, PendingParts
<1>5. CASE RollsBack
  <2>1. PICK i \in DOMAIN buffer : NextRow(i) /\ pos' = i
    BY <1>5 DEF RollsBack
  <2>2. /\ UNCHANGED <<queue, buffer, pc, todo, cur>>
        /\ tx' = [tx EXCEPT ![cur] = <<>>]
    BY <1>5 DEF RollsBack
  <2>3. pc = "insert"
    BY <2>1 DEF NextRow
  <2>4. /\ {cur} \in SUBSET Months
        /\ \A m \in Months : tx'[m] = IF m \in {cur} THEN <<>> ELSE tx[m]
    BY <1>1, <2>2, <2>3 DEF TypeOK
  <2>5. Remaining' \subseteq Remaining
    BY <2>1, <2>2, TriedRemaining
  <2>6. Staged' \subseteq Staged
    BY <2>4, StagedShrinks
  <2> QED
    BY <2>5, <2>6, PendingParts
<1>6. CASE CommitFails
  <2>1. /\ pc = "insert" /\ MonthDone
        /\ tx' = tx \/ tx' = [tx EXCEPT ![cur] = <<>>]
    BY <1>6 DEF CommitFails, BatchFails, LoopOver
  <2>2. Staged' \subseteq Staged
    <3>1. CASE tx' = tx
      BY <3>1 DEF Staged
    <3>2. CASE tx' = [tx EXCEPT ![cur] = <<>>]
      <4>1. /\ {cur} \in SUBSET Months
            /\ \A m \in Months : tx'[m] = IF m \in {cur} THEN <<>> ELSE tx[m]
        BY <1>1, <2>1, <3>2 DEF TypeOK
      <4> QED
        BY <4>1, StagedShrinks
    <3> QED
      BY <2>1, <3>1, <3>2
  <2> QED
    BY <2>1, <2>2, BatchEndsRemaining, PendingParts
<1>7. ASSUME tx' = [m \in Months |-> <<>>]
      PROVE  Staged' = {}
  <2>1. \A m \in Months : IdsIn(tx'[m]) = {}
    BY <1>7 DEF IdsIn
  <2> QED
    BY <2>1 DEF Staged
<1>8. CASE Close
  <2>1. /\ buffer = <<>> /\ buffer' = <<>> /\ queue' = queue
        /\ tx' = [m \in Months |-> <<>>]
    BY <1>8 DEF Close, FlowInv
  <2>2. Untried' = {}
    BY <2>1 DEF Untried
  <2> QED
    BY <1>7, <2>1, <2>2, PendingParts DEF Remaining, Elements
<1>9. CASE Exit
  <2>1. buffer' = <<>> /\ queue' = <<>> /\ tx' = [m \in Months |-> <<>>]
    BY <1>9 DEF Exit
  <2>2. Untried' = {} /\ Elements(queue') = {}
    BY <2>1 DEF Untried, Elements
  <2> QED
    BY <1>7, <2>1, <2>2, PendingParts DEF Remaining, Elements
<1> QED
  BY <1>2, <1>3, <1>4, <1>5, <1>6, <1>8, <1>9

\* Each step maps to a step of SearchIndex, or to a stutter.
LEMMA StepRefines ==
  ASSUME TypeOK, OrderInv, [Next]_vars
  PROVE  [Index!Next]_(Index!vars)
<1>1. FlowInv
  BY DEF OrderInv
<1>2. ASSUME UNCHANGED <<accepted, table>>, Pending' = Pending
      PROVE  UNCHANGED Index!vars
  BY <1>2 DEF Index!vars
<1>3. CASE Enqueue
  <2>1. table' = table
    BY <1>3 DEF Enqueue, database
  <2> QED
    BY <1>2, <1>3, <2>1, EnqueueRefines DEF Index!Next
<1>4. CASE Get \/ Timeout \/ Stop \/ Open \/ Restart
  <2>1. UNCHANGED <<accepted, table>>
    BY <1>4 DEF Get, Timeout, Stop, Open, Restart, database
  <2> QED
    BY <1>1, <1>2, <1>4, <2>1, LoopRefines
<1>5. CASE InsertRow \/ FtsFails
  <2>1. PICK i \in DOMAIN buffer, f \in BOOLEAN :
           /\ NextRow(i) /\ pos' = i
           /\ tx' = [tx EXCEPT ![cur] = Append(@, [id |-> buffer[i].id, fts |-> f])]
    BY <1>5 DEF InsertRow, FtsFails
  <2>2. UNCHANGED <<queue, buffer, pc, todo, cur, accepted, table>>
    BY <1>5 DEF InsertRow, FtsFails
  <2>3. Pending' = Pending
    BY <1>1, <2>1, <2>2, InsertRefines
  <2> QED
    BY <1>2, <2>2, <2>3
<1>6. CASE Commit
  BY <1>6, CommitRefines DEF Index!Next
<1>7. CASE \/ OpenFails \/ DirFails \/ RowFails \/ RollsBack \/ CommitFails
           \/ Close \/ Exit
  <2>1. UNCHANGED <<accepted, table>>
    BY <1>7 DEF OpenFails, DirFails, RowFails, RollsBack, CommitFails, Close, Exit,
                BatchFails, database
  <2>2. Pending' \subseteq Pending
    BY <1>1, <1>7, LossRefines
  <2> QED
    BY <2>1, <2>2, LessIsPending DEF Index!Next
<1>8. CASE UNCHANGED vars
  <2>1. UNCHANGED <<queue, buffer, pc, todo, cur, pos, tx, table, accepted>>
    BY <1>8 DEF vars, coroutine, database
  <2>2. Untried' = Untried /\ Staged' = Staged
    BY <2>1 DEF Untried, Waiting, Staged
  <2>3. Pending' = Pending
    BY <2>1, <2>2, PendingParts DEF Remaining, Elements
  <2> QED
    BY <1>2, <2>1, <2>3
<1> QED
  BY <1>3, <1>4, <1>5, <1>6, <1>7, <1>8 DEF Next

\* The indexer implements SearchIndex: each of its steps is a step of the
\* abstract index or leaves it alone.  enqueue() makes a message pending, a
\* commit publishes the oldest of a month, and every failure, rollback and end
\* of a process only gives pending ones up: the tables are never changed but at
\* their end (_insert_batch and Indexer._flush).
THEOREM Refinement == Spec => ImplementsSearchIndex
<1>1. Init => Index!Init
  BY InitRefines
<1>2. TypeOK /\ OrderInv /\ [Next]_vars => [Index!Next]_(Index!vars)
  BY StepRefines
<1> QED
  BY <1>1, <1>2, OrderHolds, PTL DEF Spec, ImplementsSearchIndex, Index!Spec
=============================================================================
