-------------------------- MODULE IndexReadersProofs --------------------------
(***************************************************************************)
(* Proofs about IndexReaders: the typing invariant, that the live tail     *)
(* leaves no gap, and that the pages and the device list of a reader       *)
(* without a snapshot lie between what was there all along and what was    *)
(* there at any time.                                                      *)
(***************************************************************************)
EXTENDS IndexReaders, TLAPS, FiniteSetTheorems, WellFoundedInduction

-----------------------------------------------------------------------------
(***************************************************************************)
(* Times and months.                                                       *)
(***************************************************************************)

\* The times are finitely many natural numbers, and so are those of a set.
LEMMA TimesAreFinite ==
  /\ Times \subseteq Nat \ {0}
  /\ \A S \in SUBSET Times : IsFiniteSet(S) /\ Cardinality(S) \in Nat
<1>1. LastMonth * Slots \in Nat
  BY IndexReadersAssumption
<1>2. IsFiniteSet(Times)
  BY <1>1, FS_Interval DEF Times
<1>3. \A S \in SUBSET Times : IsFiniteSet(S)
  BY <1>2, FS_Subset
<1>4. \A S \in SUBSET Times : Cardinality(S) \in Nat
  BY <1>3, FS_CardinalityType
<1>5. Times \subseteq Nat \ {0}
  BY <1>1 DEF Times
<1> QED
  BY <1>3, <1>4, <1>5

\* The month of a time is one, and a later time is of no earlier month.
LEMMA MonthOfTime ==
  ASSUME NEW t \in Times
  PROVE  /\ MonthOf(t) \in Nat \ {0}
         /\ \A u \in Times : t <= u => MonthOf(t) <= MonthOf(u)
<1>1. LastMonth * Slots \in Nat
  BY IndexReadersAssumption
<1>2. t \in Nat /\ 1 <= t
  BY <1>1 DEF Times
<1>3. MonthOf(t) \in Nat \ {0}
  BY <1>2, IndexReadersAssumption DEF MonthOf
<1>4. ASSUME NEW u \in Times, t <= u
      PROVE  MonthOf(t) <= MonthOf(u)
  <2>1. u \in Nat
    BY <1>1 DEF Times
  <2> QED
    BY <1>2, <1>4, <2>1, IndexReadersAssumption DEF MonthOf
<1> QED
  BY <1>3, <1>4

-----------------------------------------------------------------------------
(***************************************************************************)
(* Ranks.                                                                  *)
(***************************************************************************)

\* A rank is a number, and a larger set gives no smaller ranks.
LEMMA RankType ==
  ASSUME NEW S \in SUBSET Times, NEW t \in Times
  PROVE  /\ Rank(t, S) \in Nat
         /\ Rank(t, S) <= Cardinality(S)
<1>1. {u \in S : u > t} \in SUBSET Times
  OBVIOUS
<1>2. IsFiniteSet(S)
  BY TimesAreFinite
<1>3. Cardinality({u \in S : u > t}) <= Cardinality(S)
  BY <1>2, FS_Subset
<1> QED
  BY <1>1, <1>3, TimesAreFinite DEF Rank

\* If all of S above t is in T and above s, then s ranks in T no higher.
LEMMA RankGrows ==
  ASSUME NEW S \in SUBSET Times, NEW T \in SUBSET Times,
         NEW t \in Times, NEW s \in Times,
         \A u \in S : u > t => u \in T /\ u > s
  PROVE  Rank(t, S) <= Rank(s, T)
<1> DEFINE A == {u \in S : u > t}
           B == {u \in T : u > s}
<1>1. A \in SUBSET B
  OBVIOUS
<1>2. IsFiniteSet(B)
  <2>1. B \in SUBSET Times
    OBVIOUS
  <2> QED
    BY <2>1, TimesAreFinite
<1>3. Cardinality(A) <= Cardinality(B)
  BY <1>1, <1>2, FS_Subset
<1> QED
  BY <1>3 DEF Rank

\* Every set of times but the empty one has a latest: the sets of what is
\* later than one of them are finite, and one of those sets holds no other.
LEMMA LatestExists ==
  ASSUME NEW S \in SUBSET Times, S # {}
  PROVE  \E t \in S : \A u \in S : u <= t
<1> DEFINE After(t) == {u \in S : u > t}
           F == {After(t) : t \in S}
<1>1. S \subseteq Nat /\ \A t \in S : IsFiniteSet(After(t))
  <2>1. \A t \in S : After(t) \in SUBSET Times
    OBVIOUS
  <2> QED
    BY <2>1, TimesAreFinite
<1>2. F \subseteq FiniteSubsetsOf(S)
  BY <1>1 DEF FiniteSubsetsOf
<1>3. F # {}
  OBVIOUS
<1>4. IsWellFoundedOn(StrictSubsetOrdering(S), FiniteSubsetsOf(S))
  BY FS_StrictSubsetOrderingWellFounded
<1> HIDE DEF F
<1>5. PICK X \in F : \A Y \in F : ~ (<<Y, X>> \in StrictSubsetOrdering(S))
  BY <1>2, <1>3, <1>4, WFMin
<1>6. PICK t \in S : X = After(t)
  BY <1>5 DEF F
<1>7. ASSUME NEW u \in S, ~ (u <= t)
      PROVE  FALSE
  <2>1. u \in Nat /\ t \in Nat /\ u > t
    BY <1>1, <1>7
  <2>2. After(u) \subseteq After(t)
    <3> SUFFICES ASSUME NEW v \in S, v > u PROVE v > t
      OBVIOUS
    <3>1. v \in Nat
      BY <1>1
    <3> QED
      BY <2>1, <3>1
  <2>3. u \in After(t) /\ u \notin After(u)
    BY <2>1
  <2>4. After(u) \in SUBSET S /\ After(t) \in SUBSET S /\ After(u) # After(t)
    BY <2>3
  <2>5. <<After(u), After(t)>> \in StrictSubsetOrdering(S)
    BY <2>2, <2>4 DEF StrictSubsetOrdering
  <2>6. After(u) \in F
    BY DEF F
  <2> QED
    BY <1>5, <1>6, <2>5, <2>6
<1> QED
  BY <1>7

\* A row left out of the newest n rows ranks behind all of those.
LEMMA LeftOutIsBehind ==
  ASSUME NEW S \in SUBSET Times, NEW n \in Nat,
         NEW t \in S, ~ (Rank(t, S) < n)
  PROVE  Rank(t, {u \in S : Rank(u, S) < n}) >= n
<1> DEFINE T == {u \in S : Rank(u, S) < n}
<1>1. t \in S \ T /\ S \ T \in SUBSET Times /\ T \in SUBSET Times
  OBVIOUS
<1> HIDE DEF T
<1>2. PICK w \in S \ T : \A u \in S \ T : u <= w
  BY <1>1, LatestExists
<1>3. w \in Times /\ t \in Times
  OBVIOUS
<1>4. ASSUME NEW u \in S, u > w
      PROVE  u \in T /\ u > t
  <2>1. u \in Nat /\ w \in Nat /\ t \in Nat
    BY <1>3, TimesAreFinite
  <2>2. t <= w
    BY <1>1, <1>2
  <2>3. u > t /\ ~ (u <= w)
    BY <1>4, <2>1, <2>2
  <2> QED
    BY <1>2, <2>3
<1>5. Rank(w, S) <= Rank(t, T)
  BY <1>1, <1>3, <1>4, RankGrows
<1>6. ~ (Rank(w, S) < n)
  BY <1>2 DEF T
<1>7. Rank(w, S) \in Nat /\ Rank(t, T) \in Nat
  BY <1>1, <1>3, RankType
<1>8. Rank(t, T) >= n
  BY <1>5, <1>6, <1>7
<1> QED
  BY <1>8 DEF T

\* Newest is the latest time of a set, and the only one.
LEMMA NewestIsLatest ==
  ASSUME NEW S \in SUBSET Times, S # {}
  PROVE  /\ Newest(S) \in S
         /\ \A u \in S : u <= Newest(S)
         /\ \A t \in S : (\A u \in S : u <= t) => t = Newest(S)
<1>1. \A t \in S : t \in Nat
  BY TimesAreFinite
<1>2. ASSUME NEW t \in S
      PROVE  Rank(t, S) = 0 <=> \A u \in S : u <= t
  <2> DEFINE A == {u \in S : u > t}
  <2>1. IsFiniteSet(A)
    <3>1. A \in SUBSET Times
      OBVIOUS
    <3> QED
      BY <3>1, TimesAreFinite
  <2>2. Cardinality(A) = 0 <=> A = {}
    BY <2>1, FS_EmptySet
  <2>3. A = {} <=> \A u \in S : u <= t
    BY <1>1
  <2> QED
    BY <2>2, <2>3 DEF Rank
<1>3. PICK w \in S : \A u \in S : u <= w
  BY LatestExists
<1>4. \E t \in S : Rank(t, S) = 0
  BY <1>2, <1>3
<1>5. Newest(S) \in S /\ Rank(Newest(S), S) = 0
  BY <1>4 DEF Newest
<1>6. \A u \in S : u <= Newest(S)
  BY <1>2, <1>5
<1>7. ASSUME NEW t \in S, \A u \in S : u <= t
      PROVE  t = Newest(S)
  <2>1. t <= Newest(S) /\ Newest(S) <= t /\ t \in Nat /\ Newest(S) \in Nat
    BY <1>1, <1>5, <1>6, <1>7
  <2> QED
    BY <2>1
<1> QED
  BY <1>5, <1>6, <1>7

-----------------------------------------------------------------------------
(***************************************************************************)
(* Types.                                                                  *)
(***************************************************************************)

\* Rows are times, and a new row is of a month there is.
LEMMA RowsAreTimes ==
  ASSUME TypeOK
  PROVE  \A m \in Months : Rows(m) \in SUBSET Times
<1> SUFFICES ASSUME NEW m \in Months PROVE Rows(m) \in SUBSET Times
  OBVIOUS
<1>1. table[m] \in Seq(Times)
  BY DEF TypeOK
<1>2. \A i \in DOMAIN table[m] : table[m][i] \in Times
  BY <1>1
<1> QED
  BY <1>2 DEF Rows

LEMMA NewRowHasMonth ==
  ASSUME TypeOK, NEW t \in Times, MonthOf(t) \in {month, month - 1}
  PROVE  MonthOf(t) \in Months
<1>1. month \in Nat /\ month <= LastMonth /\ LastMonth \in Nat
  BY IndexReadersAssumption DEF TypeOK, Months
<1>2. MonthOf(t) \in Nat \ {0}
  BY MonthOfTime
<1> QED
  BY <1>1, <1>2 DEF Months

LEMMA RelevantAreMonths ==
  /\ Available \subseteq Months
  /\ RecentMonths \subseteq Available
  /\ \A r : Relevant(r) \subseteq Available
BY DEF Available, RecentMonths, Relevant

LEMMA InitTyped == Init => TypeOK
<1> SUFFICES ASSUME Init PROVE TypeOK
  OBVIOUS
<1>1. 1 \in Months
  BY IndexReadersAssumption DEF Months
<1>2. <<>> \in Seq(Times) /\ <<>> \in Seq(Nat)
  OBVIOUS
<1> QED
  BY <1>1, <1>2 DEF Init, TypeOK

LEMMA TypeStep == TypeOK /\ [Next]_vars => TypeOK'
<1> SUFFICES ASSUME TypeOK, [Next]_vars PROVE TypeOK'
  OBVIOUS
<1> USE DEF TypeOK, clock, tailer, asked, found, reader
<1>1. CASE MonthBegins
  <2>1. month + 1 \in Months
    BY <1>1, IndexReadersAssumption DEF MonthBegins, Months
  <2> QED
    BY <1>1, <2>1 DEF MonthBegins
<1>2. CASE CreateDatabase
  <2>1. file' \in [Months -> {"none", "empty", "ready"}]
    BY <1>2 DEF CreateDatabase
  <2> QED
    BY <1>2, <2>1 DEF CreateDatabase
<1>3. CASE CommitRow
  <2>1. PICK t \in Times \ AllRows :
           /\ MonthOf(t) \in {month, month - 1} \ gone
           /\ table' = [table EXCEPT ![MonthOf(t)] = Append(@, t)]
           /\ ever' = ever \cup {u \in {t} : MonthOf(u) \in scope /\ Matches(u, range)}
    BY <1>3 DEF CommitRow
  <2>2. MonthOf(t) \in Months
    BY <2>1, NewRowHasMonth
  <2>3. Append(table[MonthOf(t)], t) \in Seq(Times)
    BY <2>2
  <2>4. table' \in [Months -> Seq(Times)]
    BY <2>1, <2>2, <2>3
  <2>5. ever' \subseteq Times
    BY <2>1
  <2> QED
    BY <1>3, <2>4, <2>5 DEF CommitRow
<1>4. CASE DropMonth
  <2>1. PICK m \in 1..(month - 1) :
           /\ file' = [file EXCEPT ![m] = "none"]
           /\ table' = [table EXCEPT ![m] = <<>>]
           /\ gone' = gone \cup {m}
           /\ always' = always \ Rows(m)
    BY <1>4 DEF DropMonth
  <2>2. m \in Months
    BY IndexReadersAssumption DEF Months
  <2>3. <<>> \in Seq(Times)
    OBVIOUS
  <2>4. /\ file' \in [Months -> {"none", "empty", "ready"}]
        /\ table' \in [Months -> Seq(Times)]
        /\ gone' \subseteq Months
        /\ always' \subseteq Times
    BY <2>1, <2>2, <2>3
  <2> QED
    BY <1>4, <2>4 DEF DropMonth
<1>5. CASE BeginPoll
  <2>1. 0 \notin Months
    BY DEF Months
  <2> QED
    BY <1>5, <2>1 DEF BeginPoll
<1>6. CASE SeedTail
  <2>1. polled \in Months /\ Len(table[polled]) \in Nat
    BY <1>6 DEF SeedTail
  <2>2. /\ cursor' \in [Months -> Nat \cup {Unseeded}]
        /\ seed' \in [Months -> Nat \cup {Unseeded}]
    BY <1>6, <2>1 DEF SeedTail
  <2> QED
    BY <1>6, <2>2 DEF SeedTail
<1>7. CASE SendRows
  <2> DEFINE rows == {i \in DOMAIN table[polled] :
                        /\ i > cursor[polled]
                        /\ i <= cursor[polled] + TailLimit}
             n == Cardinality(rows)
             sent == [k \in 1..n |-> cursor[polled] + k]
  <2>1. polled \in Months /\ cursor[polled] \in Nat
    BY <1>7 DEF SendRows, FirstPoll
  <2>2. n \in Nat
    <3>1. rows \in SUBSET (1..Len(table[polled]))
      BY <2>1
    <3>2. IsFiniteSet(1..Len(table[polled]))
      <4>1. Len(table[polled]) \in Int /\ 1 \in Int
        BY <2>1
      <4> QED
        BY <4>1, FS_Interval
    <3> HIDE DEF rows
    <3>3. IsFiniteSet(rows)
      BY <3>1, <3>2, FS_Subset
    <3> QED
      BY <3>3, FS_CardinalityType
  <2>3. NewCursor(polled, rows) \in Nat
    BY <2>1, <2>2 DEF NewCursor
  <2>4. /\ shown' = [shown EXCEPT ![polled] = @ \o sent]
        /\ cursor' = [cursor EXCEPT ![polled] = NewCursor(polled, rows)]
    BY <1>7 DEF SendRows
  <2> HIDE DEF rows, n
  <2>5. sent \in Seq(Nat)
    BY <2>1, <2>2
  <2>6. shown[polled] \o sent \in Seq(Nat)
    BY <2>1, <2>5
  <2>7. /\ shown' \in [Months -> Seq(Nat)]
        /\ cursor' \in [Months -> Nat \cup {Unseeded}]
    BY <2>1, <2>3, <2>4, <2>6
  <2> QED
    BY <1>7, <2>7 DEF SendRows
<1>8. CASE Reconnect
  <2>1. <<>> \in Seq(Nat)
    OBVIOUS
  <2> QED
    BY <1>8, <2>1 DEF Reconnect
<1>9. CASE BeginSearch
  <2>1. /\ offset' \in Nat
        /\ limit' \in Nat
        /\ range' \in [start : {0} \cup Times, end : {0} \cup Times]
    BY <1>9, IndexReadersAssumption DEF BeginSearch
  <2>2. /\ scan' \subseteq Months
        /\ scope' \subseteq Months
        /\ query' = "search"
    BY <1>9, RelevantAreMonths DEF BeginSearch, Begin
  <2>3. always' \subseteq Times /\ ever' \subseteq Times
    BY <1>9, <2>2, RowsAreTimes DEF BeginSearch, Begin
  <2> QED
    BY <1>9, <2>1, <2>2, <2>3 DEF BeginSearch, Begin
<1>10. CASE BeginDevices
  <2>1. /\ scan' \subseteq Months
        /\ scope' \subseteq Months
        /\ query' = "devices"
    BY <1>10, RelevantAreMonths DEF BeginDevices, Begin
  <2>2. always' \subseteq Times /\ ever' \subseteq Times
    BY <1>10, <2>1, RowsAreTimes DEF BeginDevices, Begin
  <2> QED
    BY <1>10, <2>1, <2>2 DEF BeginDevices, Begin
<1>11. CASE FindMonth
  <2>1. scan' \subseteq Months /\ at' \in {0} \cup Months
    BY <1>11 DEF FindMonth
  <2> QED
    BY <1>11, <2>1 DEF FindMonth
<1>12. CASE ReadMonth
  <2>1. at \in Months
    BY <1>12 DEF ReadMonth
  <2>2. Top(at) \subseteq Times
    BY <2>1, RowsAreTimes DEF Top
  <2>3. /\ file' \in [Months -> {"none", "empty", "ready"}]
        /\ merged' \subseteq Times
        /\ scan' \subseteq Months
    BY <1>12, <2>2 DEF ReadMonth, Remaining
  <2> QED
    BY <1>12, <2>3 DEF ReadMonth
<1>13. CASE Respond
  <2>1. NoRange \in [start : {0} \cup Times, end : {0} \cup Times]
    BY DEF NoRange
  <2> QED
    BY <1>13, <2>1 DEF Respond
<1>14. CASE UNCHANGED vars
  BY <1>14 DEF vars
<1> QED
  BY <1>1, <1>2, <1>3, <1>4, <1>5, <1>6, <1>7, <1>8, <1>9, <1>10, <1>11, <1>12, <1>13, <1>14
     DEF Next

\* Every variable of the readers, the indexer's tables and the clock keeps its
\* type, whatever is committed, deleted and asked for.
THEOREM Typing == Spec => []TypeOK
BY InitTyped, TypeStep, PTL DEF Spec

-----------------------------------------------------------------------------
(***************************************************************************)
(* The live tail.                                                          *)
(***************************************************************************)

\* What a poll reads are the ids next after its cursor: the numbers SendRows
\* sends are those of the rows of its query.
LEMMA PollReadsNext ==
  ASSUME TypeOK, NEW m \in Months, NEW c \in Nat,
         NEW rows, rows = {i \in DOMAIN table[m] : i > c /\ i <= c + TailLimit}
  PROVE  /\ Cardinality(rows) \in Nat
         /\ rows = {c + k : k \in 1..Cardinality(rows)}
         /\ rows = {} <=> Cardinality(rows) = 0
<1>1. DOMAIN table[m] = 1..Len(table[m]) /\ Len(table[m]) \in Nat
  BY DEF TypeOK
<1> DEFINE l == Len(table[m])
           last == IF l <= c + TailLimit THEN l ELSE c + TailLimit
<1>2. TailLimit \in Nat /\ last \in Nat
  BY <1>1, IndexReadersAssumption
<1>3. rows = (c + 1)..last
  BY <1>1, <1>2
<1> HIDE DEF last
<1>4. Cardinality(rows) = IF c + 1 > last THEN 0 ELSE last - c
  <2>1. c + 1 \in Int /\ last \in Int
    BY <1>2
  <2>2. Cardinality((c + 1)..last) = IF c + 1 > last THEN 0 ELSE last - (c + 1) + 1
    BY <2>1, FS_Interval
  <2> DEFINE w == Cardinality((c + 1)..last)
  <2>3. w = IF c + 1 > last THEN 0 ELSE last - (c + 1) + 1
    BY <2>2
  <2> HIDE DEF w
  <2>4. w = IF c + 1 > last THEN 0 ELSE last - c
    BY <1>2, <2>3
  <2> QED
    BY <1>3, <2>4 DEF w
<1> DEFINE n == Cardinality(rows)
<1>5. n \in Nat /\ (rows = {} <=> n = 0)
  BY <1>2, <1>3, <1>4
<1>6. (c + 1)..last = {c + k : k \in 1..n}
  <2>1. ASSUME NEW i \in (c + 1)..last
        PROVE  i - c \in 1..n /\ i = c + (i - c)
    BY <1>2, <1>4
  <2>2. ASSUME NEW k \in 1..n
        PROVE  c + k \in (c + 1)..last
    BY <1>2, <1>4
  <2> HIDE DEF n
  <2>3. (c + 1)..last \subseteq {c + k : k \in 1..n}
    BY <2>1
  <2> QED
    BY <2>2, <2>3
<1> QED
  BY <1>3, <1>5, <1>6

\* A month is unseeded or not in cursor and seed alike, and nothing is shown of
\* one that is not seeded.
SeedInv ==
    \A m \in Months :
        /\ cursor[m] = Unseeded <=> seed[m] = Unseeded
        /\ cursor[m] = Unseeded => shown[m] = <<>>

LEMMA ConcatEntries ==
  ASSUME NEW a \in Seq(Nat), NEW b \in Seq(Nat)
  PROVE  /\ Len(a \o b) = Len(a) + Len(b)
         /\ DOMAIN (a \o b) = 1..(Len(a) + Len(b))
         /\ \A i \in 1..Len(a) : (a \o b)[i] = a[i]
         /\ \A k \in 1..Len(b) : (a \o b)[Len(a) + k] = b[k]
OBVIOUS

\* Rows shown one after the other, from the one after place s.
CountsFrom(s, w) == \A i \in DOMAIN w : w[i] = s + i

\* What a further page adds to what has been shown, up to the new cursor.
LEMMA PageContinues ==
  ASSUME NEW s \in Nat, NEW w \in Seq(Nat), NEW p \in Seq(Nat),
         CountsFrom(s, w), CountsFrom(s + Len(w), p)
  PROVE  /\ CountsFrom(s, w \o p)
         /\ s + Len(w \o p) = s + Len(w) + Len(p)
<1> DEFINE v == w \o p
           l == Len(w)
           n == Len(p)
<1>1. /\ l \in Nat /\ DOMAIN w = 1..l
      /\ n \in Nat /\ DOMAIN p = 1..n
  OBVIOUS
<1>2. /\ Len(v) = l + n
      /\ DOMAIN v = 1..(l + n)
      /\ \A i \in 1..l : v[i] = w[i]
      /\ \A k \in 1..n : v[l + k] = p[k]
  BY ConcatEntries
<1>3. /\ \A i \in 1..l : w[i] = s + i
      /\ \A k \in 1..n : p[k] = s + l + k
  BY <1>1 DEF CountsFrom
<1> HIDE DEF v, l, n
<1>4. s + Len(v) = s + l + n
  BY <1>1, <1>2
<1>5. ASSUME NEW i \in 1..(l + n)
      PROVE  v[i] = s + i
  <2>1. CASE i \in 1..l
    BY <1>2, <1>3, <2>1
  <2>2. CASE i \notin 1..l
    <3>1. PICK k \in 1..n : i = l + k
      <4>1. i - l \in 1..n /\ i = l + (i - l)
        BY <1>1, <2>2
      <4> QED
        BY <4>1
    <3>2. v[i] = s + l + k
      BY <1>2, <1>3, <3>1
    <3>3. s + l + k = s + i
      BY <1>1, <3>1
    <3> QED
      BY <3>2, <3>3
  <2> QED
    BY <2>1, <2>2
<1>6. CountsFrom(s, v)
  BY <1>2, <1>5 DEF CountsFrom
<1> QED
  BY <1>4, <1>6 DEF v, l, n

TailInv == TailHasNoGap /\ SeedInv

LEMMA TailStep == TypeOK /\ TailInv /\ [Next]_vars => TailInv'
<1> SUFFICES ASSUME TypeOK, TailInv, [Next]_vars PROVE TailInv'
  OBVIOUS
<1>1. Unseeded \notin Nat
  BY IndexReadersAssumption
<1>2. CASE UNCHANGED <<cursor, seed, shown>>
  BY <1>2 DEF TailInv, TailHasNoGap, SeedInv
<1>3. CASE SeedTail
  <2>1. polled \in Months /\ cursor[polled] = Unseeded
    BY <1>3 DEF SeedTail, FirstPoll, TypeOK
  <2>2. seed[polled] = Unseeded /\ shown[polled] = <<>>
    BY <2>1 DEF TailInv, SeedInv
  <2> DEFINE l == Len(table[polled])
  <2>3. l \in Nat
    BY <2>1 DEF TypeOK
  <2>4. /\ cursor' = [cursor EXCEPT ![polled] = l]
        /\ seed' = [seed EXCEPT ![polled] = l]
        /\ shown' = shown
    BY <1>3, <2>1, <2>2 DEF SeedTail, TypeOK
  <2> HIDE DEF l
  <2> SUFFICES ASSUME NEW m \in Months
               PROVE  /\ cursor'[m] # Unseeded =>
                            /\ seed'[m] + Len(shown'[m]) = cursor'[m]
                            /\ \A i \in DOMAIN shown'[m] : shown'[m][i] = seed'[m] + i
                      /\ cursor'[m] = Unseeded <=> seed'[m] = Unseeded
                      /\ cursor'[m] = Unseeded => shown'[m] = <<>>
    BY DEF TailInv, TailHasNoGap, SeedInv
  <2>5. CASE m = polled
    <3>1. cursor'[m] = l /\ seed'[m] = l /\ shown'[m] = <<>>
      BY <2>1, <2>2, <2>4, <2>5 DEF TypeOK
    <3>2. l + Len(<<>>) = l /\ l # Unseeded
      BY <1>1, <2>3
    <3> QED
      BY <3>1, <3>2
  <2>6. CASE m # polled
    <3>1. cursor'[m] = cursor[m] /\ seed'[m] = seed[m] /\ shown'[m] = shown[m]
      BY <2>4, <2>6 DEF TypeOK
    <3> QED
      BY <3>1 DEF TailInv, TailHasNoGap, SeedInv
  <2> QED
    BY <2>5, <2>6
<1>4. CASE SendRows
  <2> DEFINE rows == {i \in DOMAIN table[polled] :
                        /\ i > cursor[polled]
                        /\ i <= cursor[polled] + TailLimit}
             n == Cardinality(rows)
             c == cursor[polled]
             s == seed[polled]
             w == shown[polled]
  <2>1. polled \in Months /\ c \in Nat
    BY <1>4 DEF SendRows, FirstPoll, TypeOK
  <2>2. n \in Nat /\ (rows = {} <=> n = 0)
    <3>1. rows = {i \in DOMAIN table[polled] : i > c /\ i <= c + TailLimit}
      OBVIOUS
    <3> HIDE DEF rows, c
    <3> QED
      BY <2>1, <3>1, PollReadsNext
  <2>3. /\ s + Len(w) = c
        /\ \A i \in DOMAIN w : w[i] = s + i
        /\ s \in Nat /\ w \in Seq(Nat)
    BY <1>1, <2>1 DEF TailInv, TailHasNoGap, SeedInv, TypeOK
  <2>4. NewCursor(polled, rows) = c + n
    BY <2>1, <2>2 DEF NewCursor
  <2>5. /\ cursor' = [cursor EXCEPT ![polled] = c + n]
        /\ shown' = [shown EXCEPT ![polled] = w \o [k \in 1..n |-> c + k]]
        /\ seed' = seed
    BY <1>4, <2>4 DEF SendRows
  <2> HIDE DEF rows, n
  <2> SUFFICES ASSUME NEW m \in Months
               PROVE  /\ cursor'[m] # Unseeded =>
                            /\ seed'[m] + Len(shown'[m]) = cursor'[m]
                            /\ \A i \in DOMAIN shown'[m] : shown'[m][i] = seed'[m] + i
                      /\ cursor'[m] = Unseeded <=> seed'[m] = Unseeded
                      /\ cursor'[m] = Unseeded => shown'[m] = <<>>
    BY DEF TailInv, TailHasNoGap, SeedInv
  <2>6. CASE m = polled
    <3> DEFINE p == [k \in 1..n |-> c + k]
               v == w \o p
    <3>1. cursor'[m] = c + n /\ seed'[m] = s /\ shown'[m] = v
      BY <2>1, <2>5, <2>6 DEF TypeOK
    <3>2. s + Len(v) = c + n /\ \A i \in DOMAIN v : v[i] = s + i
      <4>1. /\ c \in Nat /\ n \in Nat /\ s \in Nat /\ w \in Seq(Nat)
            /\ s + Len(w) = c /\ CountsFrom(s, w)
        BY <2>1, <2>2, <2>3 DEF CountsFrom
      <4> HIDE DEF c
      <4>2. p \in Seq(Nat) /\ Len(p) = n /\ DOMAIN p = 1..n
        BY <4>1
      <4>3. CountsFrom(c, p)
        BY <4>1 DEF CountsFrom
      <4> HIDE DEF s, w, p
      <4>4. CountsFrom(s, w \o p) /\ s + Len(w \o p) = s + Len(w) + Len(p)
        BY <4>1, <4>2, <4>3, PageContinues
      <4> QED
        BY <4>1, <4>2, <4>4 DEF CountsFrom
    <3>3. c + n \in Nat
      BY <2>1, <2>2
    <3> HIDE DEF v, c, s, w
    <3>4. cursor'[m] # Unseeded /\ seed'[m] # Unseeded
      BY <1>1, <2>3, <3>1, <3>3
    <3>5. seed'[m] + Len(shown'[m]) = cursor'[m]
      BY <3>1, <3>2
    <3>6. \A i \in DOMAIN shown'[m] : shown'[m][i] = seed'[m] + i
      BY <3>1, <3>2
    <3> QED
      BY <3>4, <3>5, <3>6
  <2>7. CASE m # polled
    <3>1. cursor'[m] = cursor[m] /\ seed'[m] = seed[m] /\ shown'[m] = shown[m]
      BY <2>5, <2>7 DEF TypeOK
    <3> QED
      BY <3>1 DEF TailInv, TailHasNoGap, SeedInv
  <2> QED
    BY <2>6, <2>7
<1>5. CASE Reconnect
  BY <1>5 DEF Reconnect, TailInv, TailHasNoGap, SeedInv
<1>6. CASE [Next]_vars /\ ~ SeedTail /\ ~ SendRows /\ ~ Reconnect
  <2>1. UNCHANGED <<cursor, seed, shown>>
    BY <1>6 DEF Next, vars, tailer, MonthBegins, CreateDatabase, CommitRow, DropMonth,
                BeginPoll, BeginSearch, BeginDevices, Begin, FindMonth, ReadMonth, Respond
  <2> QED
    BY <1>2, <2>1
<1> QED
  BY <1>3, <1>4, <1>5, <1>6

\* The live tail sends every row of a month between its first poll and its
\* cursor, each once and in the order of the ids, for any page limit, whatever
\* the indexer commits and retention deletes between two polls.
THEOREM TailFollows == Spec => []TailHasNoGap
<1>1. Init => TailInv
  BY DEF Init, TailInv, TailHasNoGap, SeedInv
<1>2. TypeOK /\ TailInv /\ [Next]_vars => TailInv'
  BY TailStep
<1>3. TailInv => TailHasNoGap
  BY DEF TailInv
<1> QED
  BY <1>1, <1>2, <1>3, Typing, PTL DEF Spec

-----------------------------------------------------------------------------
(***************************************************************************)
(* The tables.  The rows of a month's table have their time in that month, *)
(* and only a database with a schema has rows.                             *)
(***************************************************************************)

TablesInv ==
    \A m \in Months : /\ file[m] # "ready" => table[m] = <<>>
                      /\ \A t \in Rows(m) : MonthOf(t) = m

\* What the three kinds of steps do to the rows of each month.
LEMMA RowsStay ==
  ASSUME table' = table
  PROVE  \A m \in Months : Rows(m)' = Rows(m)
BY DEF Rows

LEMMA RowsOfEmpty ==
  ASSUME NEW m \in Months, table[m] = <<>>
  PROVE  Rows(m) = {}
BY DEF Rows

LEMMA EntriesAppend ==
  ASSUME NEW a \in Seq(Times), NEW t \in Times
  PROVE  LET b == Append(a, t)
         IN  {b[i] : i \in DOMAIN b} = {a[i] : i \in DOMAIN a} \cup {t}
<1> DEFINE b == Append(a, t)
<1>1. /\ DOMAIN b = 1..(Len(a) + 1)
      /\ \A i \in 1..Len(a) : b[i] = a[i]
      /\ b[Len(a) + 1] = t
  OBVIOUS
<1>2. DOMAIN a = 1..Len(a) /\ Len(a) \in Nat
  OBVIOUS
<1> HIDE DEF b
<1>3. \A i \in DOMAIN b : b[i] \in {a[j] : j \in DOMAIN a} \cup {t}
  BY <1>1, <1>2
<1>4. \A i \in DOMAIN a : a[i] \in {b[j] : j \in DOMAIN b}
  BY <1>1, <1>2
<1>5. t \in {b[j] : j \in DOMAIN b}
  BY <1>1, <1>2
<1> QED
  BY <1>3, <1>4, <1>5 DEF b

LEMMA CommitAdds ==
  ASSUME TypeOK, NEW t \in Times, NEW k \in Months,
         table' = [table EXCEPT ![k] = Append(@, t)]
  PROVE  \A m \in Months : Rows(m)' = IF m = k THEN Rows(m) \cup {t} ELSE Rows(m)
<1>1. table'[k] = Append(table[k], t) /\ table[k] \in Seq(Times)
  BY DEF TypeOK
<1>2. \A m \in Months : m # k => table'[m] = table[m]
  BY DEF TypeOK
<1>3. Rows(k)' = Rows(k) \cup {t}
  BY <1>1, EntriesAppend DEF Rows
<1> QED
  BY <1>2, <1>3 DEF Rows

LEMMA DropEmpties ==
  ASSUME TypeOK, NEW k \in Months, table' = [table EXCEPT ![k] = <<>>]
  PROVE  \A m \in Months : Rows(m)' = IF m = k THEN {} ELSE Rows(m)
<1>1. table'[k] = <<>> /\ \A m \in Months : m # k => table'[m] = table[m]
  BY DEF TypeOK
<1> QED
  BY <1>1 DEF Rows

LEMMA TablesStep == TypeOK /\ TablesInv /\ [Next]_vars => TablesInv'
<1> SUFFICES ASSUME TypeOK, TablesInv, [Next]_vars PROVE TablesInv'
  OBVIOUS
<1>1. CASE UNCHANGED <<file, table>>
  BY <1>1 DEF TablesInv, Rows
<1>2. CASE CreateDatabase
  <2>1. PICK k \in Months :
           \/ file[k] = "none" /\ file' = [file EXCEPT ![k] = "empty"]
           \/ file[k] = "empty" /\ file' = [file EXCEPT ![k] = "ready"]
    <3>1. (1..month) \subseteq Months
      BY IndexReadersAssumption DEF TypeOK, Months
    <3> QED
      BY <1>2, <3>1 DEF CreateDatabase
  <2>2. table' = table
    BY <1>2 DEF CreateDatabase
  <2>3. table[k] = <<>>
    BY <2>1 DEF TablesInv
  <2>4. \A m \in Months : m # k => file'[m] = file[m]
    BY <2>1 DEF TypeOK
  <2> QED
    BY <2>2, <2>3, <2>4, RowsStay DEF TablesInv
<1>3. CASE CommitRow
  <2>1. PICK t \in Times :
           /\ MonthOf(t) \in {month, month - 1} \ gone
           /\ file[MonthOf(t)] = "ready"
           /\ table' = [table EXCEPT ![MonthOf(t)] = Append(@, t)]
    BY <1>3 DEF CommitRow
  <2>2. MonthOf(t) \in Months
    BY <2>1, NewRowHasMonth
  <2>3. file' = file
    BY <1>3 DEF CommitRow
  <2> SUFFICES ASSUME NEW m \in Months
               PROVE  /\ file'[m] # "ready" => table'[m] = <<>>
                      /\ \A u \in Rows(m)' : MonthOf(u) = m
    BY DEF TablesInv
  <2>4. m # MonthOf(t) => table'[m] = table[m]
    BY <2>1 DEF TypeOK
  <2>5. Rows(m)' = IF m = MonthOf(t) THEN Rows(m) \cup {t} ELSE Rows(m)
    BY <2>1, <2>2, CommitAdds
  <2> QED
    BY <2>1, <2>3, <2>4, <2>5 DEF TablesInv
<1>4. CASE DropMonth
  <2>1. PICK k \in 1..(month - 1) :
           /\ file' = [file EXCEPT ![k] = "none"]
           /\ table' = [table EXCEPT ![k] = <<>>]
    BY <1>4 DEF DropMonth
  <2>2. k \in Months
    BY IndexReadersAssumption DEF TypeOK, Months
  <2>3. \A m \in Months : Rows(m)' = IF m = k THEN {} ELSE Rows(m)
    BY <2>1, <2>2, DropEmpties
  <2>4. /\ table'[k] = <<>>
        /\ \A m \in Months : m # k => table'[m] = table[m] /\ file'[m] = file[m]
    BY <2>1, <2>2 DEF TypeOK
  <2> QED
    BY <2>3, <2>4 DEF TablesInv
<1>5. CASE ReadMonth
  <2>1. table' = table
    BY <1>5 DEF ReadMonth
  <2>2. \A m \in Months : file'[m] # "ready" => file[m] # "ready"
    BY <1>5 DEF ReadMonth, TypeOK
  <2> QED
    BY <2>1, <2>2, RowsStay DEF TablesInv
<1>6. CASE ~ CreateDatabase /\ ~ CommitRow /\ ~ DropMonth /\ ~ ReadMonth
  <2>1. UNCHANGED <<file, table>>
    BY <1>6 DEF Next, vars, clock, MonthBegins, BeginPoll, SeedTail, SendRows, Reconnect,
                BeginSearch, BeginDevices, Begin, FindMonth, Respond
  <2> QED
    BY <1>1, <2>1
<1> QED
  BY <1>2, <1>3, <1>4, <1>5, <1>6

LEMMA InitTables == Init => TablesInv
BY DEF Init, TablesInv, Rows

LEMMA TablesHold == Spec => [](TypeOK /\ TablesInv)
BY Typing, InitTables, TablesStep, PTL DEF Spec

-----------------------------------------------------------------------------
(***************************************************************************)
(* Requests.                                                               *)
(***************************************************************************)

\* A request has found a month it has yet to read, of those it is about; it
\* has read nothing before it began; all rows there since it began match it and
\* are still in their tables, and no row that matches it escapes the ghost ever.
RequestInv ==
    /\ at # 0 => at \in scan
    /\ scan \subseteq scope
    /\ query = "idle" => scan = {} /\ merged = {} /\ aggregated = <<>>
    /\ query # "search" => range = NoRange
    /\ always \subseteq ever
    /\ \A t \in always : t \in AllRows /\ Matches(t, range)
    /\ \A m \in scope : \A t \in Rows(m) : Matches(t, range) => t \in ever

\* A row there since a request began, of month m, is in the table of m.
LEMMA AlwaysInTable ==
  ASSUME TablesInv, RequestInv, NEW t \in always
  PROVE  MonthOf(t) \in Months /\ t \in Rows(MonthOf(t))
BY DEF RequestInv, TablesInv, AllRows

\* At its beginning a request is about the rows of the months it is to read.
LEMMA RequestBegins ==
  ASSUME TypeOK, RequestInv, NEW months, NEW all, Begin(months, all),
         months \subseteq all, all \subseteq Months,
         query' # "idle", query' # "search" => range' = NoRange
  PROVE  RequestInv'
<1>1. at = 0
  BY DEF RequestInv, Begin
<1>2. at' = 0 /\ scan' = months /\ scope' = all /\ table' = table
  BY <1>1 DEF Begin, clock
<1>3. \A m \in Months : Rows(m)' = Rows(m)
  BY <1>2, RowsStay
<1>4. /\ always' = {t \in UNION {Rows(m) : m \in all} : Matches(t, range')}
      /\ ever' = always'
  BY DEF Begin
<1>5. \A t : Matches(t, range)' <=> Matches(t, range')
  BY DEF Matches
<1>6. \A t \in always' : t \in AllRows' /\ Matches(t, range)'
  BY <1>3, <1>4, <1>5 DEF AllRows
<1>7. \A m \in scope' : \A t \in Rows(m)' : Matches(t, range)' => t \in ever'
  BY <1>2, <1>3, <1>4, <1>5
<1> QED
  BY <1>2, <1>4, <1>6, <1>7 DEF RequestInv, NoRange

LEMMA RequestStep == TypeOK /\ TablesInv /\ RequestInv /\ [Next]_vars => RequestInv'
<1> SUFFICES ASSUME TypeOK, TablesInv, RequestInv, [Next]_vars PROVE RequestInv'
  OBVIOUS
<1>1. CASE UNCHANGED <<table, reader>>
  BY <1>1 DEF RequestInv, Rows, AllRows, Matches, NoRange, reader, asked, found
<1>2. CASE CommitRow
  <2>1. PICK t \in Times :
           /\ MonthOf(t) \in {month, month - 1} \ gone
           /\ table' = [table EXCEPT ![MonthOf(t)] = Append(@, t)]
           /\ ever' = ever \cup {u \in {t} : MonthOf(u) \in scope /\ Matches(u, range)}
    BY <1>2 DEF CommitRow
  <2>2. MonthOf(t) \in Months
    BY <2>1, NewRowHasMonth
  <2>3. \A m \in Months : Rows(m)' = IF m = MonthOf(t) THEN Rows(m) \cup {t} ELSE Rows(m)
    BY <2>1, <2>2, CommitAdds
  <2>4. UNCHANGED <<query, offset, limit, range, scope, scan, at, merged, aggregated, always>>
    BY <1>2 DEF CommitRow, asked, found
  <2>5. \A u : Matches(u, range)' <=> Matches(u, range)
    BY <2>4 DEF Matches
  <2>6. \A u \in always' : u \in AllRows' /\ Matches(u, range)'
    BY <2>3, <2>4, <2>5 DEF RequestInv, AllRows
  <2>7. ASSUME NEW m \in scope', NEW u \in Rows(m)', Matches(u, range)'
        PROVE  u \in ever'
    <3>1. m \in Months /\ m \in scope /\ Matches(u, range)
      BY <2>4, <2>5, <2>7 DEF TypeOK
    <3>2. CASE u \in Rows(m)
      BY <2>1, <3>1, <3>2 DEF RequestInv
    <3>3. CASE m = MonthOf(t) /\ u = t
      BY <2>1, <3>1, <3>3
    <3> QED
      BY <2>3, <2>7, <3>1, <3>2, <3>3
  <2> QED
    BY <2>1, <2>4, <2>6, <2>7 DEF RequestInv, NoRange
<1>3. CASE DropMonth
  <2>1. PICK k \in 1..(month - 1) :
           /\ table' = [table EXCEPT ![k] = <<>>]
           /\ always' = always \ Rows(k)
    BY <1>3 DEF DropMonth
  <2>2. k \in Months
    BY IndexReadersAssumption DEF TypeOK, Months
  <2>3. \A m \in Months : Rows(m)' = IF m = k THEN {} ELSE Rows(m)
    BY <2>1, <2>2, DropEmpties
  <2>4. UNCHANGED <<query, offset, limit, range, scope, scan, at, merged, aggregated, ever>>
    BY <1>3 DEF DropMonth, asked, found
  <2>5. \A u : Matches(u, range)' <=> Matches(u, range)
    BY <2>4 DEF Matches
  <2>6. \A u \in always' : u \in AllRows' /\ Matches(u, range)'
    BY <2>1, <2>3, <2>5 DEF RequestInv, AllRows
  <2>7. \A m \in scope' : \A u \in Rows(m)' : Matches(u, range)' => u \in ever'
    BY <2>3, <2>4, <2>5 DEF RequestInv, TypeOK
  <2> QED
    BY <2>1, <2>4, <2>6, <2>7 DEF RequestInv, NoRange
<1>4. CASE BeginSearch
  <2>1. /\ Begin(Relevant(range'), IF range' = NoRange THEN RecentMonths ELSE Available)
        /\ query' = "search"
    BY <1>4 DEF BeginSearch
  <2>2. Relevant(range') \subseteq IF range' = NoRange THEN RecentMonths ELSE Available
    BY RelevantAreMonths DEF Relevant
  <2> QED
    BY <2>1, <2>2, RelevantAreMonths, RequestBegins
<1>5. CASE BeginDevices
  <2>1. Begin(RecentMonths, RecentMonths) /\ query' = "devices" /\ range' = range
    BY <1>5 DEF BeginDevices
  <2>2. range = NoRange
    BY <2>1 DEF Begin, RequestInv
  <2> QED
    BY <2>1, <2>2, RelevantAreMonths, RequestBegins
<1>6. CASE FindMonth
  <2>1. UNCHANGED <<query, range, scope, merged, aggregated, always, ever, table>>
    BY <1>6 DEF FindMonth, clock, asked
  <2>2. scan' \subseteq scan /\ (at' # 0 => at' \in scan')
    BY <1>6 DEF FindMonth
  <2> QED
    BY <2>1, <2>2 DEF RequestInv, Rows, AllRows, Matches, NoRange
<1>7. CASE ReadMonth
  <2>1. UNCHANGED <<query, range, scope, always, ever, table>>
    BY <1>7 DEF ReadMonth, asked
  <2>2. scan' \subseteq scan /\ at' = 0 /\ query # "idle"
    BY <1>7 DEF ReadMonth, Remaining, RequestInv
  <2> QED
    BY <2>1, <2>2 DEF RequestInv, Rows, AllRows, Matches, NoRange
<1>8. CASE Respond
  <2>1. /\ scan' = {} /\ at' = 0 /\ range' = NoRange /\ merged' = {} /\ aggregated' = <<>>
        /\ scope' = {} /\ always' = {} /\ ever' = {}
    BY <1>8 DEF Respond, Done, RequestInv
  <2> QED
    BY <2>1 DEF RequestInv, NoRange
<1>9. CASE ~ CommitRow /\ ~ DropMonth /\ ~ BeginSearch /\ ~ BeginDevices /\ ~ FindMonth
           /\ ~ ReadMonth /\ ~ Respond
  <2>1. UNCHANGED <<table, reader>>
    BY <1>9 DEF Next, vars, clock, MonthBegins, CreateDatabase, BeginPoll, SeedTail, SendRows,
                Reconnect
  <2> QED
    BY <1>1, <2>1
<1> QED
  BY <1>2, <1>3, <1>4, <1>5, <1>6, <1>7, <1>8, <1>9

LEMMA InitRequest == Init => RequestInv
BY DEF Init, RequestInv, NoRange

\* The months to read hold every row there since the request began, and a month
\* that is passed over since its file has gone holds none of them.
LEMMA BeginCovers ==
  ASSUME TypeOK, TablesInv, NEW months, NEW all, Begin(months, all), all \subseteq Months,
         \/ months = all
         \/ /\ range' \in [start : {0} \cup Times, end : {0} \cup Times]
            /\ months = Relevant(range')
            /\ range' # NoRange
            /\ all = Available
  PROVE  \A t \in always' : MonthOf(t) \in scan'
<1> SUFFICES ASSUME NEW t \in always' PROVE MonthOf(t) \in scan'
  OBVIOUS
<1>1. scan' = months
  BY DEF Begin
<1>2. PICK m \in all : t \in Rows(m) /\ Matches(t, range')
  BY DEF Begin
<1>3. MonthOf(t) = m /\ t \in Times
  BY <1>2, RowsAreTimes DEF TablesInv
<1>4. CASE months = all
  BY <1>1, <1>2, <1>3, <1>4
<1>5. CASE /\ range' \in [start : {0} \cup Times, end : {0} \cup Times]
           /\ months = Relevant(range')
           /\ range' # NoRange
           /\ all = Available
  <2> DEFINE a == range'.start
             z == range'.end
  <2>1. a \in {0} \cup Times /\ z \in {0} \cup Times
    BY <1>5
  <2>2. (a # 0 => a <= t) /\ (z # 0 => t <= z)
    <3>1. (a # 0 => t >= a) /\ (z # 0 => t <= z)
      BY <1>2 DEF Matches
    <3> HIDE DEF a, z
    <3>2. a \in Nat /\ t \in Nat
      BY <1>3, <2>1, TimesAreFinite
    <3> QED
      BY <3>1, <3>2
  <2>3. a = 0 \/ MonthOf(a) <= m
    BY <1>3, <2>1, <2>2, MonthOfTime
  <2>4. z = 0 \/ m <= MonthOf(z)
    BY <1>3, <2>1, <2>2, MonthOfTime
  <2>5. a # 0 => MonthOf(a) \in Nat
    BY <2>1, MonthOfTime
  <2>6. m \in Nat
    BY <1>3, MonthOfTime
  <2>7. a = 0 \/ m >= MonthOf(a)
    <3> DEFINE x == MonthOf(a)
    <3> HIDE DEF x
    <3> QED
      BY <2>3, <2>5, <2>6 DEF x
  <2>8. m \in Relevant(range')
    BY <1>2, <1>5, <2>4, <2>7 DEF Relevant
  <2> QED
    BY <1>1, <1>3, <1>5, <2>8
<1> QED
  BY <1>4, <1>5

LEMMA PassedOverIsEmpty ==
  ASSUME TablesInv, RequestInv, NEW m \in Months, file[m] = "none"
  PROVE  \A t \in always : MonthOf(t) # m
<1>1. Rows(m) = {}
  BY RowsOfEmpty DEF TablesInv
<1> QED
  BY <1>1, AlwaysInTable

LEMMA RequestHolds == Spec => [](TypeOK /\ TablesInv /\ RequestInv)
BY TablesHold, InitRequest, RequestStep, PTL DEF Spec

-----------------------------------------------------------------------------
(***************************************************************************)
(* Pages.  A row there since the search began is in a month still to be    *)
(* read, has been read, or stands behind more rows than the page needs:    *)
(* the limit of each month's query leaves out no other row.                *)
(***************************************************************************)

Superseded(t) == Rank(t, merged) >= PerMonthLimit

MergedInv ==
    query = "search" =>
        /\ merged \subseteq ever
        /\ \A t \in always : MonthOf(t) \in scan \/ t \in merged \/ Superseded(t)

LEMMA PerMonthLimitType == TypeOK => PerMonthLimit \in Nat
BY DEF TypeOK, PerMonthLimit

\* A row that is superseded stays so when more rows are merged.
LEMMA StaysSuperseded ==
  ASSUME TypeOK, NEW t \in Times, NEW S \in SUBSET Times, merged \subseteq S,
         Superseded(t)
  PROVE  Rank(t, S) >= PerMonthLimit
<1>1. Rank(t, merged) <= Rank(t, S)
  BY RankGrows DEF TypeOK
<1>2. Rank(t, merged) \in Nat /\ Rank(t, S) \in Nat /\ PerMonthLimit \in Nat
  BY RankType, PerMonthLimitType DEF TypeOK
<1>3. Rank(t, merged) >= PerMonthLimit
  BY DEF Superseded
<1> QED
  BY <1>1, <1>2, <1>3

\* A query of a month returns rows that match, and each that it leaves out ranks
\* behind a page's worth of those it returns.
LEMMA TopIsEnough ==
  ASSUME TypeOK, NEW m \in Months
  PROVE  /\ Top(m) \in SUBSET Times
         /\ \A t \in Top(m) : t \in Rows(m) /\ Matches(t, range)
         /\ \A t \in Rows(m) : Matches(t, range) =>
               t \in Top(m) \/ Rank(t, Top(m)) >= PerMonthLimit
<1> DEFINE S == {t \in Rows(m) : Matches(t, range)}
           n == PerMonthLimit
<1>1. S \in SUBSET Times
  BY RowsAreTimes
<1>2. n \in Nat
  BY PerMonthLimitType
<1>3. Top(m) = {t \in S : Rank(t, S) < n}
  BY DEF Top
<1>4. \A t \in Rows(m) : Matches(t, range) => t \in S
  OBVIOUS
<1>5. \A t \in S : t \in Rows(m) /\ Matches(t, range)
  OBVIOUS
<1> HIDE DEF S, n
<1>6. ASSUME NEW t \in S, t \notin Top(m)
      PROVE  Rank(t, Top(m)) >= n
  <2>1. ~ (Rank(t, S) < n)
    BY <1>3, <1>6
  <2> QED
    BY <1>1, <1>2, <1>3, <2>1, LeftOutIsBehind
<1> QED
  BY <1>1, <1>3, <1>4, <1>5, <1>6 DEF n

LEMMA MergedStep ==
  TypeOK /\ TablesInv /\ RequestInv /\ TypeOK' /\ MergedInv /\ [Next]_vars => MergedInv'
<1> SUFFICES ASSUME TypeOK, TablesInv, RequestInv, TypeOK', MergedInv, [Next]_vars,
                    query' = "search"
             PROVE  /\ merged' \subseteq ever'
                    /\ \A t \in always' :
                          \/ MonthOf(t) \in scan'
                          \/ t \in merged'
                          \/ Rank(t, merged') >= offset' + limit' + 1
  BY DEF MergedInv, Superseded, PerMonthLimit
<1>1. CASE /\ UNCHANGED <<query, offset, limit, merged>>
           /\ always' \subseteq always
           /\ ever \subseteq ever'
           /\ \A t \in always : MonthOf(t) \in scan => MonthOf(t) \in scan'
  BY <1>1 DEF MergedInv, Superseded, PerMonthLimit
<1>2. CASE BeginSearch
  <2> DEFINE all == IF range' = NoRange THEN RecentMonths ELSE Available
  <2>1. Begin(Relevant(range'), all) /\ all \subseteq Months
    BY <1>2, RelevantAreMonths DEF BeginSearch
  <2>2. \/ Relevant(range') = all
        \/ /\ range' \in [start : {0} \cup Times, end : {0} \cup Times]
           /\ range' # NoRange
           /\ all = Available
    BY DEF Relevant, TypeOK
  <2>3. \A t \in always' : MonthOf(t) \in scan'
    <3> DEFINE months == Relevant(range')
    <3> HIDE DEF all
    <3> QED
      BY <2>1, <2>2, BeginCovers
  <2>4. merged' = {}
    BY <2>1 DEF Begin, RequestInv
  <2> QED
    BY <2>3, <2>4
<1>3. CASE FindMonth
  <2>1. PICK m \in scan : IF file[m] = "none" THEN scan' = scan \ {m} ELSE scan' = scan
    BY <1>3 DEF FindMonth
  <2>2. file[m] = "none" => \A t \in always : MonthOf(t) # m
    BY PassedOverIsEmpty DEF TypeOK
  <2>3. \A t \in always : MonthOf(t) \in scan => MonthOf(t) \in scan'
    BY <2>1, <2>2
  <2> QED
    BY <1>1, <1>3, <2>3 DEF FindMonth, asked
<1>4. CASE ReadMonth
  <2>1. /\ at \in Months /\ at \in scan /\ at \in scope
        /\ scan' = scan \ {at}
        /\ UNCHANGED <<query, offset, limit, always, ever>>
    BY <1>4 DEF ReadMonth, Remaining, asked, RequestInv, TypeOK
  <2>2. query = "search" /\ merged' = merged \cup Top(at)
    BY <1>4, <2>1 DEF ReadMonth
  <2>3. Top(at) \subseteq ever
    BY <2>1, TopIsEnough DEF RequestInv
  <2>4. merged' \subseteq ever'
    BY <2>1, <2>2, <2>3 DEF MergedInv
  <2>5. merged' \in SUBSET Times
    BY DEF TypeOK
  <2>6. offset' + limit' + 1 = PerMonthLimit
    BY <2>1 DEF PerMonthLimit
  <2>7. ASSUME NEW t \in always', MonthOf(t) \notin scan', t \notin merged'
        PROVE  Rank(t, merged') >= PerMonthLimit
    <3>1. t \in Times /\ t \in always
      BY <2>1, <2>7 DEF TypeOK
    <3>2. CASE MonthOf(t) = at
      <4>1. t \in Rows(at) /\ Matches(t, range)
        BY <3>1, <3>2, AlwaysInTable DEF RequestInv
      <4>2. Top(at) \in SUBSET Times /\ Rank(t, Top(at)) >= PerMonthLimit
        BY <2>1, <2>2, <2>7, <4>1, TopIsEnough
      <4>3. Rank(t, Top(at)) <= Rank(t, merged')
        BY <2>2, <2>5, <3>1, <4>2, RankGrows
      <4>4. Rank(t, Top(at)) \in Nat /\ Rank(t, merged') \in Nat /\ PerMonthLimit \in Nat
        BY <2>5, <3>1, <4>2, RankType, PerMonthLimitType
      <4> QED
        BY <4>2, <4>3, <4>4
    <3>3. CASE MonthOf(t) # at
      <4>1. Superseded(t)
        BY <2>1, <2>2, <2>7, <3>1, <3>3 DEF MergedInv
      <4> QED
        BY <2>2, <2>5, <3>1, <4>1, StaysSuperseded
    <3> QED
      BY <3>2, <3>3
  <2> QED
    BY <2>4, <2>6, <2>7
<1>5. CASE BeginDevices \/ Respond
  BY <1>5 DEF BeginDevices, Respond
<1>6. CASE ~ BeginSearch /\ ~ FindMonth /\ ~ ReadMonth /\ ~ BeginDevices /\ ~ Respond
  <2>1. /\ UNCHANGED <<query, offset, limit, merged, scan>>
        /\ always' \subseteq always
        /\ ever \subseteq ever'
    BY <1>6 DEF Next, vars, clock, reader, asked, found, MonthBegins, CreateDatabase, CommitRow,
                DropMonth, BeginPoll, SeedTail, SendRows, Reconnect
  <2> QED
    BY <1>1, <2>1
<1> QED
  BY <1>2, <1>3, <1>4, <1>5, <1>6

\* At the end of a search, what stood above a row of few ranks all along has been
\* merged, so its rank in merged is between those of always and of ever.
LEMMA RanksBetween ==
  ASSUME TypeOK, MergedInv, Done, query = "search", NEW t \in Times,
         Rank(t, merged) < PerMonthLimit
  PROVE  Rank(t, always) <= Rank(t, merged)
<1> USE DEF TypeOK
<1>1. ASSUME NEW u \in always, u > t
      PROVE  u \in merged
  <2>1. u \in merged \/ Superseded(u)
    BY DEF MergedInv, Done
  <2>2. CASE Superseded(u)
    <3>1. u \in Times /\ merged \in SUBSET Times
      OBVIOUS
    <3>2. ASSUME NEW v \in merged, v > u
          PROVE  v > t
      <4>1. v \in Nat /\ u \in Nat /\ t \in Nat
        BY <3>1, TimesAreFinite
      <4> QED
        BY <1>1, <3>2, <4>1
    <3>3. Rank(u, merged) <= Rank(t, merged)
      BY <3>1, <3>2, RankGrows
    <3>4. Rank(u, merged) >= PerMonthLimit
      BY <2>2 DEF Superseded
    <3>5. Rank(u, merged) \in Nat /\ Rank(t, merged) \in Nat /\ PerMonthLimit \in Nat
      BY <3>1, RankType, PerMonthLimitType
    <3> QED
      BY <3>3, <3>4, <3>5
  <2> QED
    BY <2>1, <2>2
<1> QED
  BY <1>1, RankGrows

LEMMA MergedGivesPage ==
  ASSUME TypeOK, RequestInv, MergedInv
  PROVE  PageIsStable
<1> USE DEF TypeOK
<1> SUFFICES ASSUME Done, query = "search"
             PROVE  /\ \A t \in Page : /\ t \in ever
                                       /\ Rank(t, ever) >= offset
                                       /\ Rank(t, always) < offset + limit
                    /\ \A t \in always :
                          Rank(t, always) >= offset /\ Rank(t, ever) < offset + limit
                              => t \in Page
  BY DEF PageIsStable
<1>1. merged \subseteq ever /\ always \subseteq ever
  BY DEF MergedInv, RequestInv
<1>2. offset \in Nat /\ limit \in Nat /\ PerMonthLimit = offset + limit + 1
  BY DEF PerMonthLimit
<1>3. ASSUME NEW t \in Times
      PROVE  /\ Rank(t, always) \in Nat
             /\ Rank(t, merged) \in Nat
             /\ Rank(t, ever) \in Nat
             /\ Rank(t, merged) <= Rank(t, ever)
             /\ Rank(t, merged) < PerMonthLimit => Rank(t, always) <= Rank(t, merged)
  <2>1. Rank(t, merged) <= Rank(t, ever)
    BY <1>1, RankGrows
  <2> QED
    BY <2>1, RankType, RanksBetween
<1>4. ASSUME NEW t \in Page
      PROVE  t \in ever /\ Rank(t, ever) >= offset /\ Rank(t, always) < offset + limit
  <2>1. t \in merged /\ t \in Times /\ Rank(t, merged) \in offset..(offset + limit - 1)
    BY DEF Page
  <2> DEFINE a == Rank(t, always)
             r == Rank(t, merged)
             e == Rank(t, ever)
  <2>2. /\ a \in Nat /\ r \in Nat /\ e \in Nat
        /\ r <= e
        /\ r < offset + limit + 1 => a <= r
        /\ r \in offset..(offset + limit - 1)
    BY <1>2, <1>3, <2>1
  <2> HIDE DEF a, r, e
  <2>3. e >= offset /\ a < offset + limit
    BY <1>2, <2>2
  <2> QED
    BY <1>1, <2>1, <2>3 DEF a, e
<1>5. ASSUME NEW t \in always, Rank(t, always) >= offset, Rank(t, ever) < offset + limit
      PROVE  t \in Page
  <2> DEFINE a == Rank(t, always)
             r == Rank(t, merged)
             e == Rank(t, ever)
  <2>1. /\ a \in Nat /\ r \in Nat /\ e \in Nat
        /\ r <= e
        /\ r < offset + limit + 1 => a <= r
        /\ a >= offset /\ e < offset + limit
    BY <1>2, <1>3, <1>5
  <2> HIDE DEF a, r, e
  <2>2. r \in offset..(offset + limit - 1) /\ ~ (r >= offset + limit + 1)
    BY <1>2, <2>1
  <2>3. t \in merged
    BY <1>2, <2>2 DEF MergedInv, Done, Superseded, r
  <2> QED
    BY <2>2, <2>3 DEF Page, r
<1> QED
  BY <1>4, <1>5

LEMMA MergedGivesHasMore ==
  ASSUME TypeOK, RequestInv, MergedInv
  PROVE  HasMoreIsRight
<1> USE DEF TypeOK
<1> SUFFICES ASSUME Done, query = "search"
             PROVE  /\ Cardinality(always) > offset + limit => HasMore
                    /\ HasMore => Cardinality(ever) > offset + limit
  BY DEF HasMoreIsRight
<1> DEFINE a == Cardinality(always)
           c == Cardinality(merged)
           e == Cardinality(ever)
<1>1. /\ IsFiniteSet(always) /\ IsFiniteSet(merged) /\ IsFiniteSet(ever)
      /\ a \in Nat /\ c \in Nat /\ e \in Nat
  BY TimesAreFinite
<1>2. c <= e
  BY <1>1, FS_Subset DEF MergedInv
<1>3. a <= c \/ c >= offset + limit + 1
  <2>1. CASE always \subseteq merged
    BY <1>1, <2>1, FS_Subset
  <2>2. CASE ~ (always \subseteq merged)
    <3>1. PICK t \in always : t \notin merged
      BY <2>2
    <3>2. Rank(t, merged) >= PerMonthLimit
      BY <3>1 DEF MergedInv, Done, Superseded
    <3>3. Rank(t, merged) \in Nat /\ Rank(t, merged) <= c /\ PerMonthLimit \in Nat
      BY RankType, PerMonthLimitType
    <3>4. c >= PerMonthLimit
      <4> HIDE DEF c
      <4> QED
        BY <1>1, <3>2, <3>3
    <3> QED
      BY <3>4 DEF PerMonthLimit
  <2> QED
    BY <2>1, <2>2
<1>4. offset \in Nat /\ limit \in Nat
  OBVIOUS
<1> HIDE DEF a, c, e
<1>5. (a > offset + limit => c > offset + limit) /\ (c > offset + limit => e > offset + limit)
  BY <1>1, <1>2, <1>3, <1>4
<1> QED
  BY <1>5 DEF HasMore, a, c, e

LEMMA MergedHolds == Spec => [](TypeOK /\ TablesInv /\ RequestInv /\ MergedInv)
<1>1. Init => MergedInv
  BY DEF Init, MergedInv
<1> QED
  BY <1>1, RequestHolds, MergedStep, PTL DEF Spec

\* A page is as good as one of a single moment, for any number of months, rows,
\* page sizes and offsets, though it is read month by month while rows are
\* committed and months deleted.
THEOREM Pages == Spec => []PageIsStable
<1>1. TypeOK /\ RequestInv /\ MergedInv => PageIsStable
  BY MergedGivesPage
<1> QED
  BY <1>1, MergedHolds, PTL

\* The link to a next page is there whenever more rows were there all along than
\* the page shows, and only if there were more at some time.
THEOREM NextPage == Spec => []HasMoreIsRight
<1>1. TypeOK /\ RequestInv /\ MergedInv => HasMoreIsRight
  BY MergedGivesHasMore
<1> QED
  BY <1>1, MergedHolds, PTL

-----------------------------------------------------------------------------
(***************************************************************************)
(* The list of devices.  What has been aggregated are the groups of the    *)
(* rows read so far, as one query of all of them would have grouped them.  *)
(***************************************************************************)

Known(S, k) == {t \in S : DeviceKey(t) = k}

Keys(S) == {DeviceKey(t) : t \in S}

\* The latest row of two sets together is the later of their latest.
LEMMA NewestOfBoth ==
  ASSUME NEW A \in SUBSET Times, A # {}, NEW B \in SUBSET Times, B # {}, A \cap B = {}
  PROVE  Newest(A \cup B) = IF Newest(B) > Newest(A) THEN Newest(B) ELSE Newest(A)
<1> DEFINE a == Newest(A)
           b == Newest(B)
           c == IF b > a THEN b ELSE a
<1>1. /\ a \in A /\ \A u \in A : u <= a
      /\ b \in B /\ \A u \in B : u <= b
  BY NewestIsLatest
<1> HIDE DEF a, b
<1>2. a \in Nat /\ b \in Nat /\ \A u \in A \cup B : u \in Nat
  BY <1>1, TimesAreFinite
<1>3. c \in A \cup B
  BY <1>1
<1>4. a <= c /\ b <= c /\ c \in Nat
  BY <1>2
<1>5. ASSUME NEW u \in A \cup B
      PROVE  u <= c
  <2>1. u <= a \/ u <= b
    BY <1>1
  <2>2. u \in Nat
    BY <1>2
  <2> HIDE DEF c
  <2> QED
    BY <1>2, <1>4, <2>1, <2>2
<1>6. A \cup B \in SUBSET Times /\ A \cup B # {}
  OBVIOUS
<1> HIDE DEF c
<1>7. c = Newest(A \cup B)
  BY <1>3, <1>5, <1>6, NewestIsLatest
<1> QED
  BY <1>7 DEF a, b, c

\* A device of two months is shown as one query of both would show it.
LEMMA MergedIsTogether ==
  ASSUME NEW A \in SUBSET Times, A # {}, NEW B \in SUBSET Times, B # {}, A \cap B = {}
  PROVE  MergedDevice(Device(A), Device(B)) = Device(A \cup B)
<1> DEFINE a == Newest(A)
           b == Newest(B)
           c == Newest(A \cup B)
           n == Cardinality(A)
           k == Cardinality(B)
           l == Cardinality(A \cup B)
<1>1. c = IF b > a THEN b ELSE a
  BY NewestOfBoth
<1>2. l = n + k
  <2>1. IsFiniteSet(A) /\ IsFiniteSet(B) /\ n \in Nat /\ k \in Nat
    BY TimesAreFinite
  <2>2. l = n + k - Cardinality(A \cap B)
    BY <2>1, FS_Union
  <2>3. Cardinality(A \cap B) = 0
    BY FS_EmptySet
  <2> HIDE DEF n, k, l
  <2> QED
    BY <2>1, <2>2, <2>3
<1>3. /\ Device(A) = [source_ip |-> AddressOf[a], host |-> HostOf[a], last_seen |-> a,
                      message_count |-> n]
      /\ Device(B) = [source_ip |-> AddressOf[b], host |-> HostOf[b], last_seen |-> b,
                      message_count |-> k]
      /\ Device(A \cup B) = [source_ip |-> AddressOf[c], host |-> HostOf[c], last_seen |-> c,
                             message_count |-> l]
  BY DEF Device
<1> HIDE DEF a, b, c, n, k, l
<1>4. CASE b > a
  <2>1. MergedDevice(Device(A), Device(B)) = [Device(B) EXCEPT !.message_count = n + k]
    BY <1>3, <1>4 DEF MergedDevice
  <2> QED
    BY <1>1, <1>2, <1>3, <1>4, <2>1
<1>5. CASE ~ (b > a)
  <2>1. MergedDevice(Device(A), Device(B)) = [Device(A) EXCEPT !.message_count = n + k]
    BY <1>3, <1>5 DEF MergedDevice
  <2> QED
    BY <1>1, <1>2, <1>3, <1>5, <2>1
<1> QED
  BY <1>4, <1>5

\* The groups of a set of rows are those of its keys.
LEMMA GroupsAre ==
  ASSUME NEW S
  PROVE  /\ DOMAIN GroupsOf(S) = Keys(S)
         /\ GroupsOf(S) = [k \in Keys(S) |-> Device(Known(S, k))]
         /\ \A k : k \in Keys(S) <=> Known(S, k) # {}
BY DEF GroupsOf, Keys, Known

\* Merging the groups of two months gives the groups of their rows together.
LEMMA GroupsMerge ==
  ASSUME NEW R \in SUBSET Times, NEW S \in SUBSET Times, R \cap S = {}
  PROVE  Aggregated(GroupsOf(R), GroupsOf(S)) = GroupsOf(R \cup S)
<1> DEFINE old == GroupsOf(R)
           new == GroupsOf(S)
           all == GroupsOf(R \cup S)
           value(k) == IF k \notin Keys(S) THEN old[k]
                       ELSE IF k \notin Keys(R) THEN new[k] ELSE MergedDevice(old[k], new[k])
<1>1. /\ DOMAIN old = Keys(R) /\ \A k \in Keys(R) : old[k] = Device(Known(R, k))
      /\ DOMAIN new = Keys(S) /\ \A k \in Keys(S) : new[k] = Device(Known(S, k))
      /\ all = [k \in Keys(R \cup S) |-> Device(Known(R \cup S, k))]
  BY GroupsAre
<1>2. Keys(R \cup S) = Keys(R) \cup Keys(S)
  BY DEF Keys
<1>3. \A k : Known(R \cup S, k) = Known(R, k) \cup Known(S, k)
  BY DEF Known
<1>4. \A k : /\ k \in Keys(R) <=> Known(R, k) # {}
             /\ k \in Keys(S) <=> Known(S, k) # {}
  BY GroupsAre
<1>5. \A k : /\ Known(R, k) \in SUBSET Times
             /\ Known(S, k) \in SUBSET Times
             /\ Known(R, k) \cap Known(S, k) = {}
  BY DEF Known
<1>6. Aggregated(old, new) = [k \in Keys(R) \cup Keys(S) |-> value(k)]
  BY <1>1 DEF Aggregated
<1> HIDE DEF old, new, all
<1>7. ASSUME NEW k \in Keys(R) \cup Keys(S)
      PROVE  value(k) = Device(Known(R \cup S, k))
  <2>1. CASE k \notin Keys(S)
    <3>1. Known(S, k) = {}
      BY <1>4, <2>1
    <3>2. Known(R \cup S, k) = Known(R, k)
      BY <1>3, <3>1
    <3> QED
      BY <1>1, <2>1, <3>2
  <2>2. CASE k \in Keys(S) /\ k \notin Keys(R)
    <3>1. Known(R, k) = {}
      BY <1>4, <2>2
    <3>2. Known(R \cup S, k) = Known(S, k)
      BY <1>3, <3>1
    <3> QED
      BY <1>1, <2>2, <3>2
  <2>3. CASE k \in Keys(S) /\ k \in Keys(R)
    <3>1. Known(R, k) # {} /\ Known(S, k) # {}
      BY <1>4, <2>3
    <3>2. MergedDevice(Device(Known(R, k)), Device(Known(S, k)))
             = Device(Known(R, k) \cup Known(S, k))
      BY <1>5, <3>1, MergedIsTogether
    <3> QED
      BY <1>1, <1>3, <2>3, <3>2
  <2> QED
    BY <2>1, <2>2, <2>3
<1> HIDE DEF value
<1>8. Aggregated(old, new) = all
  BY <1>1, <1>2, <1>6, <1>7
<1> QED
  BY <1>8 DEF old, new, all

\* What has been aggregated are the groups of rows of months read, all of them
\* rows of the time of the request, and none is left out that was there all along.
Grouped(R) ==
    /\ R \in SUBSET ever
    /\ \A t \in always : MonthOf(t) \in scan \/ t \in R
    /\ \A t \in R : MonthOf(t) \notin scan
    /\ aggregated = GroupsOf(R)

DevicesInv == query = "devices" => \E R : Grouped(R)

LEMMA NoGroups == GroupsOf({}) = <<>>
<1>1. GroupsOf({}) = [k \in {} |-> Device({t \in {} : DeviceKey(t) = k})]
  BY DEF GroupsOf
<1>2. <<>> = [k \in {} |-> Device({t \in {} : DeviceKey(t) = k})]
  OBVIOUS
<1> QED
  BY <1>1, <1>2

LEMMA DevicesStep ==
  TypeOK /\ TablesInv /\ RequestInv /\ TypeOK' /\ DevicesInv /\ [Next]_vars => DevicesInv'
<1> SUFFICES ASSUME TypeOK, TablesInv, RequestInv, TypeOK', DevicesInv, [Next]_vars,
                    query' = "devices"
             PROVE  \E R : /\ R \in SUBSET ever'
                           /\ \A t \in always' : MonthOf(t) \in scan' \/ t \in R
                           /\ \A t \in R : MonthOf(t) \notin scan'
                           /\ aggregated' = GroupsOf(R)
  BY DEF DevicesInv, Grouped
<1>1. CASE /\ UNCHANGED <<query, aggregated>>
           /\ always' \subseteq always
           /\ ever \subseteq ever'
           /\ scan' \subseteq scan
           /\ \A t \in always : MonthOf(t) \in scan => MonthOf(t) \in scan'
  <2>1. PICK R : Grouped(R)
    BY <1>1 DEF DevicesInv
  <2>2. /\ R \in SUBSET ever'
        /\ \A t \in always' : MonthOf(t) \in scan' \/ t \in R
        /\ \A t \in R : MonthOf(t) \notin scan'
        /\ aggregated' = GroupsOf(R)
    BY <1>1, <2>1 DEF Grouped
  <2> QED
    BY <2>2
<1>2. CASE BeginDevices
  <2>1. Begin(RecentMonths, RecentMonths) /\ RecentMonths \subseteq Months
    BY <1>2, RelevantAreMonths DEF BeginDevices
  <2>2. \A t \in always' : MonthOf(t) \in scan'
    BY <2>1, BeginCovers
  <2>3. aggregated' = GroupsOf({})
    BY <2>1, NoGroups DEF Begin, RequestInv
  <2> QED
    BY <2>2, <2>3
<1>3. CASE FindMonth
  <2>1. PICK m \in scan : IF file[m] = "none" THEN scan' = scan \ {m} ELSE scan' = scan
    BY <1>3 DEF FindMonth
  <2>2. file[m] = "none" => \A t \in always : MonthOf(t) # m
    BY PassedOverIsEmpty DEF TypeOK
  <2>3. scan' \subseteq scan /\ \A t \in always : MonthOf(t) \in scan => MonthOf(t) \in scan'
    BY <2>1, <2>2
  <2> QED
    BY <1>1, <1>3, <2>3 DEF FindMonth, asked
<1>4. CASE ReadMonth
  <2>1. /\ at \in Months /\ at \in scan /\ at \in scope
        /\ scan' = scan \ {at}
        /\ UNCHANGED <<query, range, always, ever>>
    BY <1>4 DEF ReadMonth, Remaining, asked, RequestInv, TypeOK
  <2>2. query = "devices" /\ aggregated' = Aggregated(aggregated, GroupsOf(Rows(at)))
    BY <1>4, <2>1 DEF ReadMonth
  <2>3. PICK R : Grouped(R)
    BY <2>2 DEF DevicesInv
  <2> DEFINE S == Rows(at)
  <2>4. S \in SUBSET ever
    <3>1. range = NoRange
      BY <2>2 DEF RequestInv
    <3>2. \A t \in S : Matches(t, range)
      BY <3>1 DEF Matches, NoRange
    <3> QED
      BY <2>1, <3>2 DEF RequestInv
  <2>5. \A t \in S : MonthOf(t) = at
    BY <2>1 DEF TablesInv
  <2>6. R \in SUBSET Times /\ S \in SUBSET Times
    BY <2>3, <2>4 DEF Grouped, TypeOK
  <2>7. R \cap S = {}
    BY <2>1, <2>3, <2>5 DEF Grouped
  <2>8. aggregated' = GroupsOf(R \cup S)
    BY <2>2, <2>3, <2>6, <2>7, GroupsMerge DEF Grouped
  <2>9. \A t \in always' : MonthOf(t) \in scan' \/ t \in R \cup S
    <3> SUFFICES ASSUME NEW t \in always, MonthOf(t) \notin scan \ {at}, t \notin R
                 PROVE  t \in S
      BY <2>1
    <3>1. MonthOf(t) = at
      BY <2>3 DEF Grouped
    <3> QED
      BY <3>1, AlwaysInTable
  <2>10. \A t \in R \cup S : MonthOf(t) \notin scan'
    BY <2>1, <2>3, <2>5 DEF Grouped
  <2>11. R \cup S \in SUBSET ever'
    BY <2>1, <2>3, <2>4 DEF Grouped
  <2> QED
    BY <2>8, <2>9, <2>10, <2>11
<1>5. CASE BeginSearch \/ Respond
  BY <1>5 DEF BeginSearch, Respond
<1>6. CASE ~ BeginSearch /\ ~ FindMonth /\ ~ ReadMonth /\ ~ BeginDevices /\ ~ Respond
  <2>1. /\ UNCHANGED <<query, aggregated, scan>>
        /\ always' \subseteq always
        /\ ever \subseteq ever'
    BY <1>6 DEF Next, vars, clock, reader, asked, found, MonthBegins, CreateDatabase, CommitRow,
                DropMonth, BeginPoll, SeedTail, SendRows, Reconnect
  <2> QED
    BY <1>1, <2>1
<1> QED
  BY <1>2, <1>3, <1>4, <1>5, <1>6

LEMMA GroupsGiveDevices ==
  ASSUME TypeOK, RequestInv, DevicesInv
  PROVE  DevicesAreRight
<1> USE DEF TypeOK
<1> SUFFICES ASSUME Done, query = "devices"
             PROVE  /\ {DeviceKey(t) : t \in always} \subseteq DOMAIN aggregated
                    /\ \A k \in DOMAIN aggregated :
                          LET d == aggregated[k]
                          IN /\ d.last_seen \in Known(ever, k)
                             /\ \A t \in Known(always, k) : t <= d.last_seen
                             /\ d.message_count \in
                                   Cardinality(Known(always, k))..Cardinality(Known(ever, k))
                             /\ d.source_ip = AddressOf[d.last_seen]
                             /\ d.host = HostOf[d.last_seen]
  BY DEF DevicesAreRight, Known
<1>1. PICK R : Grouped(R)
  BY DEF DevicesInv
<1>2. always \subseteq R /\ R \subseteq ever /\ aggregated = GroupsOf(R)
  BY <1>1 DEF Grouped, Done
<1>3. /\ DOMAIN aggregated = Keys(R)
      /\ \A k \in Keys(R) : aggregated[k] = Device(Known(R, k)) /\ Known(R, k) # {}
  BY <1>2, GroupsAre
<1>4. {DeviceKey(t) : t \in always} \subseteq DOMAIN aggregated
  BY <1>2, <1>3 DEF Keys
<1>5. ASSUME NEW k \in DOMAIN aggregated
      PROVE  LET d == aggregated[k]
             IN /\ d.last_seen \in Known(ever, k)
                /\ \A t \in Known(always, k) : t <= d.last_seen
                /\ d.message_count \in
                      Cardinality(Known(always, k))..Cardinality(Known(ever, k))
                /\ d.source_ip = AddressOf[d.last_seen]
                /\ d.host = HostOf[d.last_seen]
  <2> DEFINE A == Known(always, k)
             K == Known(R, k)
             E == Known(ever, k)
             w == Newest(K)
  <2>1. A \subseteq K /\ K \subseteq E /\ E \in SUBSET Times /\ K # {}
    BY <1>2, <1>3, <1>5 DEF Known
  <2> HIDE DEF A, K, E
  <2>2. w \in K /\ \A u \in K : u <= w
    BY <2>1, NewestIsLatest
  <2>3. Cardinality(K) \in Cardinality(A)..Cardinality(E)
    <3>1. /\ IsFiniteSet(K) /\ IsFiniteSet(E)
          /\ Cardinality(A) \in Nat /\ Cardinality(K) \in Nat /\ Cardinality(E) \in Nat
      BY <2>1, TimesAreFinite
    <3>2. Cardinality(A) <= Cardinality(K) /\ Cardinality(K) <= Cardinality(E)
      BY <2>1, <3>1, FS_Subset
    <3> QED
      BY <3>1, <3>2
  <2>4. aggregated[k] = [source_ip |-> AddressOf[w], host |-> HostOf[w], last_seen |-> w,
                         message_count |-> Cardinality(K)]
    BY <1>3, <1>5 DEF Device, K
  <2> HIDE DEF w
  <2>5. /\ aggregated[k].last_seen = w
        /\ aggregated[k].message_count = Cardinality(K)
        /\ aggregated[k].source_ip = AddressOf[w]
        /\ aggregated[k].host = HostOf[w]
    BY <2>4
  <2> QED
    BY <2>1, <2>2, <2>3, <2>5 DEF A, E
<1> QED
  BY <1>4, <1>5

\* The list of devices, for any number of months, rows, names and addresses: each
\* device once, with the latest of its rows and a count of the time of the request,
\* however its months are committed to or deleted between two reads.
THEOREM Devices == Spec => []DevicesAreRight
<1>1. Init => DevicesInv
  BY DEF Init, DevicesInv
<1>2. TypeOK /\ RequestInv /\ DevicesInv => DevicesAreRight
  BY GroupsGiveDevices
<1> QED
  BY <1>1, <1>2, RequestHolds, DevicesStep, PTL DEF Spec
=============================================================================
