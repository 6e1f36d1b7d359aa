---------------------------- MODULE RecoveryProofs ----------------------------
(***************************************************************************)
(* Proofs about Recovery: for any number of devices, days, messages,       *)
(* failed writes, crashes, power losses and rebuilds, the two records of a *)
(* message agree but for what is known to be lost, and a rebuilt index is  *)
(* what the day files say.                                                 *)
(***************************************************************************)
EXTENDS Recovery, TLAPS, FiniteSetTheorems

-----------------------------------------------------------------------------
(***************************************************************************)
(* Sequences and the sets of their elements.                               *)
(***************************************************************************)

IsSequence(s) == s \in Seq(ToSet(s))

LEMMA TypedSequence ==
  ASSUME NEW S, NEW s \in Seq(S)
  PROVE  IsSequence(s) /\ ToSet(s) \subseteq S
<1>1. /\ Len(s) \in Nat /\ DOMAIN s = 1..Len(s)
      /\ \A i \in 1..Len(s) : s[i] \in S
      /\ s = [i \in 1..Len(s) |-> s[i]]
  OBVIOUS
<1>2. ToSet(s) \subseteq S /\ \A i \in 1..Len(s) : s[i] \in ToSet(s)
  BY <1>1 DEF ToSet
<1> QED
  BY <1>1, <1>2 DEF IsSequence

LEMMA EmptySequence == IsSequence(<<>>) /\ ToSet(<<>>) = {} /\ Len(<<>>) = 0
BY DEF IsSequence, ToSet

LEMMA AppendSet ==
  ASSUME NEW s, IsSequence(s), NEW x
  PROVE  /\ IsSequence(Append(s, x))
         /\ ToSet(Append(s, x)) = ToSet(s) \cup {x}
         /\ Len(Append(s, x)) = Len(s) + 1
<1> DEFINE S == ToSet(s) \cup {x}
           a == Append(s, x)
<1>1. s \in Seq(S)
  <2>1. s \in Seq(ToSet(s))
    BY DEF IsSequence
  <2> HIDE DEF S
  <2>2. ToSet(s) \subseteq S
    BY DEF S
  <2> QED
    BY <2>1, <2>2
<1>2. x \in S
  OBVIOUS
<1>3. ToSet(s) = {s[i] : i \in 1..Len(s)} /\ Len(s) \in Nat
  BY DEF IsSequence, ToSet
<1> HIDE DEF S
<1>4. /\ a \in Seq(S) /\ Len(a) = Len(s) + 1
      /\ \A i \in 1..Len(s) : a[i] = s[i]
      /\ a[Len(s) + 1] = x
  BY <1>1, <1>2
<1>5. ToSet(a) = S
  <2>1. ToSet(a) = {a[i] : i \in 1..(Len(s) + 1)}
    BY <1>4 DEF ToSet
  <2>2. \A y \in ToSet(s) : y \in ToSet(a)
    BY <1>3, <1>4, <2>1
  <2>3. x \in ToSet(a)
    BY <1>3, <1>4, <2>1
  <2>4. \A i \in 1..(Len(s) + 1) : a[i] \in S
    BY <1>4
  <2> QED
    BY <2>1, <2>2, <2>3, <2>4 DEF S
<1> QED
  BY <1>4, <1>5 DEF S, IsSequence

LEMMA ConcatSet ==
  ASSUME NEW s, IsSequence(s), NEW t, IsSequence(t)
  PROVE  /\ IsSequence(s \o t)
         /\ ToSet(s \o t) = ToSet(s) \cup ToSet(t)
         /\ Len(s \o t) = Len(s) + Len(t)
<1> DEFINE S == ToSet(s) \cup ToSet(t)
           a == s \o t
<1>1. s \in Seq(ToSet(s)) /\ t \in Seq(ToSet(t))
  BY DEF IsSequence
<1>2. ToSet(s) \subseteq S /\ ToSet(t) \subseteq S
  OBVIOUS
<1>3. /\ ToSet(s) = {s[i] : i \in 1..Len(s)} /\ Len(s) \in Nat
      /\ ToSet(t) = {t[i] : i \in 1..Len(t)} /\ Len(t) \in Nat
  BY <1>1 DEF ToSet
<1> HIDE DEF S
<1>4. s \in Seq(S) /\ t \in Seq(S)
  BY <1>1, <1>2
<1>5. /\ a \in Seq(S) /\ Len(a) = Len(s) + Len(t)
      /\ \A i \in 1..Len(s) : a[i] = s[i]
      /\ \A i \in 1..Len(t) : a[Len(s) + i] = t[i]
  BY <1>4
<1>6. ToSet(a) = S
  <2>1. ToSet(a) = {a[i] : i \in 1..(Len(s) + Len(t))}
    BY <1>5 DEF ToSet
  <2>2. \A i \in 1..Len(s) : i \in 1..(Len(s) + Len(t))
    BY <1>3
  <2>3. \A i \in 1..Len(t) : Len(s) + i \in 1..(Len(s) + Len(t))
    BY <1>3
  <2>4. \A y \in ToSet(s) : y \in ToSet(a)
    BY <1>3, <1>5, <2>1, <2>2
  <2>5. \A y \in ToSet(t) : y \in ToSet(a)
    BY <1>3, <1>5, <2>1, <2>3
  <2>6. ToSet(a) \subseteq S
    <3>1. \A i \in 1..(Len(s) + Len(t)) : a[i] \in S
      BY <1>5
    <3> QED
      BY <2>1, <3>1
  <2> QED
    BY <2>4, <2>5, <2>6 DEF S
<1> QED
  BY <1>5, <1>6 DEF S, IsSequence

\* The last element replaced.
LEMMA ReplacedLast ==
  ASSUME NEW S, NEW s \in Seq(S), s # <<>>, NEW x \in S
  PROVE  LET t == Append(Front(s), x)
         IN /\ t \in Seq(S) /\ t # <<>>
            /\ Len(s) \in Nat \ {0} /\ DOMAIN s = 1..Len(s) /\ DOMAIN t = 1..Len(s)
            /\ \A i \in 1..Len(s) : i # Len(s) => t[i] = s[i]
            /\ t[Len(s)] = x
            /\ Last(t) = x /\ Last(s) = s[Len(s)]
<1> DEFINE n == Len(s)
           f == SubSeq(s, 1, n - 1)
           t == Append(f, x)
<1>1. n \in Nat \ {0} /\ DOMAIN s = 1..n
  OBVIOUS
<1>2. f \in Seq(S) /\ Len(f) = n - 1 /\ \A i \in 1..(n - 1) : f[i] = s[i]
  <2> PICK k : k = n - 1
    OBVIOUS
  <2>1. k \in 0..Len(s) /\ f = SubSeq(s, 1, k)
    BY <1>1
  <2> HIDE DEF f, n
  <2>2. /\ SubSeq(s, 1, k) \in Seq(S)
        /\ DOMAIN SubSeq(s, 1, k) = 1..k
        /\ \A i \in 1..k : SubSeq(s, 1, k)[i] = s[i]
    BY <2>1
  <2>3. Len(f) = k
    BY <2>1, <2>2
  <2> QED
    BY <2>1, <2>2, <2>3
<1>3. Front(s) = f /\ Last(s) = s[n]
  BY DEF Front, Last
<1> HIDE DEF f, n
<1>4. t \in Seq(S) /\ Len(t) = n /\ DOMAIN t = 1..n /\ t[n] = x
      /\ \A i \in 1..(n - 1) : t[i] = f[i]
  <2>1. t \in Seq(S) /\ Len(t) = Len(f) + 1 /\ t[Len(f) + 1] = x
        /\ \A i \in 1..Len(f) : t[i] = f[i]
    BY <1>2
  <2>2. Len(f) + 1 = n
    BY <1>1, <1>2
  <2> QED
    BY <1>2, <2>1, <2>2
<1> HIDE DEF t
<1>5. \A i \in 1..n : i # n => t[i] = s[i]
  BY <1>1, <1>2, <1>4
<1>6. Last(t) = x
  BY <1>4 DEF Last
<1>7. t # <<>>
  BY <1>1, <1>4
<1> QED
  BY <1>1, <1>3, <1>4, <1>5, <1>6, <1>7, Zenon DEF n, t

LEMMA AddedLast ==
  ASSUME NEW S, NEW s \in Seq(S), NEW x \in S, NEW t, t = Append(s, x)
  PROVE  t # <<>> /\ Last(t) = x
<1>1. t \in Seq(S) /\ Len(t) = Len(s) + 1 /\ Len(s) \in Nat /\ t[Len(s) + 1] = x
  OBVIOUS
<1> QED
  BY <1>1 DEF Last

-----------------------------------------------------------------------------
(***************************************************************************)
(* The rows of a set of lines: each line with a text has its row, once,    *)
(* but those whose INSERT failed, k.                                       *)
(***************************************************************************)

ReadIn(L, k) == {l \in L : l.raw # NoText /\ l.id \notin k}

RowOf(l, ms) ==
    Row(l.id, _sanitize_device_key(Address[ms[l.id].device]), _parse_syslog(l.raw))

RowsAre(s, L, k, ms) ==
    /\ IsSequence(s)
    /\ IsFiniteSet(ReadIn(L, k))
    /\ ToSet(s) = {RowOf(l, ms) : l \in ReadIn(L, k)}
    /\ Len(s) = Cardinality(ReadIn(L, k))

LEMMA NoRows ==
  ASSUME NEW k, NEW ms
  PROVE  RowsAre(<<>>, {}, k, ms)
BY EmptySequence, FS_EmptySet DEF RowsAre, ReadIn

\* Only the failures among the lines themselves count.
LEMMA SameRows ==
  ASSUME NEW s, NEW L, NEW k, NEW j, NEW ms, RowsAre(s, L, k, ms),
         \A l \in L : l.id \in k <=> l.id \in j
  PROVE  RowsAre(s, L, j, ms)
<1>1. ReadIn(L, k) = ReadIn(L, j)
  BY DEF ReadIn
<1> QED
  BY <1>1 DEF RowsAre

LEMMA MoreRows ==
  ASSUME NEW s, NEW L, NEW k, NEW ms, NEW x, RowsAre(s, L, k, ms),
         x \notin L, x.raw # NoText, x.id \notin k
  PROVE  RowsAre(Append(s, RowOf(x, ms)), L \cup {x}, k, ms)
<1> DEFINE R == ReadIn(L, k)
           Q == ReadIn(L \cup {x}, k)
<1>1. Q = R \cup {x} /\ x \notin R
  BY DEF ReadIn
<1>2. IsFiniteSet(Q) /\ Cardinality(Q) = Cardinality(R) + 1
  BY <1>1, FS_AddElement DEF RowsAre
<1>3. {RowOf(l, ms) : l \in Q} = {RowOf(l, ms) : l \in R} \cup {RowOf(x, ms)}
  BY <1>1
<1>4. /\ IsSequence(Append(s, RowOf(x, ms)))
      /\ ToSet(Append(s, RowOf(x, ms))) = ToSet(s) \cup {RowOf(x, ms)}
      /\ Len(Append(s, RowOf(x, ms))) = Len(s) + 1
  BY AppendSet DEF RowsAre
<1> HIDE DEF R, Q
<1>5. Len(s) = Cardinality(R) /\ ToSet(s) = {RowOf(l, ms) : l \in R}
  BY DEF RowsAre, R
<1>6. /\ ToSet(Append(s, RowOf(x, ms))) = {RowOf(l, ms) : l \in Q}
      /\ Len(Append(s, RowOf(x, ms))) = Cardinality(Q)
  BY <1>2, <1>3, <1>4, <1>5
<1> QED
  BY <1>2, <1>4, <1>6 DEF RowsAre, Q

\* A line without a text, or whose INSERT failed, has no row.
LEMMA NoMoreRows ==
  ASSUME NEW s, NEW L, NEW k, NEW ms, NEW x, RowsAre(s, L, k, ms),
         x.raw = NoText \/ x.id \in k
  PROVE  RowsAre(s, L \cup {x}, k, ms)
<1>1. ReadIn(L \cup {x}, k) = ReadIn(L, k)
  BY DEF ReadIn
<1> QED
  BY <1>1 DEF RowsAre

LEMMA JoinedRows ==
  ASSUME NEW s, NEW t, NEW L, NEW M, NEW k, NEW ms, RowsAre(s, L, k, ms), RowsAre(t, M, k, ms),
         L \cap M = {}
  PROVE  RowsAre(s \o t, L \cup M, k, ms)
<1> DEFINE R == ReadIn(L, k)
           Q == ReadIn(M, k)
           B == ReadIn(L \cup M, k)
<1>1. B = R \cup Q /\ R \cap Q = {}
  BY DEF ReadIn
<1>2. IsFiniteSet(R) /\ IsFiniteSet(Q)
  BY DEF RowsAre
<1>3. {RowOf(l, ms) : l \in B} = {RowOf(l, ms) : l \in R} \cup {RowOf(l, ms) : l \in Q}
  BY <1>1
<1>4. IsFiniteSet(B) /\ Cardinality(B) = Cardinality(R) + Cardinality(Q)
  <2> HIDE DEF R, Q, B
  <2>1. /\ IsFiniteSet(R \cup Q)
        /\ Cardinality(R \cup Q) = Cardinality(R) + Cardinality(Q) - Cardinality(R \cap Q)
    BY <1>2, FS_Union
  <2>2. Cardinality(R \cap Q) = 0
    BY <1>1, FS_EmptySet
  <2>3. Cardinality(R) \in Nat /\ Cardinality(Q) \in Nat
    BY <1>2, FS_CardinalityType
  <2>4. Cardinality(R) + Cardinality(Q) - 0 = Cardinality(R) + Cardinality(Q)
    BY <2>3
  <2> QED
    BY <1>1, <2>1, <2>2, <2>4
<1>5. /\ IsSequence(s \o t)
      /\ ToSet(s \o t) = ToSet(s) \cup ToSet(t)
      /\ Len(s \o t) = Len(s) + Len(t)
  BY ConcatSet DEF RowsAre
<1>6. /\ Len(s) = Cardinality(R) /\ ToSet(s) = {RowOf(l, ms) : l \in R}
      /\ Len(t) = Cardinality(Q) /\ ToSet(t) = {RowOf(l, ms) : l \in Q}
  BY DEF RowsAre
<1> HIDE DEF R, Q, B
<1>7. /\ ToSet(s \o t) = {RowOf(l, ms) : l \in B}
      /\ Len(s \o t) = Cardinality(B)
  BY <1>3, <1>4, <1>5, <1>6
<1> QED
  BY <1>4, <1>5, <1>7 DEF RowsAre, B

-----------------------------------------------------------------------------
(***************************************************************************)
(* Messages and their lines.                                               *)
(***************************************************************************)

LEMMA FlattenedText ==
  ASSUME NEW s \in Seq(Chars)
  PROVE  _flatten(s) \in Seq(Chars)
<1>1. Len(s) \in Nat /\ DOMAIN s = 1..Len(s) /\ \A i \in 1..Len(s) : s[i] \in Chars
  OBVIOUS
<1>2. "fffd" \in Chars /\ "sp" \in Chars
  BY DEF Chars
<1>3. \A i \in 1..Len(s) : _decode(s)[i] \in Chars
  BY <1>1, <1>2 DEF _decode
<1>4. _flatten(s) = [i \in 1..Len(s) |-> IF s[i] = "nl" THEN "sp" ELSE _decode(s)[i]]
  BY <1>1 DEF _flatten
<1>5. \A i \in 1..Len(s) : (IF s[i] = "nl" THEN "sp" ELSE _decode(s)[i]) \in Chars
  BY <1>2, <1>3
<1> QED
  BY <1>1, <1>4, <1>5

LEMMA NoneIsNoText == None \notin Seq(Chars)
<1>1. SUFFICES ASSUME None \in Seq(Chars) PROVE FALSE
  OBVIOUS
<1>2. None[1] \in Chars
  BY <1>1 DEF None
<1> QED
  BY <1>2 DEF None, Chars
\* What is known of a message by its id.
LEMMA TakenFacts ==
  ASSUME TypeOK, NEW id \in Ids
  PROVE  /\ id \in Nat
         /\ msgs[id].device \in Devices
         /\ msgs[id].day \in Days
         /\ msgs[id].is.raw \in [pri : Int, text : Seq(Chars)]
         /\ FileOf(id) \in Files
         /\ MonthFor(id) \in Months
         /\ MonthFor(id) = MonthOf[FileOf(id)[2]]
<1>1. msgs[id] \in Taken /\ id \in Nat
  BY DEF TypeOK, Ids
<1>2. PICK m \in Arrivals : msgs[id] = Envelope(m)
  BY <1>1 DEF Taken
<1>3. /\ msgs[id].device = m.device /\ msgs[id].day = m.day /\ msgs[id].is = m.is
  BY <1>2 DEF Envelope
<1>4. m.device \in Devices /\ m.day \in Days /\ MonthOf[m.day] \in Months
      /\ m.is.raw \in [pri : Int, text : Seq(Chars)]
  BY RecoveryAssumption
<1> QED
  BY <1>1, <1>3, <1>4 DEF FileOf, Files, MonthFor

LEMMA WholeLine ==
  ASSUME TypeOK, NEW id \in Ids
  PROVE  /\ Line(id) \in LineRecords
         /\ Line(id).id = id
         /\ Line(id).raw # NoText
         /\ Line(id).whole
<1> DEFINE r == msgs[id].is.raw
<1>1. r \in [pri : Int, text : Seq(Chars)] /\ id \in Nat
  BY TakenFacts
<1> HIDE DEF r
<1>2. to_line(r) \in [pri : Int, text : Seq(Chars)]
  BY <1>1, FlattenedText DEF to_line
<1>3. Line(id) = [id |-> id, raw |-> to_line(r), whole |-> TRUE]
  BY DEF Line, r
<1>4. to_line(r) # NoText
  BY <1>2, NoneIsNoText DEF NoText
<1> QED
  BY <1>1, <1>2, <1>3, <1>4 DEF LineRecords

LEMMA MinIsLeast ==
  ASSUME NEW S, \E x \in S : \A y \in S : x <= y
  PROVE  Min(S) \in S /\ \A y \in S : Min(S) <= y
BY Zenon DEF Min

LEMMA MinOfTwo ==
  ASSUME NEW k \in Int, NEW l \in Nat
  PROVE  Min({k, l}) \in Int /\ Min({k, l}) <= l
<1>1. \E x \in {k, l} : \A y \in {k, l} : x <= y
  OBVIOUS
<1>2. Min({k, l}) \in {k, l} /\ \A y \in {k, l} : Min({k, l}) <= y
  BY <1>1, MinIsLeast
<1> QED
  BY <1>2

\* A line made of what is left of a line, or of two, is one.
LEMMA MadeLine ==
  ASSUME NEW id \in Nat, NEW w \in BOOLEAN, NEW r,
         (r = NoText /\ ~w) \/ r \in [pri : Int, text : Seq(Chars)]
  PROVE  LET l == [id |-> id, raw |-> r, whole |-> w]
         IN l \in LineRecords /\ l.id = id /\ (l.whole => l.raw # NoText)
<1>1. r \in [pri : Int, text : Seq(Chars)] => r # NoText
  BY NoneIsNoText DEF NoText
<1> QED
  BY <1>1 DEF LineRecords

LEMMA LineFacts ==
  ASSUME NEW l \in LineRecords
  PROVE  /\ l.id \in Nat /\ l.whole \in BOOLEAN
         /\ l = [id |-> l.id, raw |-> l.raw, whole |-> l.whole]
         /\ l.raw # NoText => /\ l.raw \in [pri : Int, text : Seq(Chars)]
                              /\ l.raw = [pri |-> l.raw.pri, text |-> l.raw.text]
BY DEF LineRecords

LEMMA TornLine ==
  ASSUME NEW line \in LineRecords, NEW k \in CutAt
  PROVE  /\ Torn(line, k) \in LineRecords
         /\ Torn(line, k).id = line.id
         /\ Torn(line, k).whole => Torn(line, k).raw # NoText
<1>1. /\ line.id \in Nat /\ line.whole \in BOOLEAN
      /\ line = [id |-> line.id, raw |-> line.raw, whole |-> line.whole]
  BY LineFacts
<1>2. CASE k = InStamp \/ line.raw = NoText
  <2>1. Torn(line, k) = [id |-> line.id, raw |-> NoText, whole |-> FALSE]
    BY <1>1, <1>2 DEF Torn
  <2> QED
    BY <1>1, <2>1, MadeLine
<1>3. CASE ~(k = InStamp \/ line.raw = NoText)
  <2> DEFINE s == line.raw.text
             n == Min({k, Len(s)})
             left == [pri |-> line.raw.pri, text |-> SubSeq(s, 1, n)]
             w == line.whole /\ n = Len(s)
  <2>1. line.raw \in [pri : Int, text : Seq(Chars)]
        /\ line.raw = [pri |-> line.raw.pri, text |-> s]
    BY <1>3, LineFacts
  <2>2. s \in Seq(Chars) /\ Len(s) \in Nat /\ line.raw.pri \in Int /\ k \in Int
    BY <2>1, RecoveryAssumption
  <2>3. n \in Int /\ n <= Len(s)
    BY <2>2, MinOfTwo
  <2>4. SubSeq(s, 1, n) \in Seq(Chars)
    <3> HIDE DEF s, n
    <3> QED
      BY <2>2, <2>3
  <2>5. left \in [pri : Int, text : Seq(Chars)] /\ w \in BOOLEAN
    BY <2>2, <2>4
  <2>6. Torn(line, k) = [id |-> line.id, raw |-> left, whole |-> w]
    BY <1>1, <1>3, <2>1 DEF Torn
  <2> HIDE DEF left, w
  <2> QED
    BY <1>1, <2>5, <2>6, MadeLine
<1> QED
  BY <1>2, <1>3

LEMMA MergedLine ==
  ASSUME NEW line \in LineRecords, NEW next \in LineRecords
  PROVE  /\ Merged(line, next) \in LineRecords
         /\ Merged(line, next).id = line.id
         /\ ~Merged(line, next).whole
<1> DEFINE t == IF next.raw = NoText THEN Stamp
                ELSE Stamp \o <<"sp">> \o Priority \o next.raw.text
           raw == IF line.raw = NoText THEN next.raw
                  ELSE [line.raw EXCEPT !.text = @ \o t]
<1>1. Merged(line, next) = [id |-> line.id, raw |-> raw, whole |-> FALSE]
  BY DEF Merged
<1>2. Stamp \in Seq(Chars) /\ <<"sp">> \in Seq(Chars) /\ Priority \in Seq(Chars)
  BY DEF Stamp, Priority, Chars
<1>3. t \in Seq(Chars)
  <2>1. next.raw # NoText => next.raw.text \in Seq(Chars)
    BY LineFacts
  <2> QED
    BY <1>2, <2>1
<1>4. raw = NoText \/ raw \in [pri : Int, text : Seq(Chars)]
  <2>1. CASE line.raw = NoText
    BY <2>1, LineFacts
  <2>2. CASE line.raw # NoText
    <3> HIDE DEF t
    <3>1. line.raw \in [pri : Int, text : Seq(Chars)]
      BY <2>2, LineFacts
    <3>2. line.raw.text \o t \in Seq(Chars)
      BY <1>3, <3>1
    <3> QED
      BY <2>2, <3>1, <3>2
  <2> QED
    BY <2>1, <2>2
<1> HIDE DEF raw, t
<1>5. line.id \in Nat
  BY LineFacts
<1>6. [id |-> line.id, raw |-> raw, whole |-> FALSE] \in LineRecords
  BY <1>4, <1>5, MadeLine
<1> QED
  BY <1>1, <1>6

-----------------------------------------------------------------------------
(***************************************************************************)
(* Rows, a sequence for each month.                                        *)
(***************************************************************************)

LEMMA IdsOfRows ==
  ASSUME NEW s, IsSequence(s)
  PROVE  /\ IdsOf(<<>>) = {}
         /\ \A x : IdsOf(Append(s, x)) = IdsOf(s) \cup {x.id}
         /\ \A t : IsSequence(t) => IdsOf(s \o t) = IdsOf(s) \cup IdsOf(t)
         /\ \A t : ToSet(t) \subseteq ToSet(s) => IdsOf(t) \subseteq IdsOf(s)
<1>1. IdsOf(<<>>) = {}
  BY EmptySequence DEF IdsOf
<1>2. ASSUME NEW x
      PROVE  IdsOf(Append(s, x)) = IdsOf(s) \cup {x.id}
  <2>1. ToSet(Append(s, x)) = ToSet(s) \cup {x}
    BY AppendSet
  <2> QED
    BY <2>1 DEF IdsOf
<1>3. ASSUME NEW t, IsSequence(t)
      PROVE  IdsOf(s \o t) = IdsOf(s) \cup IdsOf(t)
  <2>1. ToSet(s \o t) = ToSet(s) \cup ToSet(t)
    BY <1>3, ConcatSet
  <2> QED
    BY <2>1 DEF IdsOf
<1>4. ASSUME NEW t, ToSet(t) \subseteq ToSet(s)
      PROVE  IdsOf(t) \subseteq IdsOf(s)
  BY <1>4 DEF IdsOf
<1> QED
  BY <1>1, <1>2, <1>3, <1>4

\* For each month a sequence of rows, their ids in I.
RowsOfMonths(F, I) ==
    /\ DOMAIN F = Months
    /\ \A m \in Months : IsSequence(F[m]) /\ IdsOf(F[m]) \subseteq I

LEMMA RowsTyped ==
  ASSUME TypeOK
  PROVE  /\ RowsOfMonths(table, Ids) /\ RowsOfMonths(inserted, Ids)
         /\ IsSequence(tx) /\ IdsOf(tx) \subseteq Ids
<1>1. IdsOf(tx) \subseteq Ids /\ Inserted \subseteq Ids /\ Indexed \subseteq Ids
  BY DEF TypeOK
<1>2. \A m \in Months : IdsOf(table[m]) \subseteq Ids /\ IdsOf(inserted[m]) \subseteq Ids
  BY <1>1 DEF Inserted, Indexed
<1> QED
  BY <1>1, <1>2 DEF TypeOK, RowsOfMonths, IsSequence

LEMMA RowsUpdated ==
  ASSUME NEW F, NEW I, RowsOfMonths(F, I), NEW m \in Months, NEW s,
         IsSequence(s), IdsOf(s) \subseteq I
  PROVE  LET G == [F EXCEPT ![m] = s]
         IN /\ RowsOfMonths(G, I)
            /\ G[m] = s
            /\ \A n \in Months : n # m => G[n] = F[n]
BY DEF RowsOfMonths

LEMMA NoRowsOfMonths ==
  ASSUME NEW I
  PROVE  RowsOfMonths([m \in Months |-> <<>>], I)
BY EmptySequence, IdsOfRows DEF RowsOfMonths

LEMMA RowsOfMoreIds ==
  ASSUME NEW F, NEW I, NEW J, RowsOfMonths(F, I), I \subseteq J
  PROVE  RowsOfMonths(F, J)
BY DEF RowsOfMonths

\* The part of the types that is about rows and what was lost.
RowTypes ==
    /\ RowsOfMonths(table, Ids) /\ RowsOfMonths(inserted, Ids)
    /\ IsSequence(tx) /\ IdsOf(tx) \subseteq Ids

LineTypes ==
    /\ sent \in Corpus
    /\ msgs \in Seq(Taken)
    /\ buffer \in [Devices -> Seq(Ids)]
    /\ offered \subseteq Ids
    /\ made \subseteq Files
    /\ file \in [Files -> Seq(LineRecords)]
    /\ tail \in [Files -> {"unknown", "clean", "ragged"}]

OtherTypes ==
    /\ stage \in {"live", "down", "rebuild"}
    /\ months \subseteq Months
    /\ todo \subseteq Files
    /\ opened \subseteq Months
    /\ at \in Nat
    /\ half \cup restored \subseteq Months

GhostTypes ==
    /\ cut \cup unwritten \cup merged \subseteq Ids
    /\ refused \cup skipped \cup unsaved \cup unread \subseteq Ids

LEMMA TypesApart ==
  ASSUME TypeOK
  PROVE  LineTypes /\ RowTypes /\ OtherTypes /\ GhostTypes
<1>1. RowTypes
  BY RowsTyped DEF RowTypes
<1> QED
  BY <1>1 DEF TypeOK, LineTypes, OtherTypes, GhostTypes

LEMMA TypesTogether ==
  ASSUME LineTypes, RowTypes, OtherTypes, GhostTypes
  PROVE  TypeOK
<1>1. IdsOf(tx) \cup Inserted \cup Indexed \subseteq Ids
  BY DEF RowTypes, RowsOfMonths, Inserted, Indexed
<1>2. /\ DOMAIN inserted = Months /\ DOMAIN table = Months /\ tx \in Seq(ToSet(tx))
      /\ \A m \in Months : /\ inserted[m] \in Seq(ToSet(inserted[m]))
                           /\ table[m] \in Seq(ToSet(table[m]))
  BY DEF RowTypes, RowsOfMonths, IsSequence
<1> QED
  BY <1>1, <1>2 DEF TypeOK, LineTypes, OtherTypes, GhostTypes

\* The same of the next state.
LEMMA TypesAfter ==
  ASSUME LineTypes', RowTypes', OtherTypes', GhostTypes'
  PROVE  TypeOK'
<1>1. (IdsOf(tx) \cup Inserted \cup Indexed \subseteq Ids)'
  BY DEF RowTypes, RowsOfMonths, Inserted, Indexed
<1>2. /\ DOMAIN inserted' = Months /\ DOMAIN table' = Months /\ tx' \in Seq(ToSet(tx'))
      /\ \A m \in Months : /\ inserted'[m] \in Seq(ToSet(inserted'[m]))
                           /\ table'[m] \in Seq(ToSet(table'[m]))
  BY DEF RowTypes, RowsOfMonths, IsSequence
<1> QED
  BY <1>1, <1>2 DEF TypeOK, LineTypes, OtherTypes, GhostTypes

-----------------------------------------------------------------------------
(***************************************************************************)
(* Where an id can be.                                                     *)
(***************************************************************************)

\* A line has the id of a message of its file, and each message one line at
\* most, with a text if it is whole; a message with a line is in no buffer.
LinesInv ==
    \A f \in Files :
        /\ file[f] # <<>> => f \in made
        /\ \A i \in DOMAIN file[f] :
              /\ file[f][i].id \in Ids
              /\ FileOf(file[f][i].id) = f
              /\ file[f][i].whole => file[f][i].raw # NoText
              /\ \A d \in Devices : file[f][i].id \notin ToSet(buffer[d])
              /\ \A j \in DOMAIN file[f] : file[f][j].id = file[f][i].id => j = i

\* What a failed write left at the end of a file is of a message given up.
RaggedInv ==
    \A f \in Files : tail[f] = "ragged" =>
        file[f] # <<>> /\ Last(file[f]).id \in unwritten

\* A message is in the buffer of its device only, and once.
BufferInv ==
    \A d \in Devices : \A i \in DOMAIN buffer[d] :
        /\ msgs[buffer[d][i]].device = d
        /\ \A j \in DOMAIN buffer[d] : buffer[d][j] = buffer[d][i] => j = i

StageInv ==
    /\ stage # "live" => /\ offered = {}
                         /\ \A d \in Devices : buffer[d] = <<>>
                         /\ \A m \in Months : inserted[m] = <<>>
    /\ stage = "live" => restored = {}

Placed == TypeOK /\ LinesInv /\ RaggedInv /\ BufferInv /\ StageInv

\* What a new message changes.
LEMMA TakeNew ==
  ASSUME TypeOK, NEW d \in Devices, Take(d)
  PROVE  LET new == Len(msgs) + 1
         IN /\ new \in Ids' /\ new \notin Ids
            /\ Ids' = Ids \cup {new}
            /\ \A id \in Ids : msgs'[id] = msgs[id]
            /\ msgs' \in Seq(Taken)
            /\ msgs'[new].device = d
            /\ buffer' = [buffer EXCEPT ![d] = Append(@, new)]
            /\ \/ offered' = offered \cup {new} /\ refused' = refused
               \/ offered' = offered /\ refused' = refused \cup {new}
            /\ stage = "live"
            /\ UNCHANGED <<sent, inserted, made, file, tail, table, stage, command,
                           cut, unwritten, merged, skipped, unsaved, unread, half,
                           restored>>
<1> DEFINE new == Len(msgs) + 1
<1>1. /\ msgs \in Seq(Taken) /\ Len(msgs) \in Nat /\ Ids = 1..Len(msgs)
      /\ sent \in Seq(Arrivals)
  BY RecoveryAssumption DEF TypeOK, Ids
<1>2. /\ sent[new] \in Arrivals /\ sent[new].device = d
      /\ msgs' = Append(msgs, Envelope(sent[new]))
  BY <1>1 DEF Take
<1> DEFINE m == Envelope(sent[new])
<1>3. m \in Taken /\ m.device = d
  BY <1>2 DEF Taken, Envelope
<1> HIDE DEF m
<1>4. /\ msgs' \in Seq(Taken) /\ Len(msgs') = new
      /\ msgs'[new] = m
      /\ \A id \in 1..Len(msgs) : msgs'[id] = msgs[id]
  BY <1>1, <1>2, <1>3 DEF m
<1>5. Ids' = 1..new
  BY <1>4 DEF Ids
<1>6. Ids' = Ids \cup {new} /\ new \in Ids' /\ new \notin Ids
  BY <1>1, <1>5
<1> HIDE DEF new
<1>7. /\ buffer' = [buffer EXCEPT ![d] = Append(@, new)]
      /\ \/ offered' = offered \cup {new} /\ refused' = refused
         \/ offered' = offered /\ refused' = refused \cup {new}
      /\ stage = "live"
      /\ UNCHANGED <<sent, inserted, made, file, tail, table, stage, command,
                     cut, unwritten, merged, skipped, unsaved, unread, half,
                     restored>>
  BY DEF Take, written, lines_lost, new
<1> QED
  BY <1>1, <1>3, <1>4, <1>6, <1>7 DEF new

LEMMA HeadFacts ==
  ASSUME TypeOK, NEW d \in Devices, buffer[d] # <<>>
  PROVE  /\ Head(buffer[d]) \in Ids
         /\ Head(buffer[d]) = buffer[d][1] /\ 1 \in DOMAIN buffer[d]
         /\ Tail(buffer[d]) \in Seq(Ids)
         /\ DOMAIN Tail(buffer[d]) = 1..(Len(buffer[d]) - 1)
         /\ Len(buffer[d]) \in Nat \ {0} /\ DOMAIN buffer[d] = 1..Len(buffer[d])
         /\ \A i \in 1..(Len(buffer[d]) - 1) : Tail(buffer[d])[i] = buffer[d][i + 1]
<1> DEFINE b == buffer[d]
<1>1. b \in Seq(Ids) /\ b # <<>>
  BY DEF TypeOK
<1> HIDE DEF b
<1>2. /\ Head(b) \in Ids
      /\ Head(b) = b[1] /\ 1 \in DOMAIN b
      /\ Tail(b) \in Seq(Ids)
      /\ DOMAIN Tail(b) = 1..(Len(b) - 1)
      /\ Len(b) \in Nat \ {0} /\ DOMAIN b = 1..Len(b)
      /\ \A i \in 1..(Len(b) - 1) : Tail(b)[i] = b[i + 1]
  BY <1>1
<1> QED
  BY <1>2 DEF b

\* The lines of a file and their ids.
LEMMA FileFacts ==
  ASSUME TypeOK, NEW f \in Files
  PROVE  /\ file[f] \in Seq(LineRecords)
         /\ Len(file[f]) \in Nat
         /\ DOMAIN file[f] = 1..Len(file[f])
         /\ \A i \in 1..Len(file[f]) : file[f][i] \in LineRecords
BY DEF TypeOK

LEMMA FileIsFile ==
  ASSUME NEW f \in Files
  PROVE  f[1] \in Devices /\ f[2] \in Days /\ MonthOf[f[2]] \in Months
BY RecoveryAssumption DEF Files

LEMMA InitTyped == Init => Placed
<1> SUFFICES ASSUME Init PROVE Placed
  OBVIOUS
<1>1. /\ <<>> \in Seq(Taken) /\ <<>> \in Seq(LineRecords) /\ <<>> \in Seq({})
      /\ DOMAIN <<>> = {} /\ ToSet(<<>>) = {}
  BY EmptySequence
<1>2. Ids = {} /\ \A S : <<>> \in Seq(S)
  BY <1>1 DEF Init, Ids
<1>3. LineTypes /\ OtherTypes /\ GhostTypes
  BY <1>1, <1>2 DEF Init, LineTypes, OtherTypes, GhostTypes
<1>4. RowTypes
  BY <1>2, EmptySequence, IdsOfRows, NoRowsOfMonths DEF Init, RowTypes
<1>5. LinesInv /\ BufferInv /\ StageInv /\ RaggedInv
  BY <1>1 DEF Init, LinesInv, BufferInv, StageInv, RaggedInv
<1> QED
  BY <1>3, <1>4, <1>5, TypesTogether DEF Placed

\* The id at the head of a buffer is nowhere else in the buffers.
LEMMA HeadOnce ==
  ASSUME TypeOK, BufferInv, NEW d \in Devices, buffer[d] # <<>>
  PROVE  /\ Head(buffer[d]) \in ToSet(buffer[d])
         /\ ToSet(Tail(buffer[d])) \subseteq ToSet(buffer[d]) \ {Head(buffer[d])}
         /\ ToSet(buffer[d]) \subseteq ToSet(Tail(buffer[d])) \cup {Head(buffer[d])}
         /\ \A e \in Devices : e # d => Head(buffer[d]) \notin ToSet(buffer[e])
<1> DEFINE b == buffer[d]
           h == Head(b)
           t == Tail(b)
<1>1. /\ h \in Ids
      /\ h = b[1] /\ 1 \in DOMAIN b
      /\ DOMAIN t = 1..(Len(b) - 1)
      /\ Len(b) \in Nat \ {0} /\ DOMAIN b = 1..Len(b)
      /\ \A i \in 1..(Len(b) - 1) : t[i] = b[i + 1]
  BY HeadFacts
<1>2. \A i \in DOMAIN b : msgs[b[i]].device = d /\ \A j \in DOMAIN b : b[j] = b[i] => j = i
  BY DEF BufferInv
<1>3. ASSUME NEW e \in Devices, e # d, h \in ToSet(buffer[e])
      PROVE  FALSE
  <2>1. PICK i \in DOMAIN buffer[e] : buffer[e][i] = h
    BY <1>3 DEF ToSet
  <2>2. msgs[h].device = e
    BY <2>1 DEF BufferInv
  <2>3. msgs[h].device = d
    BY <1>1, <1>2
  <2> QED
    BY <1>3, <2>2, <2>3
<1> HIDE DEF b, h, t
<1>4. h \in ToSet(b)
  BY <1>1 DEF ToSet
<1>5. ASSUME NEW x \in ToSet(t)
      PROVE  x \in ToSet(b) \ {h}
  <2>1. PICK i \in 1..(Len(b) - 1) : x = t[i]
    BY <1>1 DEF ToSet
  <2>2. i + 1 \in DOMAIN b /\ i + 1 # 1 /\ x = b[i + 1]
    BY <1>1, <2>1
  <2> QED
    BY <1>1, <1>2, <2>2 DEF ToSet
<1>6. ASSUME NEW x \in ToSet(b)
      PROVE  x \in ToSet(t) \cup {h}
  <2>1. PICK i \in DOMAIN b : x = b[i]
    BY DEF ToSet
  <2>2. CASE i = 1
    BY <1>1, <2>1, <2>2
  <2>3. CASE i # 1
    <3>1. i - 1 \in DOMAIN t /\ t[i - 1] = b[(i - 1) + 1] /\ (i - 1) + 1 = i
      BY <1>1, <2>3
    <3> QED
      BY <2>1, <3>1 DEF ToSet
  <2> QED
    BY <2>2, <2>3
<1> QED
  BY <1>3, <1>4, <1>5, <1>6 DEF b, h, t

\* The head of a buffer leaves it.
LEMMA HeadLeaves ==
  ASSUME TypeOK, BufferInv, NEW d \in Devices, buffer[d] # <<>>, msgs' = msgs,
         buffer' = [buffer EXCEPT ![d] = Tail(@)]
  PROVE  /\ BufferInv'
         /\ buffer' \in [Devices -> Seq(Ids)]
         /\ \A e \in Devices : ToSet(buffer'[e]) \subseteq ToSet(buffer[e]) \ {Head(buffer[d])}
         /\ Buffered \subseteq Buffered' \cup {Head(buffer[d])}
<1> PICK h : h = Head(buffer[d])
  OBVIOUS
<1>1. /\ h \in Ids /\ Tail(buffer[d]) \in Seq(Ids)
      /\ DOMAIN Tail(buffer[d]) = 1..(Len(buffer[d]) - 1)
      /\ Len(buffer[d]) \in Nat \ {0} /\ DOMAIN buffer[d] = 1..Len(buffer[d])
      /\ \A i \in 1..(Len(buffer[d]) - 1) : Tail(buffer[d])[i] = buffer[d][i + 1]
  BY HeadFacts
<1>2. /\ buffer'[d] = Tail(buffer[d])
      /\ \A e \in Devices : e # d => buffer'[e] = buffer[e]
      /\ buffer' = [e \in Devices |-> buffer'[e]]
      /\ \A e \in Devices : buffer'[e] \in Seq(Ids)
  BY <1>1 DEF TypeOK
<1>3. /\ ToSet(buffer'[d]) \subseteq ToSet(buffer[d]) \ {h}
      /\ ToSet(buffer[d]) \subseteq ToSet(buffer'[d]) \cup {h}
      /\ \A e \in Devices : e # d => h \notin ToSet(buffer[e])
  BY <1>2, HeadOnce
<1>4. \A e \in Devices : /\ ToSet(buffer'[e]) \subseteq ToSet(buffer[e]) \ {h}
                         /\ ToSet(buffer[e]) \subseteq ToSet(buffer'[e]) \cup {h}
  <2>1. \A e \in Devices : e # d => ToSet(buffer'[e]) = ToSet(buffer[e])
    BY <1>2
  <2> QED
    BY <1>3, <2>1
<1>5. Buffered \subseteq Buffered' \cup {h}
  <2>1. \A x \in Buffered : \E e \in Devices : x \in ToSet(buffer[e])
    BY DEF Buffered
  <2>2. \A x \in Buffered : x = h \/ \E e \in Devices : x \in ToSet(buffer'[e])
    BY <1>4, <2>1
  <2> QED
    BY <2>2 DEF Buffered
<1>6. BufferInv'
  <2>1. ASSUME NEW e \in Devices, e # d
        PROVE  \A i \in DOMAIN buffer'[e] :
                  /\ msgs'[buffer'[e][i]].device = e
                  /\ \A j \in DOMAIN buffer'[e] : buffer'[e][j] = buffer'[e][i] => j = i
    <3>1. buffer'[e] = buffer[e]
      BY <1>2, <2>1
    <3>2. \A i \in DOMAIN buffer[e] :
             /\ msgs[buffer[e][i]].device = e
             /\ \A j \in DOMAIN buffer[e] : buffer[e][j] = buffer[e][i] => j = i
      BY DEF BufferInv
    <3> QED
      BY <3>1, <3>2
  <2>2. \A i \in DOMAIN buffer'[d] :
           /\ msgs'[buffer'[d][i]].device = d
           /\ \A j \in DOMAIN buffer'[d] : buffer'[d][j] = buffer'[d][i] => j = i
    <3> DEFINE b == buffer[d]
               c == buffer'[d]
               n == Len(b)
    <3>1. /\ n \in Nat \ {0} /\ DOMAIN b = 1..n /\ DOMAIN c = 1..(n - 1)
          /\ \A i \in 1..(n - 1) : c[i] = b[i + 1]
      BY <1>1, <1>2
    <3>2. \A i \in 1..n : msgs[b[i]].device = d /\ \A j \in 1..n : b[j] = b[i] => j = i
      BY <3>1 DEF BufferInv
    <3> HIDE DEF b, c, n
    <3>3. \A i \in DOMAIN c : i + 1 \in 1..n /\ c[i] = b[i + 1]
      BY <3>1
    <3>4. \A i \in DOMAIN c : msgs'[c[i]].device = d
      BY <3>2, <3>3
    <3>5. \A i, j \in DOMAIN c : c[j] = c[i] => j + 1 = i + 1
      BY <3>2, <3>3
    <3>6. \A i, j \in DOMAIN c : j + 1 = i + 1 => j = i
      BY <3>1
    <3> QED
      BY <3>4, <3>5, <3>6 DEF c
  <2> QED
    BY <2>1, <2>2 DEF BufferInv
<1> QED
  BY <1>2, <1>4, <1>5, <1>6

\* What is left of the files when nothing is added: lines of the same ids.
LEMMA LinesLeft ==
  ASSUME TypeOK, LinesInv, msgs' = msgs,
         \A f \in Files : /\ file'[f] # <<>> => f \in made'
                          /\ DOMAIN file'[f] \subseteq DOMAIN file[f],
         \A f \in Files : \A i \in DOMAIN file'[f] :
             /\ file'[f][i].id = file[f][i].id
             /\ file'[f][i].whole => file'[f][i].raw # NoText,
         \A d \in Devices : ToSet(buffer'[d]) \subseteq ToSet(buffer[d])
  PROVE  LinesInv'
<1>1. Ids' = Ids /\ \A id : FileOf(id)' = FileOf(id)
  BY DEF Ids, FileOf
<1>2. ASSUME NEW f \in Files, NEW i \in DOMAIN file'[f]
      PROVE  /\ file'[f][i].id \in Ids
             /\ FileOf(file'[f][i].id) = f
             /\ file'[f][i].whole => file'[f][i].raw # NoText
             /\ \A d \in Devices : file'[f][i].id \notin ToSet(buffer'[d])
             /\ \A j \in DOMAIN file'[f] : file'[f][j].id = file'[f][i].id => j = i
  <2> PICK s, t : s = file[f] /\ t = file'[f]
    OBVIOUS
  <2>1. /\ \A j \in DOMAIN t : j \in DOMAIN s /\ t[j].id = s[j].id
        /\ i \in DOMAIN s /\ i \in DOMAIN t
        /\ t[i].whole => t[i].raw # NoText
    BY <1>2
  <2>2. /\ s[i].id \in Ids
        /\ FileOf(s[i].id) = f
        /\ \A d \in Devices : s[i].id \notin ToSet(buffer[d])
        /\ \A j \in DOMAIN s : s[j].id = s[i].id => j = i
    BY <2>1 DEF LinesInv
  <2>3. \A d \in Devices : s[i].id \notin ToSet(buffer'[d])
    BY <2>2
  <2>4. t[i].id = s[i].id /\ \A j \in DOMAIN t : t[j].id = t[i].id => j = i
    BY <2>1, <2>2
  <2>5. FileOf(t[i].id) = f
    BY <2>2, <2>4
  <2> QED
    BY <2>1, <2>2, <2>3, <2>4, <2>5
<1> QED
  BY <1>1, <1>2 DEF LinesInv

\* One more line in a file: that of the head of a buffer, which leaves it.
LEMMA LineAdded ==
  ASSUME TypeOK, LinesInv, BufferInv, NEW d \in Devices, buffer[d] # <<>>,
         NEW l \in LineRecords, l.id = Head(buffer[d]), l.whole => l.raw # NoText,
         file' = [file EXCEPT ![FileOf(l.id)] = Append(@, l)],
         made' = made \cup {FileOf(l.id)},
         msgs' = msgs,
         \A e \in Devices : ToSet(buffer'[e]) \subseteq ToSet(buffer[e]) \ {l.id}
  PROVE  LinesInv' /\ file' \in [Files -> Seq(LineRecords)] /\ made' \subseteq Files
<1> DEFINE g == FileOf(l.id)
           n == Len(file[g])
<1>1. l.id \in Ids /\ g \in Files
  BY HeadFacts, TakenFacts
<1>2. /\ file[g] \in Seq(LineRecords) /\ n \in Nat /\ DOMAIN file[g] = 1..n
  BY <1>1, FileFacts
<1>3. file'[g] = Append(file[g], l) /\ \A f \in Files : f # g => file'[f] = file[f]
  BY <1>1 DEF TypeOK
<1>4. /\ file'[g] \in Seq(LineRecords) /\ DOMAIN file'[g] = 1..(n + 1)
      /\ \A i \in 1..n : file'[g][i] = file[g][i]
      /\ file'[g][n + 1] = l
  BY <1>2, <1>3
<1>5. file' \in [Files -> Seq(LineRecords)] /\ made' \subseteq Files
  <2>1. \A f \in Files : file'[f] \in Seq(LineRecords)
    BY <1>3, <1>4, FileFacts
  <2>2. file' = [f \in Files |-> file'[f]]
    BY DEF TypeOK
  <2> QED
    BY <1>1, <2>1, <2>2 DEF TypeOK
<1>6. Ids' = Ids /\ \A id : FileOf(id)' = FileOf(id)
  BY DEF Ids, FileOf
<1>7. \A f \in Files : \A i \in DOMAIN file[f] : file[f][i].id # l.id
  BY HeadOnce DEF LinesInv
<1> DEFINE Fine(f) ==
        /\ file'[f] # <<>> => f \in made'
        /\ \A i \in DOMAIN file'[f] :
              /\ file'[f][i].id \in Ids
              /\ FileOf(file'[f][i].id) = f
              /\ file'[f][i].whole => file'[f][i].raw # NoText
              /\ \A e \in Devices : file'[f][i].id \notin ToSet(buffer'[e])
              /\ \A j \in DOMAIN file'[f] : file'[f][j].id = file'[f][i].id => j = i
<1>8. ASSUME NEW f \in Files, f # g
      PROVE  Fine(f)
  <2>1. file'[f] = file[f] /\ f \in Files
    BY <1>3, <1>8
  <2>2. \A e \in Devices : ToSet(buffer'[e]) \subseteq ToSet(buffer[e])
    OBVIOUS
  <2>3. file[f] # <<>> => f \in made'
    BY DEF LinesInv
  <2>4. \A i \in DOMAIN file[f] :
           /\ file[f][i].id \in Ids
           /\ FileOf(file[f][i].id) = f
           /\ file[f][i].whole => file[f][i].raw # NoText
           /\ \A e \in Devices : file[f][i].id \notin ToSet(buffer[e])
           /\ \A j \in DOMAIN file[f] : file[f][j].id = file[f][i].id => j = i
    BY DEF LinesInv
  <2>5. \A i \in DOMAIN file[f] : \A e \in Devices :
           file[f][i].id \notin ToSet(buffer'[e])
    BY <2>2, <2>4
  <2>6. PICK t : t = file[f] /\ t = file'[f]
    BY <2>1
  <2>7. t # <<>> => f \in made'
    BY <2>3, <2>6
  <2>8. ASSUME NEW i \in DOMAIN t
        PROVE  /\ t[i].id \in Ids
               /\ FileOf(t[i].id) = f
               /\ t[i].whole => t[i].raw # NoText
               /\ \A e \in Devices : t[i].id \notin ToSet(buffer'[e])
               /\ \A j \in DOMAIN t : t[j].id = t[i].id => j = i
    BY <2>4, <2>5, <2>6, <2>8
  <2> QED
    BY <2>6, <2>7, <2>8
<1>9. Fine(g)
  <2>1. g \in made'
    OBVIOUS
  <2>2. ASSUME NEW i \in 1..n
        PROVE  /\ file'[g][i].id \in Ids
               /\ FileOf(file'[g][i].id) = g
               /\ file'[g][i].whole => file'[g][i].raw # NoText
               /\ \A e \in Devices : file'[g][i].id \notin ToSet(buffer'[e])
               /\ \A j \in 1..n : file'[g][j].id = file'[g][i].id => j = i
               /\ file'[g][i].id # l.id
    <3>1. file'[g][i] = file[g][i] /\ \A j \in 1..n : file'[g][j] = file[g][j]
      BY <1>4
    <3>2. /\ file[g][i].id \in Ids
          /\ FileOf(file[g][i].id) = g
          /\ file[g][i].whole => file[g][i].raw # NoText
          /\ \A e \in Devices : file[g][i].id \notin ToSet(buffer[e])
          /\ \A j \in 1..n : file[g][j].id = file[g][i].id => j = i
      BY <1>1, <1>2 DEF LinesInv
    <3>3. file[g][i].id # l.id
      BY <1>1, <1>2, <1>7
    <3> QED
      BY <3>1, <3>2, <3>3
  <2>3. \A e \in Devices : l.id \notin ToSet(buffer'[e])
    OBVIOUS
  <2>4. \A i \in DOMAIN file'[g] : i \in 1..n \/ i = n + 1
    BY <1>2, <1>4
  <2> HIDE DEF g, n
  <2>5. FileOf(l.id) = g
    BY DEF g
  <2>6. ASSUME NEW i \in DOMAIN file'[g]
        PROVE  /\ file'[g][i].id \in Ids
               /\ FileOf(file'[g][i].id) = g
               /\ file'[g][i].whole => file'[g][i].raw # NoText
               /\ \A e \in Devices : file'[g][i].id \notin ToSet(buffer'[e])
               /\ \A j \in DOMAIN file'[g] : file'[g][j].id = file'[g][i].id => j = i
    <3>1. CASE i \in 1..n
      BY <1>4, <2>2, <2>4, <3>1
    <3>2. CASE i = n + 1
      <4>1. file'[g][i] = l
        BY <1>4, <3>2
      <4>2. \A j \in DOMAIN file'[g] : file'[g][j].id = l.id => j = n + 1
        BY <2>2, <2>4
      <4> QED
        BY <1>1, <2>3, <2>5, <3>2, <4>1, <4>2
    <3> QED
      BY <2>4, <3>1, <3>2
  <2> QED
    BY <2>1, <2>6
<1> HIDE DEF Fine
<1>10. \A f \in Files : Fine(f)
  BY <1>8, <1>9
<1>11. LinesInv'
  BY <1>6, <1>10 DEF LinesInv, Fine
<1> QED
  BY <1>5, <1>11

\* Or the line that a failed write has left becomes one with it.
LEMMA LineMerged ==
  ASSUME TypeOK, LinesInv, NEW g \in Files, file[g] # <<>>, NEW l \in LineRecords,
         file' = [file EXCEPT ![g] = Append(Front(@), Merged(Last(@), l))],
         made' = made \cup {g}, msgs' = msgs,
         \A e \in Devices : ToSet(buffer'[e]) \subseteq ToSet(buffer[e])
  PROVE  /\ LinesInv' /\ file' \in [Files -> Seq(LineRecords)]
         /\ file'[g] # <<>> /\ Last(file'[g]).id = Last(file[g]).id
         /\ \A f \in Files : f # g => file'[f] = file[f]
         /\ \A x \in ToSet(file[g]) : x \in ToSet(file'[g]) \/ x.id = Last(file[g]).id
<1> PICK s, t, n, x : s = file[g] /\ t = file'[g] /\ n = Len(s) /\ x = Merged(Last(s), l)
  OBVIOUS
<1>1. /\ s \in Seq(LineRecords) /\ s # <<>>
      /\ t = Append(Front(s), x)
      /\ \A f \in Files : f # g => file'[f] = file[f]
      /\ file' = [f \in Files |-> file'[f]]
  BY DEF TypeOK
<1>2. Last(s) \in LineRecords
  <2>1. Last(s) = s[n] /\ n \in 1..n
    BY <1>1 DEF Last
  <2> QED
    BY <1>1, <2>1
<1>3. x \in LineRecords /\ x.id = Last(s).id /\ ~x.whole
  BY <1>2, MergedLine
<1>4. /\ t \in Seq(LineRecords) /\ t # <<>>
      /\ n \in Nat \ {0} /\ DOMAIN s = 1..n /\ DOMAIN t = 1..n
      /\ \A i \in 1..n : i # n => t[i] = s[i]
      /\ t[n] = x
      /\ Last(t) = x /\ Last(s) = s[n]
  BY <1>1, <1>3, ReplacedLast
<1>5. \A i \in DOMAIN t : t[i].id = s[i].id /\ (t[i].whole => t[i].raw # NoText)
  <2>1. \A i \in 1..n : s[i].whole => s[i].raw # NoText
    BY <1>4 DEF LinesInv
  <2> QED
    BY <1>3, <1>4, <2>1
<1>6. \A y \in ToSet(s) : y \in ToSet(t) \/ y.id = Last(s).id
  <2>1. ASSUME NEW i \in 1..n
        PROVE  s[i] \in ToSet(t) \/ s[i].id = Last(s).id
    BY <1>4 DEF ToSet
  <2> QED
    BY <1>4, <2>1 DEF ToSet
<1>7. file' \in [Files -> Seq(LineRecords)]
  BY <1>1, <1>4 DEF TypeOK
<1>8. \A f \in Files : file'[f] # <<>> => f \in made'
  BY <1>1 DEF LinesInv
<1>9. \A f \in Files : DOMAIN file'[f] \subseteq DOMAIN file[f]
  BY <1>1, <1>4
<1>10. \A f \in Files : \A i \in DOMAIN file'[f] :
             /\ file'[f][i].id = file[f][i].id
             /\ file'[f][i].whole => file'[f][i].raw # NoText
  BY <1>1, <1>5 DEF LinesInv
<1>11. LinesInv'
  BY <1>8, <1>9, <1>10, LinesLeft
<1> QED
  BY <1>1, <1>3, <1>4, <1>6, <1>7, <1>11

\* A line put at the end of its file, whole or not.
LEMMA PutLine ==
  ASSUME TypeOK, LinesInv, RaggedInv, BufferInv, NEW d \in Devices, buffer[d] # <<>>,
         NEW l \in LineRecords, l.id = Head(buffer[d]), l.whole => l.raw # NoText,
         NEW g, g = FileOf(l.id),
         file' = Put(g, l), made' = made \cup {g}, msgs' = msgs,
         \A e \in Devices : ToSet(buffer'[e]) \subseteq ToSet(buffer[e]) \ {l.id}
  PROVE  /\ LinesInv' /\ file' \in [Files -> Seq(LineRecords)] /\ made' \subseteq Files
         /\ g \in Files /\ file'[g] # <<>>
         /\ \A f \in Files : f # g => file'[f] = file[f]
         /\ \A f \in Files : \A x \in ToSet(file[f]) : x \in ToSet(file'[f]) \/ x.id \in unwritten
         /\ Last(file'[g]).id \in unwritten \cup {l.id}
         /\ tail[g] # "ragged" => l \in ToSet(file'[g])
<1>1. l.id \in Ids /\ g \in Files
  BY HeadFacts, TakenFacts
<1>2. made' \subseteq Files /\ file[g] \in Seq(LineRecords)
  BY <1>1, FileFacts DEF TypeOK
<1>3. CASE tail[g] = "ragged"
  <2>1. file[g] # <<>> /\ Last(file[g]).id \in unwritten
    BY <1>1, <1>3 DEF RaggedInv
  <2>2. file' = [file EXCEPT ![g] = Append(Front(@), Merged(Last(@), l))]
    BY <1>3 DEF Put
  <2>3. /\ LinesInv' /\ file' \in [Files -> Seq(LineRecords)]
        /\ file'[g] # <<>> /\ Last(file'[g]).id = Last(file[g]).id
        /\ \A f \in Files : f # g => file'[f] = file[f]
        /\ \A x \in ToSet(file[g]) : x \in ToSet(file'[g]) \/ x.id = Last(file[g]).id
    BY <1>1, <2>1, <2>2, LineMerged
  <2>4. \A f \in Files : \A x \in ToSet(file[f]) : x \in ToSet(file'[f]) \/ x.id \in unwritten
    BY <2>1, <2>3
  <2> QED
    BY <1>1, <1>2, <1>3, <2>1, <2>3, <2>4
<1>4. CASE tail[g] # "ragged"
  <2>1. file' = [file EXCEPT ![g] = Append(@, l)]
    BY <1>4 DEF Put
  <2>2. LinesInv' /\ file' \in [Files -> Seq(LineRecords)]
    <3>1. /\ file' = [file EXCEPT ![FileOf(l.id)] = Append(@, l)]
          /\ made' = made \cup {FileOf(l.id)}
      BY <2>1
    <3> QED
      BY <3>1, LineAdded
  <2>3. file'[g] = Append(file[g], l) /\ \A f \in Files : f # g => file'[f] = file[f]
    <3>1. DOMAIN file = Files
      BY DEF TypeOK
    <3> QED
      BY <1>1, <2>1, <3>1
  <2> PICK s, t : s = file[g] /\ t = file'[g]
    OBVIOUS
  <2>4. t # <<>> /\ Last(t) = l
    <3>1. s \in Seq(LineRecords) /\ t = Append(s, l)
      BY <1>2, <2>3
    <3> QED
      BY <3>1, AddedLast
  <2>5. ToSet(t) = ToSet(s) \cup {l}
    <3>1. s \in Seq(LineRecords)
      BY <1>2
    <3>2. IsSequence(s) /\ t = Append(s, l)
      BY <2>3, <3>1, TypedSequence
    <3> QED
      BY <3>2, AppendSet
  <2>6. \A f \in Files : \A x \in ToSet(file[f]) : x \in ToSet(file'[f])
    BY <2>3, <2>5
  <2> QED
    BY <1>1, <1>2, <1>4, <2>2, <2>3, <2>4, <2>5, <2>6
<1> QED
  BY <1>3, <1>4

LEMMA PlacesKept ==
  ASSUME Placed, UNCHANGED <<msgs, buffer, made, file, tail, unwritten>>
  PROVE  /\ LinesInv' /\ BufferInv' /\ RaggedInv' /\ Ids' = Ids
         /\ \A id : FileOf(id)' = FileOf(id) /\ MonthFor(id)' = MonthFor(id)
<1>1. /\ Ids' = Ids
      /\ \A id : FileOf(id)' = FileOf(id) /\ MonthFor(id)' = MonthFor(id)
  BY DEF Ids, FileOf, MonthFor
<1>2. LinesInv'
  BY <1>1 DEF Placed, LinesInv
<1>3. BufferInv' /\ RaggedInv'
  BY DEF Placed, BufferInv, RaggedInv
<1> QED
  BY <1>1, <1>2, <1>3

\* A receiver that is gone.
LEMMA NothingInMemory ==
  ASSUME Gone
  PROVE  /\ BufferInv' /\ RaggedInv'
         /\ stage' = "down" /\ offered' = {} /\ inserted' = [m \in Months |-> <<>>]
         /\ buffer' \in [Devices -> Seq(Ids')]
         /\ tail' \in [Files -> {"unknown", "clean", "ragged"}]
         /\ \A d \in Devices : buffer'[d] = <<>> /\ ToSet(buffer'[d]) = {}
<1>1. DOMAIN <<>> = {} /\ ToSet(<<>>) = {} /\ <<>> \in Seq(Ids')
  BY EmptySequence
<1>2. /\ buffer' = [d \in Devices |-> <<>>] /\ tail' = [f \in Files |-> "unknown"]
      /\ stage' = "down" /\ offered' = {} /\ inserted' = [m \in Months |-> <<>>]
  BY DEF Gone
<1>3. BufferInv' /\ RaggedInv'
  BY <1>1, <1>2 DEF BufferInv, RaggedInv
<1> QED
  BY <1>1, <1>2, <1>3

LEMMA TakePlaced ==
  ASSUME Placed, NEW d \in Devices, Take(d)
  PROVE  Placed'
<1> DEFINE new == Len(msgs) + 1
<1>0. /\ TypeOK /\ LinesInv /\ BufferInv /\ RaggedInv /\ StageInv
      /\ LineTypes /\ RowTypes /\ OtherTypes /\ GhostTypes
  BY TypesApart DEF Placed
<1>1. /\ new \in Ids' /\ new \notin Ids
      /\ Ids' = Ids \cup {new}
      /\ \A id \in Ids : msgs'[id] = msgs[id]
      /\ msgs' \in Seq(Taken)
      /\ msgs'[new].device = d
      /\ buffer' = [buffer EXCEPT ![d] = Append(@, new)]
      /\ \/ offered' = offered \cup {new} /\ refused' = refused
         \/ offered' = offered /\ refused' = refused \cup {new}
      /\ stage = "live"
      /\ UNCHANGED <<sent, inserted, made, file, tail, table, stage, command,
                     cut, unwritten, merged, skipped, unsaved, unread, half,
                     restored>>
  BY <1>0, TakeNew
<1> HIDE DEF new
<1>2. UNCHANGED <<months, todo, opened, at, tx>>
  BY <1>1 DEF command
<1>3. /\ buffer[d] \in Seq(Ids) /\ IsSequence(buffer[d]) /\ ToSet(buffer[d]) \subseteq Ids
      /\ \A e \in Devices : buffer[e] \in Seq(Ids) /\ ToSet(buffer[e]) \subseteq Ids
  BY <1>0, TypedSequence DEF TypeOK
<1>4. /\ buffer'[d] = Append(buffer[d], new)
      /\ \A e \in Devices : e # d => buffer'[e] = buffer[e]
      /\ buffer' = [e \in Devices |-> buffer'[e]]
  BY <1>0, <1>1 DEF TypeOK
<1>5. \A e \in Devices : buffer'[e] \in Seq(Ids')
  <2>1. \A e \in Devices : buffer[e] \in Seq(Ids')
    BY <1>1, <1>3
  <2> QED
    BY <1>1, <1>4, <2>1
<1>6. \A e \in Devices : ToSet(buffer'[e]) \subseteq ToSet(buffer[e]) \cup {new}
  <2>1. ToSet(buffer'[d]) = ToSet(buffer[d]) \cup {new}
    <3> DEFINE b == buffer[d]
    <3>1. IsSequence(b) /\ buffer'[d] = Append(b, new)
      BY <1>3, <1>4
    <3> HIDE DEF b
    <3>2. ToSet(buffer'[d]) = ToSet(b) \cup {new}
      BY <3>1, AppendSet
    <3> QED
      BY <3>2 DEF b
  <2>2. \A e \in Devices : e # d => ToSet(buffer'[e]) = ToSet(buffer[e])
    BY <1>4
  <2> QED
    BY <2>1, <2>2
<1>8. LinesInv'
  <2>1. ASSUME NEW f \in Files, NEW i \in DOMAIN file[f]
        PROVE  /\ file[f][i].id \in Ids
               /\ FileOf(file[f][i].id)' = f
               /\ file[f][i].whole => file[f][i].raw # NoText
               /\ \A e \in Devices : file[f][i].id \notin ToSet(buffer'[e])
               /\ \A j \in DOMAIN file[f] : file[f][j].id = file[f][i].id => j = i
    <3>1. /\ file[f][i].id \in Ids
          /\ FileOf(file[f][i].id) = f
          /\ file[f][i].whole => file[f][i].raw # NoText
          /\ \A e \in Devices : file[f][i].id \notin ToSet(buffer[e])
          /\ \A j \in DOMAIN file[f] : file[f][j].id = file[f][i].id => j = i
      BY <1>0 DEF LinesInv
    <3>2. FileOf(file[f][i].id)' = FileOf(file[f][i].id)
      <4>1. file' = file /\ msgs'[file[f][i].id] = msgs[file[f][i].id]
        BY <1>1, <3>1
      <4> QED
        BY <4>1 DEF FileOf
    <3>3. \A e \in Devices : file[f][i].id \notin ToSet(buffer'[e])
      BY <1>1, <1>6, <3>1
    <3> QED
      BY <3>1, <3>2, <3>3
  <2>2. \A f \in Files : file[f] # <<>> => f \in made
    BY <1>0 DEF LinesInv
  <2> QED
    BY <1>1, <2>1, <2>2 DEF LinesInv
<1>9. BufferInv'
  <2>1. ASSUME NEW e \in Devices, e # d
        PROVE  \A i \in DOMAIN buffer'[e] :
                  /\ msgs'[buffer'[e][i]].device = e
                  /\ \A j \in DOMAIN buffer'[e] : buffer'[e][j] = buffer'[e][i] => j = i
    <3>1. buffer'[e] = buffer[e] /\ \A i \in DOMAIN buffer[e] : buffer[e][i] \in Ids
      BY <1>3, <1>4, <2>1
    <3>2. \A i \in DOMAIN buffer[e] :
             /\ msgs[buffer[e][i]].device = e
             /\ \A j \in DOMAIN buffer[e] : buffer[e][j] = buffer[e][i] => j = i
      BY <1>0 DEF BufferInv
    <3> QED
      BY <1>1, <3>1, <3>2
  <2>2. \A i \in DOMAIN buffer'[d] :
           /\ msgs'[buffer'[d][i]].device = d
           /\ \A j \in DOMAIN buffer'[d] : buffer'[d][j] = buffer'[d][i] => j = i
    <3> DEFINE b == buffer[d]
               c == buffer'[d]
               n == Len(b)
    <3>1. /\ n \in Nat /\ DOMAIN b = 1..n /\ DOMAIN c = 1..(n + 1)
          /\ \A i \in 1..n : c[i] = b[i] /\ b[i] \in Ids
          /\ c[n + 1] = new
      BY <1>3, <1>4
    <3>2. \A i \in 1..n : msgs[b[i]].device = d /\ \A j \in 1..n : b[j] = b[i] => j = i
      BY <1>0, <3>1 DEF BufferInv
    <3> HIDE DEF b, c, n
    <3>3. \A i \in DOMAIN c : i \in 1..n \/ i = n + 1
      BY <3>1
    <3>4. \A i \in 1..n : c[i] \in Ids /\ c[i] # new
      BY <1>1, <3>1
    <3>5. \A i \in DOMAIN c : msgs'[c[i]].device = d
      BY <1>1, <3>1, <3>2, <3>3
    <3>6. \A i, j \in DOMAIN c : c[j] = c[i] => j = i
      BY <3>1, <3>2, <3>3, <3>4
    <3> QED
      BY <3>5, <3>6 DEF c
  <2> QED
    BY <2>1, <2>2 DEF BufferInv
<1>10. StageInv' /\ RaggedInv'
  BY <1>0, <1>1 DEF StageInv, RaggedInv
<1>11. LineTypes'
  BY <1>0, <1>1, <1>4, <1>5 DEF LineTypes
<1>12. RowTypes'
  <2>1. RowsOfMonths(table, Ids') /\ RowsOfMonths(inserted, Ids')
    BY <1>0, <1>1, RowsOfMoreIds DEF RowTypes
  <2> QED
    BY <1>0, <1>1, <1>2, <2>1 DEF RowTypes
<1>13. OtherTypes' /\ GhostTypes'
  BY <1>0, <1>1, <1>2 DEF OtherTypes, GhostTypes
<1>14. TypeOK'
  BY <1>11, <1>12, <1>13, TypesAfter
<1> QED
  BY <1>8, <1>9, <1>10, <1>14 DEF Placed

\* A line is written, or its write fails: the head of a buffer leaves it, and
\* a line of its message may get to its file.
LEMMA FlushPlaced ==
  ASSUME Placed, NEW d \in Devices, WriteLine(d) \/ WriteFails(d)
  PROVE  Placed'
<1> PICK h, g : h = Head(buffer[d]) /\ g = FileOf(h)
  OBVIOUS
<1>0. /\ TypeOK /\ LinesInv /\ BufferInv /\ RaggedInv /\ StageInv
      /\ LineTypes /\ RowTypes /\ OtherTypes /\ GhostTypes
  BY TypesApart DEF Placed
<1>1. /\ stage = "live" /\ buffer[d] # <<>>
      /\ buffer' = [buffer EXCEPT ![d] = Tail(@)]
      /\ UNCHANGED <<sent, msgs, offered, inserted, table, stage, command,
                     cut, rows_lost, half, restored>>
  BY DEF WriteLine, WriteFails
<1>2. UNCHANGED <<months, todo, opened, at, tx, refused, skipped, unsaved, unread>>
  BY <1>1 DEF command, rows_lost
<1>3. h \in Ids /\ g \in Files
  BY <1>0, <1>1, HeadFacts, TakenFacts
<1>4. /\ BufferInv'
      /\ buffer' \in [Devices -> Seq(Ids)]
      /\ \A e \in Devices : ToSet(buffer'[e]) \subseteq ToSet(buffer[e]) \ {h}
  BY <1>0, <1>1, HeadLeaves
<1>5. Ids' = Ids
  BY <1>1 DEF Ids
<1>6. /\ unwritten \subseteq unwritten' /\ unwritten' \subseteq Ids
      /\ merged' \subseteq Ids
      /\ tail' \in [Files -> {"unknown", "clean", "ragged"}]
  <2>1. merged' \subseteq merged \cup {h} /\ unwritten \subseteq unwritten'
        /\ unwritten' \subseteq unwritten \cup {h}
    BY DEF WriteLine, WriteFails
  <2>2. tail' \in [Files -> {"unknown", "clean", "ragged"}]
    <3>1. CASE WriteLine(d)
      BY <1>0, <3>1 DEF WriteLine, LineTypes
    <3>2. CASE WriteFails(d)
      BY <1>0, <3>2 DEF WriteFails, LineTypes
    <3> QED
      BY <3>1, <3>2
  <2> QED
    BY <1>0, <1>3, <2>1, <2>2 DEF GhostTypes
<1>7. LinesInv' /\ RaggedInv' /\ file' \in [Files -> Seq(LineRecords)] /\ made' \subseteq Files
  <2>1. CASE WriteLine(d)
    <3> PICK l : l = Line(h)
      OBVIOUS
    <3>1. l \in LineRecords /\ l.id = h /\ l.raw # NoText
      BY <1>0, <1>3, WholeLine
    <3>2. file' = Put(g, l) /\ made' = made \cup {g}
          /\ tail' = [tail EXCEPT ![g] = "clean"] /\ unwritten' = unwritten
      BY <2>1 DEF WriteLine
    <3>3. /\ LinesInv' /\ file' \in [Files -> Seq(LineRecords)] /\ made' \subseteq Files
          /\ \A f \in Files : f # g => file'[f] = file[f]
      BY <1>0, <1>1, <1>4, <3>1, <3>2, PutLine
    <3>4. tail'[g] = "clean" /\ \A f \in Files : f # g => tail'[f] = tail[f]
      BY <1>0, <1>3, <3>2 DEF LineTypes
    <3>5. RaggedInv'
      BY <1>0, <3>2, <3>3, <3>4 DEF RaggedInv
    <3> QED
      BY <3>3, <3>5
  <2>2. CASE WriteFails(d) /\ UNCHANGED <<file, tail>>
    <3>1. made' \subseteq made \cup {g} /\ made \subseteq made'
      BY <2>2 DEF WriteFails
    <3>2. /\ \A f \in Files : file'[f] # <<>> => f \in made'
          /\ \A f \in Files : DOMAIN file'[f] \subseteq DOMAIN file[f]
          /\ \A f \in Files : \A i \in DOMAIN file'[f] :
                /\ file'[f][i].id = file[f][i].id
                /\ file'[f][i].whole => file'[f][i].raw # NoText
      BY <1>0, <2>2, <3>1 DEF LinesInv
    <3>3. LinesInv'
      <4>1. \A e \in Devices : ToSet(buffer'[e]) \subseteq ToSet(buffer[e])
        BY <1>4
      <4> QED
        BY <1>0, <1>1, <3>2, <4>1, LinesLeft
    <3>4. RaggedInv'
      BY <1>0, <1>6, <2>2 DEF RaggedInv
    <3> QED
      BY <1>0, <1>3, <2>2, <3>1, <3>3, <3>4 DEF LineTypes
  <2>3. ASSUME NEW k \in CutAt, file' = Put(g, Torn(Line(h), k)), made' = made \cup {g},
               tail' = [tail EXCEPT ![g] = IF @ = "unknown" THEN @ ELSE "ragged"],
               unwritten' = unwritten \cup {h}
        PROVE  LinesInv' /\ RaggedInv' /\ file' \in [Files -> Seq(LineRecords)]
               /\ made' \subseteq Files
    <3> PICK w, l : w = Line(h) /\ l = Torn(w, k)
      OBVIOUS
    <3>0. w \in LineRecords /\ w.id = h
      BY <1>0, <1>3, WholeLine
    <3>1. l \in LineRecords /\ l.id = h /\ (l.whole => l.raw # NoText)
      BY <3>0, TornLine
    <3>2. /\ file' = Put(g, l) /\ l.id = Head(buffer[d]) /\ g = FileOf(l.id)
          /\ made' = made \cup {g} /\ msgs' = msgs /\ buffer[d] # <<>>
          /\ \A e \in Devices : ToSet(buffer'[e]) \subseteq ToSet(buffer[e]) \ {l.id}
      BY <1>1, <1>4, <2>3, <3>1
    <3>3. /\ LinesInv' /\ file' \in [Files -> Seq(LineRecords)] /\ made' \subseteq Files
          /\ file'[g] # <<>>
          /\ \A f \in Files : f # g => file'[f] = file[f]
          /\ Last(file'[g]).id \in unwritten \cup {l.id}
      BY <1>0, <3>1, <3>2, PutLine
    <3>4. \A f \in Files : f # g => tail'[f] = tail[f]
      BY <1>0, <1>3, <2>3 DEF LineTypes
    <3>5. RaggedInv'
      BY <1>0, <2>3, <3>1, <3>3, <3>4 DEF RaggedInv
    <3> QED
      BY <3>3, <3>5
  <2> QED
    BY <2>1, <2>2, <2>3 DEF WriteFails
<1>8. StageInv'
  BY <1>0, <1>1 DEF StageInv
<1>9. LineTypes'
  BY <1>0, <1>1, <1>4, <1>5, <1>6, <1>7 DEF LineTypes
<1>10. RowTypes' /\ OtherTypes' /\ GhostTypes'
  BY <1>0, <1>1, <1>2, <1>5, <1>6 DEF RowTypes, OtherTypes, GhostTypes
<1>11. TypeOK'
  BY <1>9, <1>10, TypesAfter
<1> QED
  BY <1>4, <1>7, <1>8, <1>11 DEF Placed

LEMMA InsertPlaced ==
  ASSUME Placed, NEW id \in offered, _insert_batch(id)
  PROVE  Placed'
<1> PICK m, r : m = MonthFor(id) /\ r = LiveRow(id)
  OBVIOUS
<1>0. /\ TypeOK /\ StageInv
      /\ LineTypes /\ RowTypes /\ OtherTypes /\ GhostTypes
  BY TypesApart DEF Placed
<1>1. /\ stage = "live"
      /\ offered' = offered \ {id}
      /\ UNCHANGED <<sent, msgs, buffer, written, table, stage, command,
                     lines_lost, refused, unsaved, unread, half, restored>>
      /\ \/ inserted' = [inserted EXCEPT ![m] = Append(@, r)] /\ skipped' = skipped
         \/ inserted' = inserted /\ skipped' = skipped \cup {id}
         \/ /\ inserted' = [inserted EXCEPT ![m] = <<>>]
            /\ skipped' = skipped \cup {id} \cup IdsOf(inserted[m])
  BY DEF _insert_batch
<1>2. UNCHANGED <<made, file, tail, months, todo, opened, at, tx, cut, unwritten, merged>>
  BY <1>1 DEF command, written, lines_lost
<1>3. id \in Ids /\ m \in Months /\ r.id = id
  BY <1>0, TakenFacts DEF TypeOK, LiveRow, Row
<1>4. LinesInv' /\ BufferInv' /\ RaggedInv' /\ Ids' = Ids
  BY <1>1, <1>2, PlacesKept
<1>5. IsSequence(inserted[m]) /\ IdsOf(inserted[m]) \subseteq Ids /\ DOMAIN inserted = Months
  BY <1>0, <1>3 DEF RowTypes, RowsOfMonths
<1>6. RowsOfMonths(inserted', Ids)
  <2>1. CASE inserted' = [inserted EXCEPT ![m] = Append(@, r)]
    <3> PICK s, t : s = inserted[m] /\ t = Append(s, r)
      OBVIOUS
    <3>1. IsSequence(t) /\ IdsOf(t) \subseteq Ids
      BY <1>3, <1>5, AppendSet, IdsOfRows
    <3>2. inserted' = [inserted EXCEPT ![m] = t]
      BY <1>3, <1>5, <2>1
    <3> QED
      BY <1>0, <1>3, <3>1, <3>2, RowsUpdated DEF RowTypes
  <2>2. CASE inserted' = [inserted EXCEPT ![m] = <<>>]
    <3>1. IsSequence(<<>>) /\ IdsOf(<<>>) \subseteq Ids
      BY EmptySequence, IdsOfRows
    <3> QED
      BY <1>0, <1>3, <2>2, <3>1, RowsUpdated DEF RowTypes
  <2> QED
    BY <1>0, <1>1, <2>1, <2>2 DEF RowTypes
<1>7. RowTypes' /\ LineTypes' /\ OtherTypes'
  BY <1>0, <1>1, <1>2, <1>4, <1>6 DEF RowTypes, LineTypes, OtherTypes
<1>8. GhostTypes'
  BY <1>0, <1>1, <1>2, <1>3, <1>4, <1>5 DEF GhostTypes
<1>9. TypeOK'
  BY <1>7, <1>8, TypesAfter
<1> QED
  BY <1>0, <1>1, <1>4, <1>9 DEF Placed, StageInv

LEMMA CommitPlaced ==
  ASSUME Placed, NEW m \in Months, Commit(m)
  PROVE  Placed'
<1>0. /\ TypeOK /\ StageInv
      /\ LineTypes /\ RowTypes /\ OtherTypes /\ GhostTypes
  BY TypesApart DEF Placed
<1>1. /\ stage = "live"
      /\ inserted' = [inserted EXCEPT ![m] = <<>>]
      /\ UNCHANGED <<sent, msgs, buffer, offered, written, stage, command,
                     lines_lost, refused, unsaved, unread, half, restored>>
      /\ \/ table' = [table EXCEPT ![m] = @ \o inserted[m]] /\ skipped' = skipped
         \/ table' = table /\ skipped' = skipped \cup IdsOf(inserted[m])
  BY DEF Commit
<1>2. UNCHANGED <<made, file, tail, months, todo, opened, at, tx, cut, unwritten, merged>>
  BY <1>1 DEF command, written, lines_lost
<1>3. LinesInv' /\ BufferInv' /\ RaggedInv' /\ Ids' = Ids
  BY <1>1, <1>2, PlacesKept
<1>4. /\ IsSequence(inserted[m]) /\ IdsOf(inserted[m]) \subseteq Ids
      /\ IsSequence(table[m]) /\ IdsOf(table[m]) \subseteq Ids /\ DOMAIN table = Months
  BY <1>0 DEF RowTypes, RowsOfMonths
<1>5. RowsOfMonths(inserted', Ids)
  <2>1. IsSequence(<<>>) /\ IdsOf(<<>>) \subseteq Ids
    BY EmptySequence, IdsOfRows
  <2> QED
    BY <1>0, <1>1, <2>1, RowsUpdated DEF RowTypes
<1>6. RowsOfMonths(table', Ids)
  <2>1. CASE table' = [table EXCEPT ![m] = @ \o inserted[m]]
    <3> PICK s, t, u : s = table[m] /\ t = inserted[m] /\ u = s \o t
      OBVIOUS
    <3>1. IsSequence(u) /\ IdsOf(u) \subseteq Ids
      BY <1>4, ConcatSet, IdsOfRows
    <3>2. table' = [table EXCEPT ![m] = u]
      BY <1>4, <2>1
    <3> QED
      BY <1>0, <3>1, <3>2, RowsUpdated DEF RowTypes
  <2> QED
    BY <1>0, <1>1, <2>1 DEF RowTypes
<1>7. RowTypes' /\ LineTypes' /\ OtherTypes'
  BY <1>0, <1>1, <1>2, <1>3, <1>5, <1>6 DEF RowTypes, LineTypes, OtherTypes
<1>8. GhostTypes'
  BY <1>0, <1>1, <1>2, <1>3, <1>4 DEF GhostTypes
<1>9. TypeOK'
  BY <1>7, <1>8, TypesAfter
<1> QED
  BY <1>0, <1>1, <1>3, <1>9 DEF Placed, StageInv

\* What is not in memory any more is a message's.
LEMMA LostIds ==
  ASSUME TypeOK
  PROVE  Buffered \subseteq Ids /\ Inserted \subseteq Ids
<1>1. \A d \in Devices : ToSet(buffer[d]) \subseteq Ids
  BY TypedSequence DEF TypeOK
<1> QED
  BY <1>1 DEF TypeOK, Buffered

LEMMA EndsPlaced ==
  ASSUME Placed, Ends
  PROVE  Placed'
<1>0. /\ TypeOK /\ LinesInv /\ BufferInv /\ RaggedInv /\ StageInv
      /\ LineTypes /\ RowTypes /\ OtherTypes /\ GhostTypes
  BY TypesApart DEF Placed
<1>1. /\ cut' = cut \cup Buffered
      /\ unsaved' = unsaved \cup offered \cup Inserted
      /\ UNCHANGED <<sent, msgs, table, command, unwritten, merged, refused, skipped,
                     unread, half, restored>>
      /\ stage = "live" /\ Gone
  BY DEF Ends
<1>2. UNCHANGED <<months, todo, opened, at, tx>>
  BY <1>1 DEF command
<1>3. /\ BufferInv' /\ RaggedInv'
      /\ stage' = "down" /\ offered' = {} /\ inserted' = [m \in Months |-> <<>>]
      /\ buffer' \in [Devices -> Seq(Ids')]
      /\ tail' \in [Files -> {"unknown", "clean", "ragged"}]
      /\ \A d \in Devices : buffer'[d] = <<>> /\ ToSet(buffer'[d]) = {}
  BY <1>1, NothingInMemory
<1>4. Ids' = Ids /\ \A id : FileOf(id)' = FileOf(id)
  BY <1>1 DEF Ids, FileOf
<1>5. LinesInv' /\ file' \in [Files -> Seq(LineRecords)] /\ made' \subseteq Files
  <2>1. CASE UNCHANGED <<made, file>>
    <3>1. LinesInv'
      BY <1>0, <1>3, <1>4, <2>1 DEF LinesInv
    <3> QED
      BY <1>0, <2>1, <3>1 DEF LineTypes
  <2>2. ASSUME NEW d \in Devices, NEW k \in CutAt, buffer[d] # <<>>,
               made' = made \cup {FileOf(Head(buffer[d]))},
               file' = Put(FileOf(Head(buffer[d])), Torn(Line(Head(buffer[d])), k))
        PROVE  LinesInv' /\ file' \in [Files -> Seq(LineRecords)] /\ made' \subseteq Files
    <3> PICK id, g : id = Head(buffer[d]) /\ g = FileOf(id)
      OBVIOUS
    <3> PICK w, l : w = Line(id) /\ l = Torn(w, k)
      OBVIOUS
    <3>1. id \in Ids
      BY <1>0, <2>2, HeadFacts
    <3>2. w \in LineRecords /\ w.id = id
      BY <1>0, <3>1, WholeLine
    <3>3. l \in LineRecords /\ l.id = id /\ (l.whole => l.raw # NoText)
      BY <3>2, TornLine
    <3>4. /\ file' = Put(g, l) /\ l.id = Head(buffer[d]) /\ g = FileOf(l.id)
          /\ made' = made \cup {g} /\ msgs' = msgs /\ buffer[d] # <<>>
          /\ \A e \in Devices : ToSet(buffer'[e]) \subseteq ToSet(buffer[e]) \ {l.id}
      BY <1>1, <1>3, <2>2, <3>3
    <3> QED
      BY <1>0, <3>3, <3>4, PutLine
  <2> QED
    BY <2>1, <2>2 DEF Ends
<1>6. StageInv'
  BY <1>0, <1>1, <1>3 DEF StageInv
<1>7. LineTypes' /\ OtherTypes'
  BY <1>0, <1>1, <1>2, <1>3, <1>4, <1>5 DEF LineTypes, OtherTypes
<1>8. RowTypes'
  BY <1>0, <1>1, <1>2, <1>3, <1>4, NoRowsOfMonths DEF RowTypes
<1>9. GhostTypes'
  BY <1>0, <1>1, <1>4, LostIds DEF GhostTypes, LineTypes
<1>10. TypeOK'
  BY <1>7, <1>8, <1>9, TypesAfter
<1> QED
  BY <1>3, <1>5, <1>6, <1>10 DEF Placed

\* What a power loss may leave.
LEMMA LeftRows ==
  ASSUME NEW s, IsSequence(s), NEW t \in Left(s)
  PROVE  IsSequence(t) /\ ToSet(t) \subseteq ToSet(s)
<1> PICK S : S = ToSet(s)
  OBVIOUS
<1>1. PICK n \in 0..Len(s) : t = SubSeq(s, 1, n)
  BY DEF Left
<1>2. s \in Seq(S)
  BY DEF IsSequence
<1>3. SubSeq(s, 1, n) \in Seq(S)
  BY <1>1, <1>2
<1> QED
  BY <1>1, <1>3, TypedSequence

LEMMA LeftLines ==
  ASSUME NEW s \in Seq(LineRecords), NEW t \in LeftOfFile(s),
         \A i \in DOMAIN s : s[i].whole => s[i].raw # NoText
  PROVE  /\ t \in Seq(LineRecords)
         /\ DOMAIN t \subseteq DOMAIN s
         /\ \A i \in DOMAIN t : t[i].id = s[i].id /\ (t[i].whole => t[i].raw # NoText)
<1>0. Len(s) \in Nat /\ DOMAIN s = 1..Len(s)
  OBVIOUS
<1>1. ASSUME NEW n \in 0..Len(s)
      PROVE  /\ SubSeq(s, 1, n) \in Seq(LineRecords)
             /\ DOMAIN SubSeq(s, 1, n) = 1..n /\ Len(SubSeq(s, 1, n)) = n
             /\ \A i \in 1..n : SubSeq(s, 1, n)[i] = s[i] /\ i \in DOMAIN s
  <2>1. /\ SubSeq(s, 1, n) \in Seq(LineRecords)
        /\ DOMAIN SubSeq(s, 1, n) = 1..n
        /\ \A i \in 1..n : SubSeq(s, 1, n)[i] = s[i] /\ i \in DOMAIN s
    OBVIOUS
  <2>2. Len(SubSeq(s, 1, n)) = n
    BY <2>1
  <2> QED
    BY <2>1, <2>2
<1>2. CASE t \in Left(s)
  <2>1. PICK n \in 0..Len(s) : t = SubSeq(s, 1, n)
    BY <1>2 DEF Left
  <2>2. /\ t \in Seq(LineRecords) /\ DOMAIN t = 1..n
        /\ \A i \in 1..n : t[i] = s[i] /\ i \in DOMAIN s
    BY <1>1, <2>1
  <2> QED
    BY <2>2
<1>3. ASSUME NEW n \in DOMAIN s, NEW k \in CutAt,
             t = Append(SubSeq(s, 1, n - 1), Torn(s[n], k))
      PROVE  /\ t \in Seq(LineRecords)
             /\ DOMAIN t \subseteq DOMAIN s
             /\ \A i \in DOMAIN t : t[i].id = s[i].id /\ (t[i].whole => t[i].raw # NoText)
  <2> PICK x, y, j : x = s[n] /\ y = Torn(x, k) /\ j = n - 1
    OBVIOUS
  <2> PICK u : u = SubSeq(s, 1, j)
    OBVIOUS
  <2>1. y \in LineRecords /\ y.id = x.id /\ (y.whole => y.raw # NoText)
    <3>1. x \in LineRecords
      OBVIOUS
    <3> QED
      BY <3>1, TornLine
  <2>2. j \in 0..Len(s) /\ n \in Nat /\ j + 1 = n /\ n \in DOMAIN s
    BY <1>0
  <2>3. /\ u \in Seq(LineRecords) /\ Len(u) = j
        /\ \A i \in 1..j : u[i] = s[i] /\ i \in DOMAIN s
    BY <1>1, <2>2
  <2>4. /\ t \in Seq(LineRecords) /\ DOMAIN t = 1..(j + 1)
        /\ \A i \in 1..j : t[i] = s[i] /\ i \in DOMAIN s
        /\ t[j + 1] = y
    <3>1. t = Append(u, y)
      BY <1>3
    <3>2. /\ Append(u, y) \in Seq(LineRecords)
          /\ DOMAIN Append(u, y) = 1..(Len(u) + 1)
          /\ \A i \in 1..Len(u) : Append(u, y)[i] = u[i]
          /\ Append(u, y)[Len(u) + 1] = y
      BY <2>1, <2>3
    <3> QED
      BY <2>3, <3>1, <3>2
  <2>5. \A i \in DOMAIN t : i \in 1..j \/ i = n
    BY <2>2, <2>4
  <2>6. \A i \in DOMAIN t : i \in DOMAIN s /\ t[i].id = s[i].id
                            /\ (t[i].whole => t[i].raw # NoText)
    BY <2>1, <2>2, <2>4, <2>5
  <2> QED
    BY <2>4, <2>6
<1>4. t \in Left(s) \/ \E n \in DOMAIN s, k \in CutAt :
                         t = Append(SubSeq(s, 1, n - 1), Torn(s[n], k))
  <2> DEFINE After(n, k) == Append(SubSeq(s, 1, n - 1), Torn(s[n], k))
  <2>1. LeftOfFile(s) = Left(s) \cup {After(n, k) : n \in DOMAIN s, k \in CutAt}
    BY DEF LeftOfFile
  <2> HIDE DEF After
  <2>2. t \in Left(s) \/ \E n \in DOMAIN s, k \in CutAt : t = After(n, k)
    BY <2>1
  <2> QED
    BY <2>2 DEF After
<1>5. CASE t \in Left(s)
  BY <1>2, <1>5
<1>6. CASE t \notin Left(s)
  <2>1. PICK n \in DOMAIN s, k \in CutAt : t = Append(SubSeq(s, 1, n - 1), Torn(s[n], k))
    BY <1>4, <1>6
  <2> QED
    BY <1>3, <2>1
<1> QED
  BY <1>5, <1>6

LEMMA PowerLossPlaced ==
  ASSUME Placed, PowerLoss
  PROVE  Placed'
<1>0. /\ TypeOK /\ LinesInv /\ BufferInv /\ RaggedInv /\ StageInv
      /\ LineTypes /\ RowTypes /\ OtherTypes /\ GhostTypes
  BY TypesApart DEF Placed
<1>1. /\ Gone
      /\ DOMAIN table' = Months
      /\ \A m \in Months : table'[m] \in Left(table[m])
      /\ at' = 0 /\ tx' = <<>> /\ restored' = {}
      /\ UNCHANGED <<sent, msgs, made, months, todo, opened, unwritten, merged,
                     refused, skipped, unread, half>>
  BY DEF PowerLoss
<1>2. PICK left : /\ \A f \in made : left[f] \in LeftOfFile(file[f])
                  /\ file' = [f \in Files |-> IF f \in made THEN left[f] ELSE <<>>]
  BY DEF PowerLoss
<1>3. /\ cut' = cut \cup Buffered
               \cup UNION {{l.id : l \in ToSet(file[f]) \ ToSet(file'[f])} : f \in Files}
      /\ unsaved' = unsaved \cup offered \cup Inserted
               \cup UNION {IdsOf(table[m]) \ IdsOf(table'[m]) : m \in Months}
  BY DEF PowerLoss
<1>4. /\ BufferInv' /\ RaggedInv'
      /\ stage' = "down" /\ offered' = {} /\ inserted' = [m \in Months |-> <<>>]
      /\ buffer' \in [Devices -> Seq(Ids')]
      /\ tail' \in [Files -> {"unknown", "clean", "ragged"}]
      /\ \A d \in Devices : buffer'[d] = <<>> /\ ToSet(buffer'[d]) = {}
  BY <1>1, NothingInMemory
<1>5. Ids' = Ids
  BY <1>1 DEF Ids
<1>6. ASSUME NEW f \in Files
      PROVE  /\ file'[f] \in Seq(LineRecords)
             /\ file'[f] # <<>> => f \in made'
             /\ DOMAIN file'[f] \subseteq DOMAIN file[f]
             /\ \A i \in DOMAIN file'[f] :
                   /\ file'[f][i].id = file[f][i].id
                   /\ file'[f][i].whole => file'[f][i].raw # NoText
  <2> PICK s, t : s = file[f] /\ t = file'[f]
    OBVIOUS
  <2>1. CASE f \in made
    <3>1. s \in Seq(LineRecords) /\ t \in LeftOfFile(s)
          /\ \A i \in DOMAIN s : s[i].whole => s[i].raw # NoText
      BY <1>0, <1>2, <2>1, FileFacts DEF LinesInv
    <3>2. /\ t \in Seq(LineRecords)
          /\ DOMAIN t \subseteq DOMAIN s
          /\ \A i \in DOMAIN t : t[i].id = s[i].id /\ (t[i].whole => t[i].raw # NoText)
      BY <3>1, LeftLines
    <3> QED
      BY <1>1, <2>1, <3>2
  <2>2. CASE f \notin made
    <3>1. t = <<>> /\ DOMAIN <<>> = {} /\ <<>> \in Seq(LineRecords)
      BY <1>2, <2>2
    <3> QED
      BY <3>1
  <2> QED
    BY <2>1, <2>2
<1>7. LinesInv'
  <2>1. /\ \A f \in Files : /\ file'[f] # <<>> => f \in made'
                            /\ DOMAIN file'[f] \subseteq DOMAIN file[f]
        /\ \A f \in Files : \A i \in DOMAIN file'[f] :
              /\ file'[f][i].id = file[f][i].id
              /\ file'[f][i].whole => file'[f][i].raw # NoText
        /\ \A d \in Devices : ToSet(buffer'[d]) \subseteq ToSet(buffer[d])
    BY <1>4, <1>6
  <2> QED
    BY <1>0, <1>1, <2>1, LinesLeft
<1>8. RowTypes'
  <2>1. ASSUME NEW m \in Months
        PROVE  IsSequence(table'[m]) /\ IdsOf(table'[m]) \subseteq Ids
    <3> PICK s, t : s = table[m] /\ t = table'[m]
      OBVIOUS
    <3>1. IsSequence(s) /\ IdsOf(s) \subseteq Ids /\ t \in Left(s)
      BY <1>0, <1>1 DEF RowTypes, RowsOfMonths
    <3>2. IsSequence(t) /\ ToSet(t) \subseteq ToSet(s)
      BY <3>1, LeftRows
    <3> QED
      BY <3>1, <3>2, IdsOfRows
  <2>2. RowsOfMonths(table', Ids) /\ RowsOfMonths(inserted', Ids)
    BY <1>1, <1>4, <2>1, NoRowsOfMonths DEF RowsOfMonths
  <2> QED
    BY <1>1, <1>5, <2>2, EmptySequence, IdsOfRows DEF RowTypes
<1>9. GhostTypes'
  <2>1. \A f \in Files : \A l \in ToSet(file[f]) : l.id \in Ids
    BY <1>0 DEF LinesInv, ToSet
  <2>2. \A m \in Months : IdsOf(table[m]) \subseteq Ids
    BY <1>0 DEF RowTypes, RowsOfMonths
  <2>3. cut' \subseteq Ids
    BY <1>0, <1>3, <2>1, LostIds DEF GhostTypes
  <2>4. unsaved' \subseteq Ids
    BY <1>0, <1>3, <2>2, LostIds DEF GhostTypes, LineTypes
  <2> QED
    BY <1>0, <1>1, <1>5, <2>3, <2>4 DEF GhostTypes
<1>10. LineTypes'
  <2>1. file' \in [Files -> Seq(LineRecords)]
    BY <1>2, <1>6
  <2> QED
    BY <1>0, <1>1, <1>4, <1>5, <2>1 DEF LineTypes
<1>11. OtherTypes' /\ StageInv'
  BY <1>0, <1>1, <1>4 DEF OtherTypes, StageInv
<1>12. TypeOK'
  BY <1>8, <1>9, <1>10, <1>11, TypesAfter
<1> QED
  BY <1>4, <1>7, <1>11, <1>12 DEF Placed

\* The command leaves the messages and the files alone.
LEMMA CommandPlaced ==
  ASSUME Placed,
         \/ Restart \/ RebuildStarts \/ RebuildReturns \/ RebuildKilled
         \/ \E f \in Files : OpenMonth(f) \/ _rebuild_file(f) \/ CommitFile(f)
         \/ UNCHANGED vars
  PROVE  /\ Placed'
         /\ UNCHANGED <<sent, msgs, buffer, offered, inserted, made, file, tail,
                        cut, unwritten, merged>>
         /\ Ids' = Ids
         /\ \A id : FileOf(id)' = FileOf(id) /\ MonthFor(id)' = MonthFor(id)
<1>0. /\ TypeOK /\ LinesInv /\ BufferInv /\ RaggedInv /\ StageInv
      /\ LineTypes /\ RowTypes /\ OtherTypes /\ GhostTypes
  BY TypesApart DEF Placed
<1>1. UNCHANGED <<sent, msgs, buffer, offered, inserted, made, file, tail,
                  cut, unwritten, merged>>
  BY DEF Restart, RebuildStarts, RebuildReturns, RebuildKilled, OpenMonth,
         _rebuild_file, CommitFile, vars, receiver, written, lines_lost
<1>2. /\ LinesInv' /\ BufferInv' /\ RaggedInv' /\ Ids' = Ids
      /\ \A id : FileOf(id)' = FileOf(id) /\ MonthFor(id)' = MonthFor(id)
  BY <1>1, PlacesKept
<1>3. LineTypes'
  BY <1>0, <1>1, <1>2 DEF LineTypes
<1>4. SUFFICES RowTypes' /\ OtherTypes' /\ GhostTypes' /\ StageInv'
  BY <1>1, <1>2, <1>3, TypesAfter DEF Placed
<1>5. CASE Restart
  BY <1>0, <1>1, <1>2, <1>5 DEF Restart, RowTypes, OtherTypes, GhostTypes, StageInv,
                                command, rows_lost
<1>6. CASE RebuildStarts
  <2>1. Asked(months') \subseteq Files
    BY <1>0 DEF Asked, LineTypes
  <2> QED
    BY <1>0, <1>1, <1>2, <1>6, <2>1 DEF RebuildStarts, RowTypes, OtherTypes, GhostTypes,
                                        StageInv, rows_lost
<1>7. CASE RebuildReturns
  BY <1>0, <1>1, <1>2, <1>7 DEF RebuildReturns, RowTypes, OtherTypes, GhostTypes,
                                StageInv, command, rows_lost
<1>8. CASE RebuildKilled
  BY <1>0, <1>1, <1>2, <1>8, EmptySequence, IdsOfRows
  DEF RebuildKilled, RowTypes, OtherTypes, GhostTypes, StageInv, rows_lost
<1>9. CASE UNCHANGED vars
  BY <1>0, <1>1, <1>2, <1>9 DEF vars, command, rows_lost, RowTypes, OtherTypes,
                                GhostTypes, StageInv
<1>10. ASSUME NEW f \in Files, OpenMonth(f)
       PROVE  RowTypes' /\ OtherTypes' /\ GhostTypes' /\ StageInv'
  <2> PICK m : m = MonthOf[f[2]]
    OBVIOUS
  <2>1. m \in Months /\ IsSequence(<<>>) /\ IdsOf(<<>>) \subseteq Ids
    BY FileIsFile, EmptySequence, IdsOfRows
  <2>2. /\ table' = [table EXCEPT ![m] = <<>>] /\ stage = "rebuild"
        /\ opened' = opened \cup {m} /\ restored' = restored \ {m}
        /\ half' = half \cup ({m} \cap months)
        /\ refused' \subseteq refused /\ skipped' \subseteq skipped
        /\ unsaved' \subseteq unsaved /\ unread' \subseteq unread \cup Ids
        /\ UNCHANGED <<stage, months, todo, at, tx>>
    BY <1>10 DEF OpenMonth, Emptied, Ids
  <2>3. RowsOfMonths(table', Ids)
    BY <1>0, <2>1, <2>2, RowsUpdated DEF RowTypes
  <2>4. RowTypes'
    BY <1>0, <1>1, <1>2, <2>2, <2>3 DEF RowTypes
  <2>5. OtherTypes' /\ GhostTypes' /\ StageInv'
    BY <1>0, <1>1, <1>2, <2>1, <2>2 DEF OtherTypes, GhostTypes, StageInv
  <2> QED
    BY <2>4, <2>5
<1>11. ASSUME NEW f \in Files, _rebuild_file(f)
       PROVE  RowTypes' /\ OtherTypes' /\ GhostTypes' /\ StageInv'
  <2> PICK l, r : /\ l = file[f][at + 1]
                  /\ r = Row(l.id, Directory(f), _parse_syslog(l.raw))
    OBVIOUS
  <2>1. /\ at' = at + 1 /\ at < Len(file[f]) /\ stage = "rebuild"
        /\ \/ tx' = tx /\ skipped' \subseteq skipped \cup {l.id}
           \/ tx' = Append(tx, r) /\ skipped' = skipped
           \/ tx' = <<>> /\ skipped' = skipped \cup {l.id} \cup IdsOf(tx)
        /\ UNCHANGED <<table, stage, months, todo, opened, half, restored,
                       refused, unsaved, unread>>
    BY <1>11 DEF _rebuild_file
  <2>2. at \in Nat /\ at + 1 \in DOMAIN file[f]
    BY <1>0, <2>1, FileFacts DEF OtherTypes
  <2>3. l.id \in Ids /\ r.id = l.id
    BY <1>0, <2>2 DEF LinesInv, Row
  <2>4. IsSequence(tx) /\ IdsOf(tx) \subseteq Ids /\ skipped \subseteq Ids
    BY <1>0 DEF RowTypes, GhostTypes
  <2>5. IsSequence(tx') /\ IdsOf(tx') \subseteq Ids /\ skipped' \subseteq Ids
    <3>1. CASE tx' = tx /\ skipped' \subseteq skipped \cup {l.id}
      BY <2>3, <2>4, <3>1
    <3>2. CASE tx' = Append(tx, r) /\ skipped' = skipped
      <4>1. IsSequence(Append(tx, r)) /\ IdsOf(Append(tx, r)) = IdsOf(tx) \cup {r.id}
        BY <2>4, AppendSet, IdsOfRows
      <4> QED
        BY <2>3, <2>4, <3>2, <4>1
    <3>3. CASE tx' = <<>> /\ skipped' = skipped \cup {l.id} \cup IdsOf(tx)
      BY <2>3, <2>4, <3>3, EmptySequence, IdsOfRows
    <3> QED
      BY <2>1, <3>1, <3>2, <3>3
  <2> QED
    BY <1>0, <1>1, <1>2, <2>1, <2>2, <2>5 DEF RowTypes, OtherTypes, GhostTypes, StageInv
<1>12. ASSUME NEW f \in Files, CommitFile(f)
       PROVE  RowTypes' /\ OtherTypes' /\ GhostTypes' /\ StageInv'
  <2> PICK m : m = MonthOf[f[2]]
    OBVIOUS
  <2>1. m \in Months /\ IsSequence(table[m]) /\ IdsOf(table[m]) \subseteq Ids
        /\ IsSequence(tx) /\ IdsOf(tx) \subseteq Ids /\ DOMAIN table = Months
    BY <1>0, FileIsFile DEF RowTypes, RowsOfMonths
  <2>2. /\ table' = [table EXCEPT ![m] = @ \o tx]
        /\ todo' = todo \ {f} /\ at' = 0 /\ tx' = <<>> /\ stage = "rebuild"
        /\ UNCHANGED <<stage, months, opened, half, restored, refused, skipped,
                       unsaved, unread>>
    BY <1>12 DEF CommitFile, rows_lost
  <2> PICK s, t : s = table[m] /\ t = s \o tx
    OBVIOUS
  <2>3. IsSequence(t) /\ IdsOf(t) \subseteq Ids
    BY <2>1, ConcatSet, IdsOfRows
  <2>4. table' = [table EXCEPT ![m] = t]
    BY <2>1, <2>2
  <2>5. RowsOfMonths(table', Ids)
    <3>1. RowsOfMonths(table, Ids) /\ m \in Months
      BY <1>0, <2>1 DEF RowTypes
    <3>2. RowsOfMonths([table EXCEPT ![m] = t], Ids)
      BY <2>3, <3>1, RowsUpdated
    <3> QED
      BY <2>4, <3>2
  <2>6. RowTypes'
    BY <1>0, <1>1, <1>2, <2>2, <2>5, EmptySequence, IdsOfRows DEF RowTypes
  <2> QED
    BY <1>0, <1>1, <1>2, <2>2, <2>6 DEF OtherTypes, GhostTypes, StageInv
<1> QED
  BY <1>5, <1>6, <1>7, <1>8, <1>9, <1>10, <1>11, <1>12

-----------------------------------------------------------------------------
(***************************************************************************)
(* What the command has read, and where its rows are.                      *)
(***************************************************************************)

\* The command is in the middle of a file, or about to read its first line.
Reading(f) == stage = "rebuild" /\ NextFile(f) /\ MonthOf[f[2]] \in opened

LinesRead(m) == UNION {ToSet(file[f]) : f \in Asked({m}) \ todo}

\* The months: asked for, opened, and not restored yet.
ScopeInv ==
    stage = "rebuild" =>
        /\ opened \subseteq half
        /\ opened \subseteq months
        /\ todo \subseteq Asked(months)
        /\ restored \cap opened = {}
        /\ \A f \in Asked(months) \ todo : MonthOf[f[2]] \in opened

\* A month made anew has the rows of the files that have been read.
CommittedInv ==
    stage = "rebuild" =>
        \A m \in opened : RowsAre(table[m], LinesRead(m), skipped, msgs)

\* The transaction has the rows of the lines read of the file at hand; no
\* line that is still to be read has failed, once its month is made anew.
ReadingInv ==
    stage = "rebuild" =>
        \A f \in todo : MonthOf[f[2]] \in opened =>
            /\ NextFile(f) =>
                  /\ at <= Len(file[f])
                  /\ RowsAre(tx, {file[f][i] : i \in 1..at}, skipped, msgs)
            /\ \A i \in DOMAIN file[f] :
                  ~NextFile(f) \/ i > at => file[f][i].id \notin skipped

\* Between two files nothing is left of a transaction.
RestingInv == (\A f \in Files : ~Reading(f)) => at = 0 /\ tx = <<>>

RestoredInv == \A m \in restored : RowsAre(table[m], LinesOf(m), skipped, msgs)

\* A message of a month made anew has a line to be read, or is known to have none.
UnreadInv ==
    stage = "rebuild" =>
        \A id \in Ids : MonthFor(id) \in opened => id \in Readable \cup unread

RebuildInv ==
    ScopeInv /\ CommittedInv /\ ReadingInv /\ RestingInv /\ RestoredInv /\ UnreadInv

\* Files are read in one order.
LEMMA OneNext ==
  ASSUME TypeOK, NEW f, NEW g, NextFile(f), NextFile(g)
  PROVE  f = g
<1>1. f \in Files /\ g \in Files /\ f \in todo /\ g \in todo
  BY DEF NextFile, TypeOK
<1>2. /\ f = <<f[1], f[2]>> /\ g = <<g[1], g[2]>>
      /\ f[1] \in Nat /\ f[2] \in Nat /\ g[1] \in Nat /\ g[2] \in Nat
  BY <1>1, RecoveryAssumption DEF Files
<1>3. /\ f[1] < g[1] \/ (f[1] = g[1] /\ f[2] <= g[2])
      /\ g[1] < f[1] \/ (g[1] = f[1] /\ g[2] <= f[2])
  BY <1>1 DEF NextFile
<1>4. f[1] = g[1] /\ f[2] = g[2]
  BY <1>2, <1>3
<1> QED
  BY <1>2, <1>4

\* The lines of a file and the ids they are known by.
LEMMA LineIds ==
  ASSUME Placed, NEW f \in Files, NEW l \in ToSet(file[f])
  PROVE  /\ l.id \in Ids
         /\ FileOf(l.id) = f
         /\ MonthFor(l.id) = MonthOf[f[2]]
         /\ l.whole => l.raw # NoText
<1>1. PICK i \in DOMAIN file[f] : l = file[f][i]
  BY DEF ToSet
<1>2. l.id \in Ids /\ FileOf(l.id) = f /\ (l.whole => l.raw # NoText)
  BY <1>1 DEF Placed, LinesInv
<1> QED
  BY <1>2, TakenFacts DEF Placed

\* The lines of a month, and those read of it.
LEMMA MonthLines ==
  ASSUME Placed, NEW m
  PROVE  /\ \A l \in LinesOf(m) : l.id \in Ids /\ MonthFor(l.id) = m
         /\ LinesRead(m) \subseteq LinesOf(m)
<1>1. LinesRead(m) \subseteq LinesOf(m)
  BY DEF LinesRead, LinesOf
<1>2. ASSUME NEW l \in LinesOf(m)
      PROVE  l.id \in Ids /\ MonthFor(l.id) = m
  <2>1. PICK f \in Asked({m}) : l \in ToSet(file[f])
    BY DEF LinesOf
  <2>2. f \in Files /\ MonthOf[f[2]] = m
    BY DEF Asked, Placed, TypeOK
  <2> QED
    BY <2>1, <2>2, LineIds
<1> QED
  BY <1>1, <1>2

\* Only the command touches a month's files and rows while it runs.
LEMMA MonthKept ==
  ASSUME UNCHANGED <<msgs, made, file>>, NEW m
  PROVE  /\ LinesOf(m)' = LinesOf(m)
         /\ Asked({m})' = Asked({m})
         /\ \A id : MonthFor(id)' = MonthFor(id) /\ FileOf(id)' = FileOf(id)
BY DEF LinesOf, Asked, MonthFor, FileOf

LEMMA LinesReadKept ==
  ASSUME UNCHANGED <<made, file, todo>>, NEW m
  PROVE  LinesRead(m)' = LinesRead(m)
BY DEF LinesRead, Asked

LEMMA InitRebuild == Init => RebuildInv
BY DEF Init, RebuildInv, ScopeInv, CommittedInv, ReadingInv, RestingInv,
       RestoredInv, UnreadInv

LEMMA ReadableKept ==
  ASSUME UNCHANGED <<msgs, file>>
  PROVE  Readable' = Readable
BY DEF Readable, FileOf

\* While the receiver runs nothing is restored, and no command reads.
LEMMA ReceiverRebuild ==
  ASSUME Placed, RebuildInv, stage = "live", stage' \in {"live", "down"},
         UNCHANGED <<command, restored>>
  PROVE  RebuildInv'
<1>1. restored' = {} /\ at' = at /\ tx' = tx
  BY DEF Placed, StageInv, command
<1>2. at = 0 /\ tx = <<>>
  BY DEF RebuildInv, RestingInv, Reading
<1>3. ScopeInv' /\ CommittedInv' /\ ReadingInv' /\ UnreadInv'
  BY DEF ScopeInv, CommittedInv, ReadingInv, UnreadInv
<1>4. RestingInv' /\ RestoredInv'
  BY <1>1, <1>2 DEF RestingInv, RestoredInv
<1> QED
  BY <1>3, <1>4 DEF RebuildInv

\* A power loss ends the command too.
LEMMA PowerLossRebuild ==
  ASSUME PowerLoss
  PROVE  RebuildInv'
<1>1. stage' = "down" /\ at' = 0 /\ tx' = <<>> /\ restored' = {}
  BY DEF PowerLoss, Gone
<1> QED
  BY <1>1 DEF RebuildInv, ScopeInv, CommittedInv, ReadingInv, RestingInv, RestoredInv,
              UnreadInv

LEMMA StartRebuild ==
  ASSUME Placed, RebuildInv,
         Restart \/ RebuildStarts \/ RebuildReturns \/ RebuildKilled \/ UNCHANGED vars
  PROVE  RebuildInv'
<1>0. TypeOK /\ StageInv
  BY DEF Placed
<1>1. CASE Restart
  <2>1. /\ stage = "down" /\ stage' = "live" /\ restored' = {}
        /\ at' = at /\ tx' = tx
    BY <1>1 DEF Restart, command
  <2>2. at = 0 /\ tx = <<>>
    BY <2>1 DEF RebuildInv, RestingInv, Reading
  <2> QED
    BY <2>1, <2>2 DEF RebuildInv, ScopeInv, CommittedInv, ReadingInv, RestingInv,
                      RestoredInv, UnreadInv
<1>2. CASE RebuildStarts
  <2>1. /\ stage = "down" /\ stage' = "rebuild"
        /\ months' \subseteq Months
        /\ todo' = Asked(months') /\ opened' = {}
        /\ UNCHANGED <<msgs, made, file, table, at, tx, restored, skipped>>
    BY <1>2 DEF RebuildStarts, receiver, written, rows_lost
  <2>2. at = 0 /\ tx = <<>>
    BY <2>1 DEF RebuildInv, RestingInv, Reading
  <2>3. Asked(months)' = todo'
    BY <2>1 DEF Asked
  <2>4. ScopeInv'
    BY <2>1, <2>3 DEF ScopeInv
  <2>5. CommittedInv' /\ ReadingInv' /\ RestingInv' /\ UnreadInv'
    BY <2>1, <2>2 DEF CommittedInv, ReadingInv, RestingInv, UnreadInv
  <2>6. \A m : LinesOf(m)' = LinesOf(m)
    BY <2>1, MonthKept
  <2>7. RestoredInv'
    BY <2>1, <2>6 DEF RebuildInv, RestoredInv
  <2> QED
    BY <2>4, <2>5, <2>7 DEF RebuildInv
<1>3. CASE RebuildReturns
  <2>1. /\ stage = "rebuild" /\ stage' = "down" /\ todo = {}
        /\ restored' = restored \cup opened
        /\ UNCHANGED <<msgs, made, file, table, at, tx, skipped>>
    BY <1>3 DEF RebuildReturns, receiver, written, command, rows_lost
  <2>2. at = 0 /\ tx = <<>>
    BY <2>1 DEF RebuildInv, RestingInv, Reading, NextFile
  <2>3. \A m : LinesOf(m)' = LinesOf(m) /\ LinesRead(m) = LinesOf(m)
    <3>1. \A m : LinesOf(m)' = LinesOf(m)
      BY <2>1, MonthKept
    <3>2. \A m : LinesRead(m) = LinesOf(m)
      BY <2>1 DEF LinesRead, LinesOf
    <3> QED
      BY <3>1, <3>2
  <2>4. \A m \in opened : RowsAre(table[m], LinesOf(m), skipped, msgs)
    BY <2>1, <2>3 DEF RebuildInv, CommittedInv
  <2>5. \A m \in restored : RowsAre(table[m], LinesOf(m), skipped, msgs)
    BY DEF RebuildInv, RestoredInv
  <2>6. RestoredInv'
    BY <2>1, <2>3, <2>4, <2>5 DEF RestoredInv
  <2>7. ScopeInv' /\ CommittedInv' /\ ReadingInv' /\ RestingInv' /\ UnreadInv'
    BY <2>1, <2>2 DEF ScopeInv, CommittedInv, ReadingInv, RestingInv, UnreadInv
  <2> QED
    BY <2>6, <2>7 DEF RebuildInv
<1>4. CASE RebuildKilled
  <2>1. /\ stage' = "down" /\ at' = 0 /\ tx' = <<>>
        /\ UNCHANGED <<msgs, made, file, table, skipped, restored>>
    BY <1>4 DEF RebuildKilled, receiver, written, rows_lost
  <2>2. \A m : LinesOf(m)' = LinesOf(m)
    BY <2>1, MonthKept
  <2>3. RestoredInv'
    BY <2>1, <2>2 DEF RebuildInv, RestoredInv
  <2>4. ScopeInv' /\ CommittedInv' /\ ReadingInv' /\ RestingInv' /\ UnreadInv'
    BY <2>1 DEF ScopeInv, CommittedInv, ReadingInv, RestingInv, UnreadInv
  <2> QED
    BY <2>3, <2>4 DEF RebuildInv
<1>5. CASE UNCHANGED vars
  <2>1. UNCHANGED <<msgs, made, file, table, stage, months, todo, opened, at, tx,
                    skipped, unread, half, restored>>
    BY <1>5 DEF vars, receiver, written, command, rows_lost
  <2>2. Ids' = Ids /\ Readable' = Readable /\ \A id : MonthFor(id)' = MonthFor(id)
    BY <2>1, ReadableKept DEF Ids, MonthFor
  <2>3. UnreadInv'
    BY <2>1, <2>2 DEF RebuildInv, UnreadInv
  <2>4. ScopeInv' /\ CommittedInv' /\ ReadingInv' /\ RestingInv' /\ RestoredInv'
    BY <2>1 DEF RebuildInv, ScopeInv, CommittedInv, ReadingInv, RestingInv,
                RestoredInv, Reading, NextFile, LinesRead, LinesOf, Asked
  <2> QED
    BY <2>3, <2>4 DEF RebuildInv
<1> QED
  BY <1>1, <1>2, <1>3, <1>4, <1>5

LEMMA OpenRebuild ==
  ASSUME Placed, RebuildInv, NEW f \in Files, OpenMonth(f)
  PROVE  RebuildInv'
<1> DEFINE m0 == MonthOf[f[2]]
<1>0. /\ TypeOK /\ ScopeInv /\ CommittedInv /\ ReadingInv /\ RestingInv /\ RestoredInv
      /\ UnreadInv /\ m0 \in Months
  BY FileIsFile DEF Placed, RebuildInv
<1>1. /\ stage = "rebuild" /\ NextFile(f) /\ m0 \notin opened
      /\ opened' = opened \cup {m0}
      /\ table' = [table EXCEPT ![m0] = <<>>]
      /\ restored' = restored \ {m0}
      /\ half' = half \cup ({m0} \cap months)
      /\ skipped' = {id \in skipped : MonthFor(id) # m0}
      /\ unread' = {id \in unread : MonthFor(id) # m0}
                   \cup {id \in Ids : MonthFor(id) = m0 /\ id \notin Readable}
      /\ UNCHANGED <<msgs, made, file, stage, months, todo, at, tx>>
  <2> PICK others : others = {id \in Ids : MonthFor(id) # m0}
    OBVIOUS
  <2>1. /\ stage = "rebuild" /\ NextFile(f) /\ m0 \notin opened
        /\ opened' = opened \cup {m0}
        /\ table' = [table EXCEPT ![m0] = <<>>]
        /\ restored' = restored \ {m0}
        /\ half' = half \cup ({m0} \cap months)
        /\ skipped' = skipped \cap others
        /\ unread' = (unread \cap others) \cup (Ids \ (others \cup Readable))
        /\ UNCHANGED <<msgs, made, file, stage, months, todo, at, tx>>
    BY DEF OpenMonth, Emptied, receiver, written, Ids
  <2>2. skipped \subseteq Ids /\ unread \subseteq Ids
    BY <1>0 DEF TypeOK
  <2> QED
    BY <2>1, <2>2
<1> HIDE DEF m0
<1>2. /\ DOMAIN table = Months /\ f \in todo
      /\ table'[m0] = <<>>
      /\ \A m \in Months : m # m0 => table'[m] = table[m]
      /\ opened \subseteq Months /\ restored \subseteq Months
  BY <1>0, <1>1 DEF TypeOK, NextFile
<1>3. at = 0 /\ tx = <<>>
  <2>1. \A g \in Files : ~Reading(g)
    BY <1>0, <1>1, OneNext DEF Reading, m0
  <2> QED
    BY <1>0, <2>1 DEF RestingInv
<1>4. \A m : LinesOf(m)' = LinesOf(m) /\ LinesRead(m)' = LinesRead(m)
  BY <1>1, MonthKept, LinesReadKept
<1>5. ASSUME NEW m, m # m0
      PROVE  \A l \in LinesOf(m) : l.id \in skipped <=> l.id \in skipped'
  BY <1>1, <1>5, MonthLines
<1>6. ScopeInv'
  <2>1. Asked(months)' = Asked(months)
    BY <1>1 DEF Asked
  <2>2. m0 \in months
    BY <1>0, <1>1, <1>2 DEF ScopeInv, Asked, m0
  <2> QED
    BY <1>0, <1>1, <2>1, <2>2 DEF ScopeInv
<1>7. CommittedInv'
  <2>1. ASSUME NEW m \in opened
        PROVE  RowsAre(table'[m], LinesRead(m), skipped', msgs)
    <3>1. m # m0 /\ m \in Months
      BY <1>1, <1>2
    <3>2. RowsAre(table[m], LinesRead(m), skipped, msgs)
      BY <1>0, <1>1 DEF CommittedInv
    <3>3. \A l \in LinesRead(m) : l.id \in skipped <=> l.id \in skipped'
      BY <1>5, <3>1, MonthLines
    <3>4. RowsAre(table[m], LinesRead(m), skipped', msgs)
      BY <3>2, <3>3, SameRows
    <3> QED
      BY <1>2, <3>1, <3>4
  <2>2. RowsAre(table'[m0], LinesRead(m0), skipped', msgs)
    <3>1. Asked({m0}) \ todo = {}
      <4>1. SUFFICES ASSUME NEW g \in Asked({m0}), g \notin todo
                     PROVE  FALSE
        OBVIOUS
      <4>2. MonthOf[g[2]] = m0 /\ g \in made
        BY DEF Asked
      <4>3. m0 \in months
        BY <1>0, <1>1, <1>2 DEF ScopeInv, Asked, m0
      <4>4. g \in Asked(months)
        BY <4>2, <4>3 DEF Asked
      <4> QED
        BY <1>0, <1>1, <4>1, <4>2, <4>4 DEF ScopeInv
    <3>2. LinesRead(m0) = {}
      BY <3>1 DEF LinesRead
    <3> QED
      BY <1>2, <3>2, NoRows
  <2> QED
    BY <1>1, <1>4, <2>1, <2>2 DEF CommittedInv
<1>8. ReadingInv'
  <2>1. ASSUME NEW g \in todo, MonthOf[g[2]] \in opened'
        PROVE  /\ NextFile(g) =>
                     /\ at <= Len(file[g])
                     /\ RowsAre(tx, {file[g][i] : i \in 1..at}, skipped', msgs)
               /\ \A i \in DOMAIN file[g] :
                     ~NextFile(g) \/ i > at => file[g][i].id \notin skipped'
    <3>1. g \in Files /\ Len(file[g]) \in Nat /\ 0 <= Len(file[g])
      BY <1>0, FileFacts DEF TypeOK
    <3>2. ASSUME NextFile(g)
          PROVE  /\ at <= Len(file[g])
                 /\ RowsAre(tx, {file[g][i] : i \in 1..at}, skipped', msgs)
      <4>1. {file[g][i] : i \in 1..0} = {}
        OBVIOUS
      <4>2. RowsAre(<<>>, {}, skipped', msgs)
        BY NoRows
      <4> QED
        BY <1>3, <3>1, <4>1, <4>2
    <3>3. ASSUME MonthOf[g[2]] = m0, NEW i \in DOMAIN file[g]
          PROVE  file[g][i].id \notin skipped'
      <4>1. file[g][i] \in ToSet(file[g])
        BY DEF ToSet
      <4>2. MonthFor(file[g][i].id) = m0
        BY <3>1, <3>3, <4>1, LineIds
      <4> QED
        BY <1>1, <4>2
    <3>4. ASSUME MonthOf[g[2]] # m0, NEW i \in DOMAIN file[g]
          PROVE  file[g][i].id \notin skipped'
      <4>1. ~NextFile(g)
        BY <1>0, <1>1, <3>4, OneNext DEF m0
      <4>2. MonthOf[g[2]] \in opened
        BY <1>1, <2>1, <3>4
      <4>3. file[g][i].id \notin skipped
        BY <1>0, <1>1, <4>1, <4>2 DEF ReadingInv
      <4> QED
        BY <1>1, <4>3
    <3> QED
      BY <3>2, <3>3, <3>4
  <2>2. \A g : NextFile(g)' <=> NextFile(g)
    BY <1>1 DEF NextFile
  <2> QED
    BY <1>1, <2>1, <2>2 DEF ReadingInv
<1>9. RestingInv'
  BY <1>1, <1>3 DEF RestingInv
<1>10. RestoredInv'
  <2>1. ASSUME NEW m \in restored, m # m0
        PROVE  RowsAre(table'[m], LinesOf(m), skipped', msgs)
    <3>1. RowsAre(table[m], LinesOf(m), skipped, msgs)
      BY <1>0 DEF RestoredInv
    <3>2. \A l \in LinesOf(m) : l.id \in skipped <=> l.id \in skipped'
      BY <1>5, <2>1
    <3>3. RowsAre(table[m], LinesOf(m), skipped', msgs)
      BY <3>1, <3>2, SameRows
    <3>4. table'[m] = table[m]
      BY <1>2, <2>1
    <3> QED
      BY <3>3, <3>4
  <2> QED
    BY <1>1, <1>4, <2>1 DEF RestoredInv
<1>11. UnreadInv'
  <2>1. Ids' = Ids /\ Readable' = Readable /\ \A id : MonthFor(id)' = MonthFor(id)
    BY <1>1, ReadableKept DEF Ids, MonthFor
  <2>2. \A id \in Ids : MonthFor(id) \in opened => id \in Readable \cup unread
    BY <1>0, <1>1 DEF UnreadInv
  <2>3. \A id \in Ids : MonthFor(id) \in opened \cup {m0} => id \in Readable \cup unread'
    BY <1>1, <2>2
  <2> QED
    BY <1>1, <2>1, <2>3 DEF UnreadInv
<1> QED
  BY <1>6, <1>7, <1>8, <1>9, <1>10, <1>11 DEF RebuildInv

\* A line read: in the transaction, or left out of it.
LEMMA LineRebuild ==
  ASSUME Placed, RebuildInv, NEW f \in Files, _rebuild_file(f)
  PROVE  RebuildInv'
<1> DEFINE m0 == MonthOf[f[2]]
           l == file[f][at + 1]
           n == at + 1
           L == {file[f][i] : i \in 1..at}
           M == {file[f][i] : i \in 1..n}
<1>0. /\ TypeOK /\ LinesInv
      /\ ScopeInv /\ CommittedInv /\ ReadingInv /\ RestingInv /\ RestoredInv /\ UnreadInv
  BY DEF Placed, RebuildInv
<1>1. /\ stage = "rebuild" /\ NextFile(f) /\ m0 \in opened
      /\ at < Len(file[f]) /\ at' = n
      /\ UNCHANGED <<msgs, made, file, table, stage, months, todo, opened, half,
                     restored, unread>>
  BY DEF _rebuild_file, receiver, written
<1>3. /\ at \in Nat /\ n \in DOMAIN file[f] /\ n <= Len(file[f])
      /\ DOMAIN file[f] = 1..Len(file[f]) /\ Len(file[f]) \in Nat
      /\ f \in todo
  BY <1>0, <1>1, FileFacts DEF TypeOK, NextFile
<1>4. l \in ToSet(file[f])
  BY <1>3 DEF ToSet
<1>5. l.id \in Ids /\ FileOf(l.id) = f /\ MonthFor(l.id) = m0
  BY <1>4, LineIds
<1>2. \/ l.raw = NoText /\ tx' = tx /\ skipped' = skipped
      \/ l.raw # NoText /\ tx' = Append(tx, RowOf(l, msgs)) /\ skipped' = skipped
      \/ l.raw # NoText /\ tx' = tx /\ skipped' = skipped \cup {l.id}
      \/ /\ l.raw # NoText /\ tx' = <<>>
         /\ skipped' = skipped \cup {l.id} \cup IdsOf(tx)
  <2>1. FileOf(l.id)[1] = msgs[l.id].device
    BY DEF FileOf
  <2>2. Row(l.id, Directory(f), _parse_syslog(l.raw)) = RowOf(l, msgs)
    BY <1>5, <2>1 DEF RowOf, Directory
  <2> QED
    BY <2>2 DEF _rebuild_file
<1>6. /\ RowsAre(tx, L, skipped, msgs)
      /\ \A i \in DOMAIN file[f] : i > at => file[f][i].id \notin skipped
  BY <1>0, <1>1, <1>3 DEF ReadingInv
<1>7. /\ M = L \cup {l}
      /\ \A x \in L : x.id # l.id
      /\ l.id \notin skipped
  <2>1. 1..n = 1..at \cup {n} /\ n > at /\ \A i \in 1..at : i \in DOMAIN file[f] /\ i # n
    BY <1>3
  <2>2. \A i, j \in DOMAIN file[f] : file[f][j].id = file[f][i].id => j = i
    BY <1>0 DEF LinesInv
  <2>3. M = L \cup {l}
    BY <2>1
  <2>4. \A i \in 1..at : file[f][i].id # l.id
    BY <1>3, <2>1, <2>2
  <2>5. l.id \notin skipped
    BY <1>3, <1>6, <2>1
  <2> QED
    BY <2>3, <2>4, <2>5
<1>8. \A x \in M : x \in ToSet(file[f]) /\ x.id \in Ids /\ FileOf(x.id) = f
                   /\ MonthFor(x.id) = m0
  <2>1. \A i \in 1..n : file[f][i] \in ToSet(file[f])
    BY <1>3 DEF ToSet
  <2> QED
    BY <2>1, LineIds
<1> HIDE DEF l, L, M, m0
<1>9. RowsAre(tx', M, skipped', msgs)
      /\ skipped \subseteq skipped' /\ \A id \in skipped' \ skipped : \E x \in M : x.id = id
  <2>0. l \notin L /\ l \in M
    BY <1>7
  <2>1. CASE l.raw = NoText /\ tx' = tx /\ skipped' = skipped
    BY <1>6, <1>7, <2>1, NoMoreRows
  <2>2. CASE l.raw # NoText /\ tx' = Append(tx, RowOf(l, msgs)) /\ skipped' = skipped
    <3>1. RowsAre(Append(tx, RowOf(l, msgs)), L \cup {l}, skipped, msgs)
      BY <1>6, <1>7, <2>0, <2>2, MoreRows
    <3> QED
      BY <1>7, <2>2, <3>1
  <2>3. CASE l.raw # NoText /\ tx' = tx /\ skipped' = skipped \cup {l.id}
    <3>1. \A x \in L : x.id \in skipped <=> x.id \in skipped'
      BY <1>7, <2>3
    <3>2. RowsAre(tx, L, skipped', msgs)
      BY <1>6, <3>1, SameRows
    <3>3. RowsAre(tx, L \cup {l}, skipped', msgs)
      BY <2>3, <3>2, NoMoreRows
    <3> QED
      BY <1>7, <2>0, <2>3, <3>3
  <2>4. CASE /\ l.raw # NoText /\ tx' = <<>>
             /\ skipped' = skipped \cup {l.id} \cup IdsOf(tx)
    <3>1. ToSet(tx) = {RowOf(x, msgs) : x \in ReadIn(L, skipped)} /\ \A x : RowOf(x, msgs).id = x.id
      BY <1>6 DEF RowsAre, RowOf, Row
    <3>2. ReadIn(M, skipped') = {}
      <4>1. \A x \in L : x.raw # NoText /\ x.id \notin skipped => RowOf(x, msgs) \in ToSet(tx)
        BY <3>1 DEF ReadIn
      <4>2. \A x \in L : x.raw # NoText => x.id \in skipped'
        BY <2>4, <3>1, <4>1 DEF IdsOf
      <4> QED
        BY <1>7, <2>4, <4>2 DEF ReadIn
    <3>3. RowsAre(<<>>, M, skipped', msgs)
      BY <3>2, EmptySequence, FS_EmptySet DEF RowsAre
    <3>4. \A r \in ToSet(tx) : \E x \in M : x.id = r.id
      BY <1>7, <3>1 DEF ReadIn
    <3> QED
      BY <2>0, <2>4, <3>3, <3>4 DEF IdsOf
  <2> QED
    BY <1>2, <2>1, <2>2, <2>3, <2>4
<1>10. \A m : LinesOf(m)' = LinesOf(m) /\ LinesRead(m)' = LinesRead(m)
  BY <1>1, MonthKept, LinesReadKept
<1>11. ScopeInv'
  <2>1. Asked(months)' = Asked(months)
    BY <1>1 DEF Asked
  <2> QED
    BY <1>0, <1>1, <2>1 DEF ScopeInv
<1>12. CommittedInv'
  <2>1. ASSUME NEW m \in opened
        PROVE  RowsAre(table[m], LinesRead(m), skipped', msgs)
    <3>1. RowsAre(table[m], LinesRead(m), skipped, msgs)
      BY <1>0, <1>1 DEF CommittedInv
    <3>2. ASSUME NEW x \in LinesRead(m)
          PROVE  FileOf(x.id) # f
      <4>1. PICK g \in Asked({m}) \ todo : x \in ToSet(file[g])
        BY DEF LinesRead
      <4>2. g \in Files /\ g # f
        BY <1>0, <1>3, <4>1 DEF Asked, TypeOK
      <4> QED
        BY <4>1, <4>2, LineIds
    <3>3. \A x \in LinesRead(m) : x.id \in skipped <=> x.id \in skipped'
      BY <1>8, <1>9, <3>2
    <3> QED
      BY <3>1, <3>3, SameRows
  <2> QED
    BY <1>1, <1>10, <2>1 DEF CommittedInv
<1>13. ReadingInv'
  <2>1. ASSUME NEW g \in todo, MonthOf[g[2]] \in opened
        PROVE  /\ NextFile(g) =>
                     /\ n <= Len(file[g])
                     /\ RowsAre(tx', {file[g][i] : i \in 1..n}, skipped', msgs)
               /\ \A i \in DOMAIN file[g] :
                     ~NextFile(g) \/ i > n => file[g][i].id \notin skipped'
    <3>1. CASE g = f
      <4>1. RowsAre(tx', {file[f][i] : i \in 1..n}, skipped', msgs)
        BY <1>9 DEF M
      <4>2. ASSUME NEW i \in DOMAIN file[f], i > n
            PROVE  file[f][i].id \notin skipped'
        <5>1. i > at /\ i # n
          BY <1>3, <4>2
        <5>2. file[f][i].id \notin skipped
          BY <1>6, <5>1
        <5>3. \A j \in 1..n : j \in DOMAIN file[f] /\ j # i
          BY <1>3, <4>2
        <5>4. \A j \in 1..n : file[f][j].id # file[f][i].id
          BY <1>0, <5>3 DEF LinesInv
        <5>5. \A x \in M : x.id # file[f][i].id
          BY <5>4 DEF M
        <5> QED
          BY <1>9, <5>2, <5>5
      <4> QED
        BY <1>1, <1>3, <3>1, <4>1, <4>2
    <3>2. CASE g # f
      <4>1. ~NextFile(g) /\ g \in Files
        BY <1>0, <1>1, <3>2, OneNext DEF TypeOK
      <4>2. ASSUME NEW i \in DOMAIN file[g]
            PROVE  file[g][i].id \notin skipped'
        <5>1. file[g][i].id \notin skipped
          BY <1>0, <1>1, <2>1, <4>1 DEF ReadingInv
        <5>2. file[g][i] \in ToSet(file[g])
          BY DEF ToSet
        <5>3. FileOf(file[g][i].id) = g
          BY <4>1, <5>2, LineIds
        <5> QED
          BY <1>8, <1>9, <3>2, <5>1, <5>3
      <4> QED
        BY <4>1, <4>2
    <3> QED
      BY <3>1, <3>2
  <2>2. \A g : NextFile(g)' <=> NextFile(g)
    BY <1>1 DEF NextFile
  <2> HIDE DEF n
  <2> QED
    BY <1>1, <2>1, <2>2 DEF ReadingInv
<1>14. RestingInv'
  <2>1. Reading(f)'
    BY <1>1 DEF Reading, NextFile, m0
  <2> QED
    BY <2>1 DEF RestingInv
<1>15. RestoredInv'
  <2>1. ASSUME NEW m \in restored
        PROVE  RowsAre(table[m], LinesOf(m), skipped', msgs)
    <3>1. RowsAre(table[m], LinesOf(m), skipped, msgs) /\ m # m0
      BY <1>0, <1>1 DEF RestoredInv, ScopeInv
    <3>2. \A x \in LinesOf(m) : MonthFor(x.id) # m0
      BY <3>1, MonthLines
    <3>3. \A x \in LinesOf(m) : x.id \in skipped <=> x.id \in skipped'
      BY <1>8, <1>9, <3>2
    <3> QED
      BY <3>1, <3>3, SameRows
  <2> QED
    BY <1>1, <1>10, <2>1 DEF RestoredInv
<1>16. UnreadInv'
  <2>1. Ids' = Ids /\ Readable' = Readable /\ \A id : MonthFor(id)' = MonthFor(id)
    BY <1>1, ReadableKept DEF Ids, MonthFor
  <2> QED
    BY <1>0, <1>1, <2>1 DEF UnreadInv
<1> QED
  BY <1>11, <1>12, <1>13, <1>14, <1>15, <1>16 DEF RebuildInv

\* The rows of a file join those of its month.
LEMMA CommitRebuild ==
  ASSUME Placed, RebuildInv, NEW f \in Files, CommitFile(f)
  PROVE  RebuildInv'
<1> DEFINE m0 == MonthOf[f[2]]
           L == {file[f][i] : i \in 1..at}
<1>0. /\ TypeOK
      /\ ScopeInv /\ CommittedInv /\ ReadingInv /\ RestingInv /\ RestoredInv /\ UnreadInv
  BY DEF Placed, RebuildInv
<1>1. /\ stage = "rebuild" /\ NextFile(f) /\ m0 \in opened
      /\ at = Len(file[f]) /\ at' = 0 /\ tx' = <<>>
      /\ table' = [table EXCEPT ![m0] = table[m0] \o tx]
      /\ todo' = todo \ {f}
      /\ UNCHANGED <<msgs, made, file, stage, months, opened, half, restored,
                     skipped, unread>>
  <2>1. table' = [table EXCEPT ![m0] = @ \o tx]
    BY DEF CommitFile
  <2>2. m0 \in DOMAIN table
    BY <1>0, FileIsFile DEF TypeOK
  <2>3. table' = [table EXCEPT ![m0] = table[m0] \o tx]
    BY <2>1, <2>2
  <2> QED
    BY <2>3 DEF CommitFile, receiver, written, rows_lost
<1>2. /\ f \in todo /\ file[f] \in Seq(LineRecords) /\ DOMAIN file[f] = 1..Len(file[f])
      /\ DOMAIN table = Months /\ m0 \in Months
  BY <1>0, <1>1, FileFacts, FileIsFile DEF NextFile, TypeOK
<1>3. RowsAre(tx, ToSet(file[f]), skipped, msgs)
  <2>1. RowsAre(tx, L, skipped, msgs)
    BY <1>0, <1>1, <1>2 DEF ReadingInv
  <2>2. L = ToSet(file[f])
    BY <1>1, <1>2 DEF ToSet
  <2> QED
    BY <2>1, <2>2
<1> HIDE DEF L
<1>4. f \in Asked({m0})
  BY <1>0, <1>1, <1>2 DEF ScopeInv, Asked
<1>5. /\ table'[m0] = table[m0] \o tx
      /\ \A m \in Months : m # m0 => table'[m] = table[m]
  BY <1>1, <1>2
<1>6. \A m : LinesOf(m)' = LinesOf(m) /\ Asked({m})' = Asked({m})
  BY <1>1, MonthKept
<1>7. LinesRead(m0)' = LinesRead(m0) \cup ToSet(file[f])
  <2>1. Asked({m0}) \ (todo \ {f}) = (Asked({m0}) \ todo) \cup {f}
    BY <1>4
  <2>2. LinesRead(m0)' = UNION {ToSet(file[g]) : g \in Asked({m0}) \ (todo \ {f})}
    BY <1>1 DEF LinesRead, Asked, m0
  <2>3. UNION {ToSet(file[g]) : g \in (Asked({m0}) \ todo) \cup {f}}
            = LinesRead(m0) \cup ToSet(file[f])
    BY DEF LinesRead
  <2> QED
    BY <2>1, <2>2, <2>3
<1>8. ASSUME NEW m, m # m0
      PROVE  LinesRead(m)' = LinesRead(m)
  <2>1. Asked({m}) \ (todo \ {f}) = Asked({m}) \ todo
    BY <1>8 DEF Asked, m0
  <2>2. LinesRead(m)' = UNION {ToSet(file[g]) : g \in Asked({m}) \ (todo \ {f})}
    BY <1>1 DEF LinesRead, Asked
  <2> QED
    BY <2>1, <2>2 DEF LinesRead
<1>9. LinesRead(m0) \cap ToSet(file[f]) = {}
  <2>1. SUFFICES ASSUME NEW x \in LinesRead(m0), x \in ToSet(file[f])
                 PROVE  FALSE
    OBVIOUS
  <2>2. PICK g \in Asked({m0}) \ todo : x \in ToSet(file[g])
    BY DEF LinesRead
  <2>3. g \in Files /\ g # f
    BY <1>0, <1>2, <2>2 DEF Asked, TypeOK
  <2>4. FileOf(x.id) = g /\ FileOf(x.id) = f
    BY <2>1, <2>2, <2>3, LineIds
  <2> QED
    BY <2>3, <2>4
<1> HIDE DEF m0
<1>10. ScopeInv'
  <2>1. Asked(months)' = Asked(months)
    BY <1>1 DEF Asked
  <2>2. \A g \in Asked(months) \ (todo \ {f}) : MonthOf[g[2]] \in opened
    BY <1>0, <1>1 DEF ScopeInv, m0
  <2> QED
    BY <1>0, <1>1, <2>1, <2>2 DEF ScopeInv
<1>11. CommittedInv'
  <2>1. ASSUME NEW m \in opened
        PROVE  RowsAre(table'[m], LinesRead(m)', skipped, msgs)
    <3>1. RowsAre(table[m], LinesRead(m), skipped, msgs) /\ m \in Months
      BY <1>0, <1>1 DEF CommittedInv, TypeOK
    <3>2. CASE m = m0
      <4>1. RowsAre(table[m0] \o tx, LinesRead(m0) \cup ToSet(file[f]), skipped, msgs)
        BY <1>3, <1>9, <3>1, <3>2, JoinedRows
      <4> QED
        BY <1>5, <1>7, <3>2, <4>1
    <3>3. CASE m # m0
      BY <1>5, <1>8, <3>1, <3>3
    <3> QED
      BY <3>2, <3>3
  <2> QED
    BY <1>1, <2>1 DEF CommittedInv
<1>12. ReadingInv'
  <2>1. ASSUME NEW g \in todo', MonthOf[g[2]] \in opened
        PROVE  /\ 0 <= Len(file[g])
               /\ RowsAre(<<>>, {file[g][i] : i \in 1..0}, skipped, msgs)
               /\ \A i \in DOMAIN file[g] : file[g][i].id \notin skipped
    <3>1. g \in todo /\ g # f /\ g \in Files
      BY <1>0, <1>1 DEF TypeOK
    <3>2. ~NextFile(g)
      BY <1>0, <1>1, <3>1, OneNext
    <3>3. \A i \in DOMAIN file[g] : file[g][i].id \notin skipped
      BY <1>0, <1>1, <2>1, <3>1, <3>2 DEF ReadingInv
    <3>4. {file[g][i] : i \in 1..0} = {}
      OBVIOUS
    <3>5. RowsAre(<<>>, {}, skipped, msgs)
      BY NoRows
    <3>6. 0 <= Len(file[g])
      BY <1>0, <3>1, FileFacts
    <3> QED
      BY <3>3, <3>4, <3>5, <3>6
  <2> QED
    BY <1>1, <2>1 DEF ReadingInv
<1>13. RestingInv'
  BY <1>1 DEF RestingInv
<1>14. RestoredInv'
  <2>1. ASSUME NEW m \in restored
        PROVE  RowsAre(table'[m], LinesOf(m), skipped, msgs)
    <3>1. RowsAre(table[m], LinesOf(m), skipped, msgs) /\ m # m0 /\ m \in Months
      BY <1>0, <1>1 DEF RestoredInv, ScopeInv, TypeOK
    <3> QED
      BY <1>5, <3>1
  <2> QED
    BY <1>1, <1>6, <2>1 DEF RestoredInv
<1>15. UnreadInv'
  <2>1. Ids' = Ids /\ Readable' = Readable /\ \A id : MonthFor(id)' = MonthFor(id)
    BY <1>1, ReadableKept DEF Ids, MonthFor
  <2> QED
    BY <1>0, <1>1, <2>1 DEF UnreadInv
<1> QED
  BY <1>10, <1>11, <1>12, <1>13, <1>14, <1>15 DEF RebuildInv


-----------------------------------------------------------------------------
(***************************************************************************)
(* The two records of a message.                                           *)
(***************************************************************************)

NoLine == cut \cup unwritten \cup merged

NoRow == refused \cup skipped \cup unsaved \cup unread

OnFile(id) == id \in Filed \/ id \in Buffered \/ id \in NoLine

OnIndex(id) ==
    \/ MonthFor(id) \in half
    \/ id \in IdsOf(table[MonthFor(id)])
    \/ id \in IdsOf(inserted[MonthFor(id)])
    \/ id \in offered
    \/ id \in NoRow

LEMMA Agreeing == RecordsAgree <=> \A id \in Ids : OnFile(id) /\ OnIndex(id)
BY DEF RecordsAgree, OnFile, OnIndex, NoLine, NoRow

LEMMA AgreeingAfter ==
  ASSUME \A id \in Ids' : OnFile(id)' /\ OnIndex(id)'
  PROVE  RecordsAgree'
BY DEF RecordsAgree, OnFile, OnIndex, NoLine, NoRow

\* A message is still recorded if the lines there were are, or are known to be
\* lost, and so are those in memory.
LEMMA StillOnFile ==
  ASSUME TypeOK, NEW id \in Ids, OnFile(id), id \in Ids', FileOf(id)' = FileOf(id),
         \A x \in Buffered : x \in Buffered' \/ x \in Filed' \/ x \in NoLine',
         NoLine \subseteq NoLine',
         \A f \in Files : \A l \in ToSet(file[f]) : l \in ToSet(file'[f]) \/ l.id \in NoLine'
  PROVE  OnFile(id)'
<1>1. ASSUME id \in Filed
      PROVE  id \in Filed' \/ id \in NoLine'
  <2> PICK g : g = FileOf(id)
    OBVIOUS
  <2>1. g \in Files /\ FileOf(id)' = g
    BY TakenFacts
  <2>2. PICK l \in ToSet(file[g]) : l.id = id /\ l.whole
    BY <1>1 DEF Filed
  <2>3. l \in ToSet(file'[g]) \/ l.id \in NoLine'
    BY <2>1
  <2> QED
    BY <2>1, <2>2, <2>3 DEF Filed
<1>2. id \in Filed \/ id \in Buffered \/ id \in NoLine
  BY DEF OnFile
<1>3. id \in Filed' \/ id \in Buffered' \/ id \in NoLine'
  BY <1>1, <1>2
<1> QED
  BY <1>3 DEF OnFile

LEMMA FileKept ==
  ASSUME UNCHANGED <<msgs, buffer, file, cut, unwritten, merged>>, NEW id, OnFile(id)
  PROVE  OnFile(id)'
<1>1. Ids' = Ids /\ \A i : FileOf(i)' = FileOf(i)
  BY DEF Ids, FileOf
<1>2. Filed' = Filed
  BY <1>1 DEF Filed
<1>3. Buffered' = Buffered /\ NoLine' = NoLine
  BY DEF Buffered, NoLine
<1> QED
  BY <1>2, <1>3 DEF OnFile

LEMMA OnIndexNow ==
  ASSUME NEW id, OnIndex(id), NEW m, m = MonthFor(id), m \notin half
  PROVE  \/ id \in IdsOf(table[m]) \/ id \in IdsOf(inserted[m])
         \/ id \in offered \/ id \in NoRow
BY DEF OnIndex

LEMMA OnIndexNext ==
  ASSUME NEW id, NEW m, MonthFor(id)' = m,
         \/ m \in half' \/ id \in IdsOf(table'[m]) \/ id \in IdsOf(inserted'[m])
         \/ id \in offered' \/ id \in NoRow'
  PROVE  OnIndex(id)'
BY DEF OnIndex, IdsOf

\* The row of a message stays where it is, or goes on.
LEMMA StillOnIndex ==
  ASSUME NEW id, OnIndex(id), NEW m, m = MonthFor(id), MonthFor(id)' = m,
         half \subseteq half',
         IdsOf(table[m]) \subseteq IdsOf(table'[m]),
         IdsOf(inserted[m]) \subseteq IdsOf(inserted'[m]),
         offered \subseteq offered',
         NoRow \subseteq NoRow'
  PROVE  OnIndex(id)'
<1>1. m \in half \/ id \in IdsOf(table[m]) \/ id \in IdsOf(inserted[m])
      \/ id \in offered \/ id \in NoRow
  BY OnIndexNow
<1> QED
  BY <1>1, OnIndexNext

LEMMA TakeAgrees ==
  ASSUME Placed, RecordsAgree, NEW d \in Devices, Take(d)
  PROVE  RecordsAgree'
<1>0. TypeOK
  BY DEF Placed
<1> PICK new : new = Len(msgs) + 1
  OBVIOUS
<1>1. /\ new \in Ids' /\ new \notin Ids
      /\ Ids' = Ids \cup {new}
      /\ \A id \in Ids : msgs'[id] = msgs[id]
      /\ buffer' = [buffer EXCEPT ![d] = Append(@, new)]
      /\ \/ offered' = offered \cup {new} /\ refused' = refused
         \/ offered' = offered /\ refused' = refused \cup {new}
      /\ UNCHANGED <<inserted, file, table, cut, unwritten, merged, skipped, unsaved,
                     unread, half>>
  BY <1>0, TakeNew
<1>2. NoLine' = NoLine /\ NoRow \subseteq NoRow' /\ offered \subseteq offered'
      /\ (new \in offered' \/ new \in NoRow')
  BY <1>1 DEF NoLine, NoRow
<1>3. DOMAIN buffer = Devices /\ \A e \in Devices : IsSequence(buffer[e])
  BY <1>0, TypedSequence DEF TypeOK
<1>4. /\ \A e \in Devices : ToSet(buffer[e]) \subseteq ToSet(buffer'[e])
      /\ new \in ToSet(buffer'[d])
  <2> PICK b, c : b = buffer[d] /\ c = buffer'[d]
    OBVIOUS
  <2>1. IsSequence(b) /\ c = Append(b, new)
    BY <1>1, <1>3
  <2>2. ToSet(c) = ToSet(b) \cup {new}
    BY <2>1, AppendSet
  <2>3. \A e \in Devices : e # d => ToSet(buffer'[e]) = ToSet(buffer[e])
    BY <1>1, <1>3
  <2> QED
    BY <2>2, <2>3
<1>5. /\ Buffered \subseteq UNION {ToSet(buffer'[e]) : e \in Devices}
      /\ new \in UNION {ToSet(buffer'[e]) : e \in Devices}
  BY <1>4 DEF Buffered
<1>6. Buffered \subseteq Buffered' /\ new \in Buffered'
  BY <1>5 DEF Buffered
<1>7. OnFile(new)' /\ OnIndex(new)'
  BY <1>2, <1>6 DEF OnFile, OnIndex
<1>8. ASSUME NEW id \in Ids
      PROVE  OnFile(id)' /\ OnIndex(id)'
  <2>1. OnFile(id) /\ OnIndex(id) /\ msgs'[id] = msgs[id]
    BY <1>1, Agreeing
  <2>2. FileOf(id)' = FileOf(id) /\ MonthFor(id)' = MonthFor(id)
    BY <2>1 DEF FileOf, MonthFor
  <2>3. OnFile(id)'
    BY <1>0, <1>1, <1>2, <1>6, <2>1, <2>2, StillOnFile
  <2> PICK m : m = MonthFor(id)
    OBVIOUS
  <2>4. OnIndex(id)'
    BY <1>1, <1>2, <2>1, <2>2, StillOnIndex
  <2> QED
    BY <2>3, <2>4
<1> QED
  BY <1>1, <1>7, <1>8, AgreeingAfter

\* A line that is written is in the file, or after what a failed write left.
LEMMA FlushAgrees ==
  ASSUME Placed, RecordsAgree, NEW d \in Devices, WriteLine(d) \/ WriteFails(d)
  PROVE  RecordsAgree'
<1>0. TypeOK /\ LinesInv /\ BufferInv /\ RaggedInv
  BY DEF Placed
<1> PICK h, w : h = Head(buffer[d]) /\ w = Line(h)
  OBVIOUS
<1> PICK g : g = FileOf(h)
  OBVIOUS
<1>1. /\ buffer[d] # <<>>
      /\ buffer' = [buffer EXCEPT ![d] = Tail(@)]
      /\ UNCHANGED <<msgs, offered, inserted, table, cut, refused, skipped, unsaved,
                     unread, half>>
  BY DEF WriteLine, WriteFails, rows_lost
<1>2. h \in Ids /\ w \in LineRecords /\ w.id = h /\ w.raw # NoText /\ w.whole
  BY <1>0, <1>1, HeadFacts, WholeLine
<1>3. /\ Ids' = Ids
      /\ \A id : FileOf(id)' = FileOf(id) /\ MonthFor(id)' = MonthFor(id)
  BY <1>1 DEF Ids, FileOf, MonthFor
<1>4. /\ \A e \in Devices : ToSet(buffer'[e]) \subseteq ToSet(buffer[e]) \ {h}
      /\ Buffered \subseteq Buffered' \cup {h}
  BY <1>0, <1>1, HeadLeaves
<1>5. /\ \A f \in Files : \A l \in ToSet(file[f]) : l \in ToSet(file'[f]) \/ l.id \in unwritten
      /\ unwritten \subseteq unwritten' /\ merged \subseteq merged'
      /\ h \in Filed' \/ h \in unwritten' \/ h \in merged'
  <2>1. ASSUME WriteLine(d)
        PROVE  /\ \A f \in Files : \A l \in ToSet(file[f]) :
                     l \in ToSet(file'[f]) \/ l.id \in unwritten
               /\ unwritten \subseteq unwritten' /\ merged \subseteq merged'
               /\ h \in Filed' \/ h \in unwritten' \/ h \in merged'
    <3>1. /\ made' = made \cup {g} /\ file' = Put(g, w)
          /\ merged' = IF tail[g] = "ragged" THEN merged \cup {h} ELSE merged
          /\ unwritten' = unwritten
      BY <2>1 DEF WriteLine
    <3>2. /\ \A f \in Files : \A l \in ToSet(file[f]) :
                l \in ToSet(file'[f]) \/ l.id \in unwritten
          /\ tail[g] # "ragged" => w \in ToSet(file'[g])
      BY <1>0, <1>1, <1>2, <1>4, <3>1, PutLine
    <3>3. w \in ToSet(file'[g]) => h \in Filed'
      <4>1. FileOf(h)' = g /\ h \in Ids'
        BY <1>2, <1>3
      <4>2. w \in ToSet(file'[g]) => \E x \in ToSet(file'[g]) : x.id = h /\ x.whole
        BY <1>2
      <4> QED
        BY <4>1, <4>2 DEF Filed
    <3> QED
      BY <3>1, <3>2, <3>3
  <2>2. ASSUME WriteFails(d)
        PROVE  /\ \A f \in Files : \A l \in ToSet(file[f]) :
                     l \in ToSet(file'[f]) \/ l.id \in unwritten
               /\ unwritten \subseteq unwritten' /\ merged \subseteq merged'
               /\ h \in Filed' \/ h \in unwritten' \/ h \in merged'
    <3>1. unwritten' = unwritten \cup {h} /\ merged' = merged
      BY <2>2 DEF WriteFails
    <3>2. file' = file \/ \E k \in CutAt : file' = Put(g, Torn(w, k)) /\ made' = made \cup {g}
      BY <2>2 DEF WriteFails
    <3>3. ASSUME NEW k \in CutAt, file' = Put(g, Torn(w, k)), made' = made \cup {g}
          PROVE  \A f \in Files : \A l \in ToSet(file[f]) :
                     l \in ToSet(file'[f]) \/ l.id \in unwritten
      <4> PICK l : l = Torn(w, k)
        OBVIOUS
      <4>1. l \in LineRecords /\ l.id = h /\ (l.whole => l.raw # NoText) /\ file' = Put(g, l)
        BY <1>2, <3>3, TornLine
      <4> QED
        BY <1>0, <1>1, <1>4, <3>3, <4>1, PutLine
    <3>4. CASE file' = file
      BY <3>1, <3>4
    <3> QED
      BY <3>1, <3>2, <3>3, <3>4
  <2> QED
    BY <2>1, <2>2
<1>6. /\ NoLine \subseteq NoLine' /\ (h \in Filed' \/ h \in NoLine')
      /\ unwritten \subseteq NoLine' /\ NoRow' = NoRow
  BY <1>1, <1>5 DEF NoLine, NoRow
<1>7. ASSUME NEW id \in Ids
      PROVE  OnFile(id)' /\ OnIndex(id)'
  <2>1. OnFile(id) /\ OnIndex(id)
    BY Agreeing
  <2>2. \A x \in Buffered : x \in Buffered' \/ x \in Filed' \/ x \in NoLine'
    BY <1>4, <1>6
  <2>3. \A f \in Files : \A l \in ToSet(file[f]) : l \in ToSet(file'[f]) \/ l.id \in NoLine'
    BY <1>5, <1>6
  <2>4. OnFile(id)'
    BY <1>0, <1>3, <1>6, <2>1, <2>2, <2>3, StillOnFile
  <2> PICK m : m = MonthFor(id)
    OBVIOUS
  <2>5. OnIndex(id)'
    BY <1>1, <1>3, <1>6, <2>1, StillOnIndex
  <2> QED
    BY <2>4, <2>5
<1> QED
  BY <1>3, <1>7, AgreeingAfter

LEMMA InsertAgrees ==
  ASSUME Placed, RecordsAgree, NEW i \in offered, _insert_batch(i)
  PROVE  RecordsAgree'
<1> PICK m, r : m = MonthFor(i) /\ r = LiveRow(i)
  OBVIOUS
<1>0. TypeOK /\ RowTypes
  BY TypesApart DEF Placed
<1>1. /\ offered' = offered \ {i}
      /\ UNCHANGED <<msgs, buffer, file, table, cut, unwritten, merged, refused,
                     unsaved, unread, half>>
      /\ \/ inserted' = [inserted EXCEPT ![m] = Append(@, r)] /\ skipped' = skipped
         \/ inserted' = inserted /\ skipped' = skipped \cup {i}
         \/ /\ inserted' = [inserted EXCEPT ![m] = <<>>]
            /\ skipped' = skipped \cup {i} \cup IdsOf(inserted[m])
  BY DEF _insert_batch, written, lines_lost
<1>2. i \in Ids /\ m \in Months /\ r.id = i
  BY <1>0, TakenFacts DEF TypeOK, LiveRow, Row
<1>3. IsSequence(inserted[m]) /\ DOMAIN inserted = Months
  BY <1>0, <1>2 DEF RowTypes, RowsOfMonths
<1>4. Ids' = Ids /\ \A id : MonthFor(id)' = MonthFor(id)
  BY <1>1 DEF Ids, MonthFor
<1>5. NoRow \subseteq NoRow' /\ skipped' \subseteq NoRow'
  BY <1>1 DEF NoRow
<1>6. /\ \A n \in Months : \A id \in IdsOf(inserted[n]) :
            id \in IdsOf(inserted'[n]) \/ id \in NoRow'
      /\ i \in IdsOf(inserted'[m]) \/ i \in NoRow'
  <2>1. CASE inserted' = [inserted EXCEPT ![m] = Append(@, r)]
    <3> PICK s, t : s = inserted[m] /\ t = inserted'[m]
      OBVIOUS
    <3>1. IsSequence(s) /\ t = Append(s, r)
      BY <1>2, <1>3, <2>1
    <3>2. IdsOf(t) = IdsOf(s) \cup {i}
      BY <1>2, <3>1, IdsOfRows
    <3>3. \A n \in Months : n # m => inserted'[n] = inserted[n]
      BY <1>3, <2>1
    <3> QED
      BY <3>2, <3>3
  <2>2. CASE inserted' = inserted /\ skipped' = skipped \cup {i}
    BY <1>5, <2>2
  <2>3. CASE /\ inserted' = [inserted EXCEPT ![m] = <<>>]
             /\ skipped' = skipped \cup {i} \cup IdsOf(inserted[m])
    <3>1. \A n \in Months : n # m => inserted'[n] = inserted[n]
      BY <1>3, <2>3
    <3> QED
      BY <1>5, <2>3, <3>1
  <2> QED
    BY <1>1, <2>1, <2>2, <2>3
<1>7. ASSUME NEW id \in Ids
      PROVE  OnFile(id)' /\ OnIndex(id)'
  <2>1. OnFile(id) /\ OnIndex(id)
    BY Agreeing
  <2>2. OnFile(id)'
    BY <1>1, <2>1, FileKept
  <2> PICK n : n = MonthFor(id)
    OBVIOUS
  <2>3. n \in Months /\ MonthFor(id)' = n
    BY <1>0, <1>4, TakenFacts
  <2>4. n \in half \/ id \in IdsOf(table[n]) \/ id \in IdsOf(inserted[n])
        \/ id \in offered \/ id \in NoRow
    BY <2>1, OnIndexNow
  <2>5. id \in offered => id \in offered' \/ id = i
    BY <1>1
  <2>6. id = i => id \in IdsOf(inserted'[n]) \/ id \in NoRow'
    BY <1>6
  <2>7. n \in half' \/ id \in IdsOf(table'[n]) \/ id \in IdsOf(inserted'[n])
        \/ id \in offered' \/ id \in NoRow'
    BY <1>1, <1>5, <1>6, <2>3, <2>4, <2>5, <2>6
  <2>8. OnIndex(id)'
    BY <2>3, <2>7, OnIndexNext
  <2> QED
    BY <2>2, <2>8
<1> QED
  BY <1>4, <1>7, AgreeingAfter

LEMMA CommitAgrees ==
  ASSUME Placed, RecordsAgree, NEW m \in Months, Commit(m)
  PROVE  RecordsAgree'
<1>0. TypeOK /\ RowTypes
  BY TypesApart DEF Placed
<1>1. /\ inserted' = [inserted EXCEPT ![m] = <<>>]
      /\ UNCHANGED <<msgs, buffer, offered, file, cut, unwritten, merged, refused,
                     unsaved, unread, half>>
      /\ \/ table' = [table EXCEPT ![m] = @ \o inserted[m]] /\ skipped' = skipped
         \/ table' = table /\ skipped' = skipped \cup IdsOf(inserted[m])
  BY DEF Commit, written, lines_lost
<1>2. Ids' = Ids /\ \A id : MonthFor(id)' = MonthFor(id)
  BY <1>1 DEF Ids, MonthFor
<1>3. /\ IsSequence(inserted[m]) /\ DOMAIN inserted = Months
      /\ IsSequence(table[m]) /\ DOMAIN table = Months
  BY <1>0 DEF RowTypes, RowsOfMonths
<1>4. NoRow \subseteq NoRow' /\ skipped' \subseteq NoRow'
  BY <1>1 DEF NoRow
<1>5. /\ \A n \in Months : IdsOf(table[n]) \subseteq IdsOf(table'[n])
      /\ \A id \in IdsOf(inserted[m]) : id \in IdsOf(table'[m]) \/ id \in NoRow'
  <2>1. CASE table' = [table EXCEPT ![m] = @ \o inserted[m]]
    <3> PICK s, t, u : s = table[m] /\ t = inserted[m] /\ u = table'[m]
      OBVIOUS
    <3>1. IsSequence(s) /\ IsSequence(t) /\ u = s \o t
      BY <1>3, <2>1
    <3>2. IdsOf(u) = IdsOf(s) \cup IdsOf(t)
      BY <3>1, IdsOfRows
    <3>3. \A n \in Months : n # m => table'[n] = table[n]
      BY <1>3, <2>1
    <3> QED
      BY <3>2, <3>3
  <2>2. CASE table' = table /\ skipped' = skipped \cup IdsOf(inserted[m])
    BY <1>4, <2>2
  <2> QED
    BY <1>1, <2>1, <2>2
<1>6. \A n \in Months : n # m => inserted'[n] = inserted[n]
  BY <1>1, <1>3
<1>7. ASSUME NEW id \in Ids
      PROVE  OnFile(id)' /\ OnIndex(id)'
  <2>1. OnFile(id) /\ OnIndex(id)
    BY Agreeing
  <2>2. OnFile(id)'
    BY <1>1, <2>1, FileKept
  <2> PICK n : n = MonthFor(id)
    OBVIOUS
  <2>3. n \in Months /\ MonthFor(id)' = n
    BY <1>0, <1>2, TakenFacts
  <2>4. n \in half \/ id \in IdsOf(table[n]) \/ id \in IdsOf(inserted[n])
        \/ id \in offered \/ id \in NoRow
    BY <2>1, OnIndexNow
  <2>5. id \in IdsOf(inserted[n]) =>
            id \in IdsOf(inserted'[n]) \/ id \in IdsOf(table'[n]) \/ id \in NoRow'
    BY <1>5, <1>6, <2>3
  <2>6. n \in half' \/ id \in IdsOf(table'[n]) \/ id \in IdsOf(inserted'[n])
        \/ id \in offered' \/ id \in NoRow'
    BY <1>1, <1>4, <1>5, <2>3, <2>4, <2>5
  <2>7. OnIndex(id)'
    BY <2>3, <2>6, OnIndexNext
  <2> QED
    BY <2>2, <2>7
<1> QED
  BY <1>2, <1>7, AgreeingAfter

LEMMA EndsAgrees ==
  ASSUME Placed, RecordsAgree, Ends
  PROVE  RecordsAgree'
<1>0. TypeOK /\ LinesInv /\ BufferInv /\ RaggedInv
  BY DEF Placed
<1>1. /\ cut' = cut \cup Buffered
      /\ unsaved' = unsaved \cup offered \cup Inserted
      /\ UNCHANGED <<msgs, table, unwritten, merged, refused, skipped, unread, half>>
      /\ Gone
  BY DEF Ends
<1>2. \A d \in Devices : ToSet(buffer'[d]) = {}
  BY <1>1, NothingInMemory
<1>3. /\ Ids' = Ids
      /\ \A id : FileOf(id)' = FileOf(id) /\ MonthFor(id)' = MonthFor(id)
  BY <1>1 DEF Ids, FileOf, MonthFor
<1>4. /\ NoLine \subseteq NoLine' /\ Buffered \subseteq NoLine'
      /\ unwritten \subseteq NoLine' /\ NoRow \subseteq NoRow'
      /\ offered \subseteq NoRow' /\ Inserted \subseteq NoRow'
  BY <1>1 DEF NoLine, NoRow
<1>5. \A f \in Files : \A l \in ToSet(file[f]) : l \in ToSet(file'[f]) \/ l.id \in unwritten
  <2>1. ASSUME NEW d \in Devices, NEW k \in CutAt, buffer[d] # <<>>,
               made' = made \cup {FileOf(Head(buffer[d]))},
               file' = Put(FileOf(Head(buffer[d])), Torn(Line(Head(buffer[d])), k))
        PROVE  \A f \in Files : \A l \in ToSet(file[f]) :
                   l \in ToSet(file'[f]) \/ l.id \in unwritten
    <3> PICK id, g : id = Head(buffer[d]) /\ g = FileOf(id)
      OBVIOUS
    <3> PICK w, l : w = Line(id) /\ l = Torn(w, k)
      OBVIOUS
    <3>1. id \in Ids
      BY <1>0, <2>1, HeadFacts
    <3>2. w \in LineRecords /\ w.id = id
      BY <1>0, <3>1, WholeLine
    <3>3. l \in LineRecords /\ l.id = id /\ (l.whole => l.raw # NoText)
      BY <3>2, TornLine
    <3>4. /\ file' = Put(g, l) /\ l.id = Head(buffer[d]) /\ g = FileOf(l.id)
          /\ made' = made \cup {g} /\ msgs' = msgs
          /\ \A e \in Devices : ToSet(buffer'[e]) \subseteq ToSet(buffer[e]) \ {l.id}
      BY <1>1, <1>2, <2>1, <3>3
    <3> QED
      BY <1>0, <2>1, <3>3, <3>4, PutLine
  <2>2. CASE file' = file
    BY <2>2
  <2> QED
    BY <2>1, <2>2 DEF Ends
<1>6. ASSUME NEW id \in Ids
      PROVE  OnFile(id)' /\ OnIndex(id)'
  <2>1. OnFile(id) /\ OnIndex(id)
    BY Agreeing
  <2>2. \A f \in Files : \A l \in ToSet(file[f]) : l \in ToSet(file'[f]) \/ l.id \in NoLine'
    BY <1>4, <1>5
  <2>3. OnFile(id)'
    BY <1>0, <1>3, <1>4, <2>1, <2>2, StillOnFile
  <2> PICK n : n = MonthFor(id)
    OBVIOUS
  <2>4. n \in Months /\ MonthFor(id)' = n
    BY <1>0, <1>3, TakenFacts
  <2>5. id \in IdsOf(inserted[n]) => id \in Inserted
    BY <2>4 DEF Inserted
  <2>6. n \in half \/ id \in IdsOf(table[n]) \/ id \in IdsOf(inserted[n])
        \/ id \in offered \/ id \in NoRow
    BY <2>1, OnIndexNow
  <2>7. n \in half' \/ id \in IdsOf(table'[n]) \/ id \in NoRow'
    BY <1>1, <1>4, <2>5, <2>6
  <2>8. OnIndex(id)'
    BY <2>4, <2>7, OnIndexNext
  <2> QED
    BY <2>3, <2>8
<1> QED
  BY <1>3, <1>6, AgreeingAfter

\* What a power loss takes it is known to have taken.
LEMMA PowerLossAgrees ==
  ASSUME Placed, RecordsAgree, PowerLoss
  PROVE  RecordsAgree'
<1>0. TypeOK
  BY DEF Placed
<1>1. /\ UNCHANGED <<msgs, unwritten, merged, refused, skipped, unread, half>>
      /\ cut' = cut \cup Buffered
               \cup UNION {{l.id : l \in ToSet(file[f]) \ ToSet(file'[f])} : f \in Files}
      /\ unsaved' = unsaved \cup offered \cup Inserted
               \cup UNION {IdsOf(table[m]) \ IdsOf(table'[m]) : m \in Months}
  BY DEF PowerLoss
<1>2. /\ Ids' = Ids
      /\ \A id : FileOf(id)' = FileOf(id) /\ MonthFor(id)' = MonthFor(id)
  BY <1>1 DEF Ids, FileOf, MonthFor
<1>3. NoLine \subseteq NoLine' /\ Buffered \subseteq NoLine' /\ cut' \subseteq NoLine'
      /\ NoRow \subseteq NoRow' /\ unsaved' \subseteq NoRow'
      /\ offered \subseteq NoRow' /\ Inserted \subseteq NoRow'
  BY <1>1 DEF NoLine, NoRow
<1>4. ASSUME NEW f \in Files, NEW l \in ToSet(file[f])
      PROVE  l \in ToSet(file'[f]) \/ l.id \in cut'
  BY <1>1
<1>5. ASSUME NEW n \in Months, NEW id \in IdsOf(table[n])
      PROVE  id \in IdsOf(table'[n]) \/ id \in unsaved'
  BY <1>1
<1>6. ASSUME NEW id \in Ids
      PROVE  OnFile(id)' /\ OnIndex(id)'
  <2>1. OnFile(id) /\ OnIndex(id)
    BY Agreeing
  <2>2. \A f \in Files : \A l \in ToSet(file[f]) : l \in ToSet(file'[f]) \/ l.id \in NoLine'
    BY <1>3, <1>4
  <2>3. OnFile(id)'
    BY <1>0, <1>2, <1>3, <2>1, <2>2, StillOnFile
  <2> PICK n : n = MonthFor(id)
    OBVIOUS
  <2>4. n \in Months /\ MonthFor(id)' = n
    BY <1>0, <1>2, TakenFacts
  <2>5. id \in IdsOf(inserted[n]) => id \in Inserted
    BY <2>4 DEF Inserted
  <2>6. n \in half \/ id \in IdsOf(table[n]) \/ id \in IdsOf(inserted[n])
        \/ id \in offered \/ id \in NoRow
    BY <2>1, OnIndexNow
  <2>7. n \in half' \/ id \in IdsOf(table'[n]) \/ id \in NoRow'
    BY <1>1, <1>3, <1>5, <2>4, <2>5, <2>6
  <2>8. OnIndex(id)'
    BY <2>4, <2>7, OnIndexNext
  <2> QED
    BY <2>3, <2>8
<1> QED
  BY <1>2, <1>6, AgreeingAfter

\* A rebuild takes rows only of the months it was asked for; when it returns,
\* each of their lines with a text has its row again.
LEMMA CommandAgrees ==
  ASSUME Placed, RebuildInv, RecordsAgree,
         \/ Restart \/ RebuildStarts \/ RebuildReturns \/ RebuildKilled
         \/ \E f \in Files : OpenMonth(f) \/ _rebuild_file(f) \/ CommitFile(f)
         \/ UNCHANGED vars
  PROVE  RecordsAgree'
<1>0. TypeOK /\ LinesInv /\ RowTypes
  BY TypesApart DEF Placed
<1>1. /\ UNCHANGED <<msgs, buffer, offered, inserted, made, file, cut, unwritten, merged>>
      /\ Ids' = Ids
      /\ \A id : MonthFor(id)' = MonthFor(id)
  BY CommandPlaced
<1>2. \A id \in Ids : OnFile(id) /\ OnIndex(id) /\ MonthFor(id) \in Months
  BY <1>0, Agreeing, TakenFacts
<1>3. \A id \in Ids : OnFile(id)'
  BY <1>1, <1>2, FileKept
<1>4. SUFFICES ASSUME NEW id \in Ids, NEW m, m = MonthFor(id)
               PROVE  OnIndex(id)'
  BY <1>1, <1>3, AgreeingAfter
<1>5. m \in Months /\ MonthFor(id)' = m /\ OnIndex(id)
  BY <1>1, <1>2, <1>4
<1>6. m \in half \/ id \in IdsOf(table[m]) \/ id \in IdsOf(inserted[m])
      \/ id \in offered \/ id \in NoRow
  BY <1>4, <1>5, OnIndexNow
<1>7. CASE Restart \/ RebuildStarts \/ RebuildKilled \/ UNCHANGED vars
  <2>1. UNCHANGED <<table, half, refused, skipped, unsaved, unread>>
    BY <1>7 DEF Restart, RebuildStarts, RebuildKilled, vars, rows_lost
  <2>2. NoRow' = NoRow
    BY <2>1 DEF NoRow
  <2> QED
    BY <1>1, <1>4, <1>5, <2>1, <2>2, StillOnIndex
<1>8. ASSUME NEW f \in Files, OpenMonth(f)
      PROVE  OnIndex(id)'
  <2> PICK m0 : m0 = MonthOf[f[2]]
    OBVIOUS
  <2>1. /\ stage = "rebuild" /\ f \in todo
        /\ half' = half \cup ({m0} \cap months)
        /\ table' = [table EXCEPT ![m0] = <<>>]
    BY <1>8 DEF OpenMonth, Emptied, NextFile
  <2>2. m0 \in half'
    BY <2>1 DEF RebuildInv, ScopeInv, Asked
  <2>3. CASE m = m0
    BY <1>5, <2>2, <2>3, OnIndexNext
  <2>4. CASE m # m0
    <3>1. table'[m] = table[m]
      BY <1>0, <1>5, <2>1, <2>4 DEF RowTypes, RowsOfMonths
    <3>2. \A lost : id \in lost =>
              id \in lost \cap {i \in DOMAIN msgs : MonthFor(i) # m0}
      BY <1>4, <2>4 DEF Ids
    <3>3. /\ refused' = refused \cap {i \in DOMAIN msgs : MonthFor(i) # m0}
          /\ skipped' = skipped \cap {i \in DOMAIN msgs : MonthFor(i) # m0}
          /\ unsaved' = unsaved \cap {i \in DOMAIN msgs : MonthFor(i) # m0}
          /\ unread \cap {i \in DOMAIN msgs : MonthFor(i) # m0} \subseteq unread'
      BY <1>8 DEF OpenMonth
    <3>4. id \in NoRow => id \in NoRow'
      BY <3>2, <3>3 DEF NoRow
    <3>5. m \in half' \/ id \in IdsOf(table'[m]) \/ id \in IdsOf(inserted'[m])
          \/ id \in offered' \/ id \in NoRow'
      BY <1>1, <1>6, <2>1, <3>1, <3>4
    <3> QED
      BY <1>5, <3>5, OnIndexNext
  <2> QED
    BY <2>3, <2>4
<1>9. ASSUME NEW f \in Files, _rebuild_file(f)
      PROVE  OnIndex(id)'
  <2>1. UNCHANGED <<table, half, refused, unsaved, unread>> /\ skipped \subseteq skipped'
    BY <1>9 DEF _rebuild_file
  <2>2. NoRow \subseteq NoRow'
    BY <2>1 DEF NoRow
  <2> QED
    BY <1>1, <1>4, <1>5, <2>1, <2>2, StillOnIndex
<1>10. ASSUME NEW f \in Files, CommitFile(f)
       PROVE  OnIndex(id)'
  <2> PICK m0 : m0 = MonthOf[f[2]]
    OBVIOUS
  <2>1. /\ table' = [table EXCEPT ![m0] = @ \o tx]
        /\ UNCHANGED <<half, refused, skipped, unsaved, unread>>
    BY <1>10 DEF CommitFile, rows_lost
  <2>2. /\ m0 \in Months /\ DOMAIN table = Months
        /\ IsSequence(table[m0]) /\ IsSequence(tx)
    BY <1>0, FileIsFile DEF RowTypes, RowsOfMonths
  <2>3. IdsOf(table[m]) \subseteq IdsOf(table'[m])
    <3> PICK s, t : s = table[m0] /\ t = table'[m0]
      OBVIOUS
    <3>1. IsSequence(s) /\ t = s \o tx
      BY <2>1, <2>2
    <3>2. IdsOf(s) \subseteq IdsOf(t)
      BY <2>2, <3>1, IdsOfRows
    <3>3. m # m0 => table'[m] = table[m]
      BY <1>5, <2>1, <2>2
    <3> QED
      BY <3>2, <3>3
  <2>4. NoRow' = NoRow
    BY <2>1 DEF NoRow
  <2> QED
    BY <1>1, <1>4, <1>5, <2>1, <2>3, <2>4, StillOnIndex
<1>11. CASE RebuildReturns
  <2>1. /\ stage = "rebuild" /\ todo = {} /\ half' = half \ opened
        /\ UNCHANGED <<table, refused, skipped, unsaved, unread>>
    BY <1>11 DEF RebuildReturns, rows_lost
  <2>2. NoRow' = NoRow
    BY <2>1 DEF NoRow
  <2>3. CASE m \notin opened
    <3>1. m \in half' \/ id \in IdsOf(table'[m]) \/ id \in IdsOf(inserted'[m])
          \/ id \in offered' \/ id \in NoRow'
      BY <1>1, <1>6, <2>1, <2>2, <2>3
    <3> QED
      BY <1>5, <3>1, OnIndexNext
  <2>4. ASSUME m \in opened, id \in Readable
        PROVE  id \in IdsOf(table[m]) \/ id \in skipped
    <3> PICK f : f = FileOf(id)
      OBVIOUS
    <3>1. f \in Files /\ MonthOf[f[2]] = m
      BY <1>0, <1>4, TakenFacts
    <3>2. PICK l \in ToSet(file[f]) : l.id = id /\ l.raw # NoText
      BY <2>4 DEF Readable
    <3>3. file[f] # <<>>
      BY <3>2, EmptySequence
    <3>4. f \in Asked({m})
      BY <1>0, <3>1, <3>3 DEF LinesInv, Asked
    <3>5. l \in LinesRead(m)
      BY <2>1, <3>2, <3>4 DEF LinesRead
    <3>6. RowsAre(table[m], LinesRead(m), skipped, msgs)
      BY <2>1, <2>4 DEF RebuildInv, CommittedInv
    <3>7. id \notin skipped => RowOf(l, msgs) \in ToSet(table[m])
      BY <3>2, <3>5, <3>6 DEF RowsAre, ReadIn
    <3>8. RowOf(l, msgs).id = id
      BY <3>2 DEF RowOf, Row
    <3> QED
      BY <3>7, <3>8 DEF IdsOf
  <2>5. ASSUME m \in opened, id \notin Readable
        PROVE  id \in unread
    BY <1>4, <2>1, <2>5 DEF RebuildInv, UnreadInv
  <2>6. CASE m \in opened
    <3>1. id \in IdsOf(table'[m]) \/ id \in NoRow'
      BY <2>1, <2>2, <2>4, <2>5, <2>6 DEF NoRow
    <3> QED
      BY <1>5, <3>1, OnIndexNext
  <2> QED
    BY <2>3, <2>6
<1> QED
  BY <1>7, <1>8, <1>9, <1>10, <1>11

-----------------------------------------------------------------------------
(***************************************************************************)
(* The theorems.                                                           *)
(***************************************************************************)

IInv == Placed /\ RebuildInv /\ RecordsAgree

LEMMA Initially == Init => IInv
<1> SUFFICES ASSUME Init PROVE IInv
  OBVIOUS
<1>1. Placed /\ RebuildInv
  BY InitTyped, InitRebuild
<1>2. RecordsAgree
  BY DEF Init, RecordsAgree, Ids
<1> QED
  BY <1>1, <1>2 DEF IInv

LEMMA Always == IInv /\ [Next]_vars => IInv'
<1> SUFFICES ASSUME IInv, [Next]_vars PROVE IInv'
  OBVIOUS
<1>0. Placed /\ RebuildInv /\ RecordsAgree
  BY DEF IInv
<1>1. ASSUME NEW d \in Devices, Take(d)
      PROVE  IInv'
  <2>1. stage = "live" /\ stage' = "live" /\ UNCHANGED <<command, restored>>
    BY <1>1 DEF Take
  <2> QED
    BY <1>0, <1>1, <2>1, TakePlaced, ReceiverRebuild, TakeAgrees DEF IInv
<1>2. ASSUME NEW d \in Devices, WriteLine(d) \/ WriteFails(d)
      PROVE  IInv'
  <2>1. stage = "live" /\ stage' = "live" /\ UNCHANGED <<command, restored>>
    BY <1>2 DEF WriteLine, WriteFails
  <2> QED
    BY <1>0, <1>2, <2>1, FlushPlaced, ReceiverRebuild, FlushAgrees DEF IInv
<1>3. ASSUME NEW id \in offered, _insert_batch(id)
      PROVE  IInv'
  <2>1. stage = "live" /\ stage' = "live" /\ UNCHANGED <<command, restored>>
    BY <1>3 DEF _insert_batch
  <2> QED
    BY <1>0, <1>3, <2>1, InsertPlaced, ReceiverRebuild, InsertAgrees DEF IInv
<1>4. ASSUME NEW m \in Months, Commit(m)
      PROVE  IInv'
  <2>1. stage = "live" /\ stage' = "live" /\ UNCHANGED <<command, restored>>
    BY <1>4 DEF Commit
  <2> QED
    BY <1>0, <1>4, <2>1, CommitPlaced, ReceiverRebuild, CommitAgrees DEF IInv
<1>5. CASE Ends
  <2>1. stage = "live" /\ stage' = "down" /\ UNCHANGED <<command, restored>>
    BY <1>5 DEF Ends, Gone
  <2> QED
    BY <1>0, <1>5, <2>1, EndsPlaced, ReceiverRebuild, EndsAgrees DEF IInv
<1>6. CASE PowerLoss
  BY <1>0, <1>6, PowerLossPlaced, PowerLossRebuild, PowerLossAgrees DEF IInv
<1>7. CASE Restart \/ RebuildStarts \/ RebuildReturns \/ RebuildKilled \/ UNCHANGED vars
  BY <1>0, <1>7, CommandPlaced, StartRebuild, CommandAgrees DEF IInv
<1>8. ASSUME NEW f \in Files, OpenMonth(f) \/ _rebuild_file(f) \/ CommitFile(f)
      PROVE  IInv'
  <2>1. Placed' /\ RecordsAgree'
    BY <1>0, <1>8, CommandPlaced, CommandAgrees
  <2>2. RebuildInv'
    BY <1>0, <1>8, OpenRebuild, LineRebuild, CommitRebuild
  <2> QED
    BY <2>1, <2>2 DEF IInv
<1> QED
  BY <1>1, <1>2, <1>3, <1>4, <1>5, <1>6, <1>7, <1>8 DEF Next

\* A rebuilt month is its files: what RowsAre says of the lines of the month.
LEMMA RestoredIsTheFiles == IInv => RebuiltIsTheFiles
<1> SUFFICES ASSUME IInv, NEW m \in restored
             PROVE  LET lines == {l \in LinesOf(m) : l.raw # NoText /\ l.id \notin skipped}
                    IN /\ ToSet(table[m]) =
                            {Row(l.id, Directory(FileOf(l.id)), _parse_syslog(l.raw)) :
                                 l \in lines}
                       /\ Len(table[m]) = Cardinality(lines)
  BY DEF RebuiltIsTheFiles
<1>1. RowsAre(table[m], LinesOf(m), skipped, msgs)
  BY DEF IInv, RebuildInv, RestoredInv
<1>2. \A l : Row(l.id, Directory(FileOf(l.id)), _parse_syslog(l.raw)) = RowOf(l, msgs)
  BY DEF Directory, FileOf, RowOf
<1> QED
  BY <1>1, <1>2 DEF RowsAre, ReadIn

\* Everything the two records, the receiver and the command are made of is of
\* its type, through every failure, crash, power loss and rebuild: every id on
\* the way, in a record or known to be lost is a message's, a file has lines
\* and a table rows.
THEOREM Typing == Spec => []TypeOK
<1>1. IInv => TypeOK
  BY DEF IInv, Placed
<1> QED
  BY <1>1, Initially, Always, PTL DEF Spec

\* No message is missing from its day file or from the index but for a reason
\* that is known, for any receiver whose queue fills and whose writes, INSERTs
\* and COMMITs fail (_flush() in device_writer.py, enqueue() and
\* _insert_batch() in indexer/core.py), which is killed or loses power with
\* lines and committed rows not on the disk yet, and any rebuild_indexer()
\* that is started, killed or returns.  The reasons are the ghosts cut,
\* unwritten and merged for lines, refused, skipped, unsaved and unread for
\* rows; making a month anew clears them for its messages, so that afterwards,
\* until the receiver runs again or power is lost, only skipped and unread are
\* left for its rows.  Nothing is said of the rows of a month that a rebuild
\* has begun to make anew and not finished.
THEOREM Agreement == Spec => []RecordsAgree
<1>1. IInv => RecordsAgree
  BY DEF IInv
<1> QED
  BY <1>1, Initially, Always, PTL DEF Spec

\* When rebuild_indexer() has returned, the index of each month it was given
\* has one row for each line that has a separator and whose INSERT worked,
\* with the name of the line's directory for the source_ip, and no other,
\* until the receiver runs again or power is lost.
THEOREM Rebuilt == Spec => []RebuiltIsTheFiles
BY Initially, Always, RestoredIsTheFiles, PTL DEF Spec
=============================================================================
