--------------------------- MODULE RetentionProofs ---------------------------
(***************************************************************************)
(* What a pass of the retention manager may delete, for every calendar,    *)
(* every choice of retention_days and every number of devices.             *)
(*                                                                         *)
(* The invariant is TypeOK of Retention: besides the types it says that    *)
(* the months a pass still has before it ended before its cutoff, counted  *)
(* from a today that is at most a day ahead of the UTC date.  The clock    *)
(* only moves on, so what was expired when the pass began stays expired.   *)
(***************************************************************************)
EXTENDS Retention, TLAPS

\* The months of a date are months.
LEMMA MonthsOfDates == \A d \in Dates : MonthOf[d] \in Months
  BY DEF Months

\* Whatever NextMonth() takes up next has expired, if all of ms has.
LEMMA NextMonthTyping ==
  ASSUME NEW ms, NEW t, NEW k,
         t \in Dates, k \in DayChoices, swept \in Int,
         ms \subseteq Months, t <= now + 1,
         \A m \in ms : MonthEnd[m] < t - k,
         NextMonth(ms, t, k)
  PROVE  /\ phase' \in {"idle", "index", "raw"}
         /\ today' \in Dates
         /\ keep' \in DayChoices \cup {0}
         /\ todo' \subseteq Months
         /\ swept' \in Int
         /\ phase' # "idle" =>
               /\ keep' \in DayChoices
               /\ today' <= now + 1
               /\ \A m \in todo' \cup {cur'} :
                     m \in Months /\ MonthEnd[m] < today' - keep'
<1>1. CASE ms = {}
  <2>1. Idle /\ swept' = t - k
    BY <1>1 DEF NextMonth
  <2>2. t \in Int /\ k \in Int
    BY RetentionAssumption DEF RetentionAssumption, Dates
  <2>3. 0 \in Dates
    BY RetentionAssumption DEF RetentionAssumption, Dates
  <2> QED
    BY <2>1, <2>2, <2>3 DEF Idle
<1>2. CASE ms # {}
  BY <1>2 DEF NextMonth
<1> QED
  BY <1>1, <1>2

\* Every variable keeps its type, and a pass only has expired months before
\* it: the list of _expired_month_keys stays right while the pass lasts.
THEOREM Typing == Spec => []TypeOK
<1>1. Init => TypeOK
  <2> SUFFICES ASSUME Init PROVE TypeOK
    OBVIOUS
  <2>1. 1 \in 1..MaxDay /\ 0 \in Dates /\ 0 \in 0..MaxFailures
    BY RetentionAssumption DEF RetentionAssumption, Dates
  <2> QED
    BY <2>1 DEF Init, TypeOK
<1>2. TypeOK /\ [Next]_vars => TypeOK'
  <2> SUFFICES ASSUME TypeOK, [Next]_vars PROVE TypeOK'
    OBVIOUS
  <2> USE DEF TypeOK
  <2>1. CASE Midnight
    <3>1. now' \in 1..MaxDay /\ now' = now + 1
      BY <2>1, RetentionAssumption DEF Midnight, RetentionAssumption
    <3>2. today <= now + 1 => today <= now' + 1
      BY <3>1, RetentionAssumption DEF Dates, RetentionAssumption
    <3> QED
      BY <2>1, <3>1, <3>2 DEF Midnight, store, pass
  <2>2. CASE SetDays
    BY <2>2 DEF SetDays, store, pass
  <2>3. CASE Record
    <3>1. PICK dev \in Devices, d \in {now, now - 1} \cap (Dates \ {0}) :
             /\ raw' = raw \cup {<<dev, d>>}
             /\ \/ index' = [index EXCEPT ![MonthOf[d]] = Files]
                \/ IndexMisses /\ UNCHANGED index
      BY <2>3 DEF Record
    <3>2. MonthOf[d] \in Months
      BY MonthsOfDates
    <3>3. index' \in [Months -> SUBSET Files]
      BY <3>1, <3>2
    <3>4. raw' \subseteq Devices \X Dates
      BY <3>1
    <3> QED
      BY <2>3, <3>3, <3>4 DEF Record, setting, pass
  <2>4. CASE BeginPass
    <3>1. PICK s \in Skews : NextMonth(Expired(now + s, days), now + s, days)
      BY <2>4 DEF BeginPass
    <3>2. now + s \in Dates /\ now + s <= now + 1
      BY RetentionAssumption DEF RetentionAssumption, Dates
    <3>3. /\ Expired(now + s, days) \subseteq Months
          /\ \A m \in Expired(now + s, days) : MonthEnd[m] < (now + s) - days
      BY DEF Expired
    <3> QED
      BY <2>4, <3>1, <3>2, <3>3, NextMonthTyping DEF BeginPass, setting, store
  <2>5. CASE UnlinkIndex
    <3>1. index' \in [Months -> SUBSET Files]
      BY <2>5 DEF UnlinkIndex
    <3> QED
      BY <2>5, <3>1 DEF UnlinkIndex, setting, pass
  <2>6. CASE IndexDone
    BY <2>6 DEF IndexDone, setting, store
  <2>7. CASE UnlinkRaw
    BY <2>7 DEF UnlinkRaw, setting, pass
  <2>8. CASE MonthDone
    <3>1. /\ keep \in DayChoices
          /\ today <= now + 1
          /\ \A m \in todo : m \in Months /\ MonthEnd[m] < today - keep
      BY <2>8 DEF MonthDone
    <3> QED
      BY <2>8, <3>1, NextMonthTyping DEF MonthDone, setting, store
  <2>9. CASE PassFails
    <3>1. failures' \in 0..MaxFailures
      BY <2>9, RetentionAssumption DEF PassFails, RetentionAssumption
    <3>2. 0 \in Dates
      BY RetentionAssumption DEF RetentionAssumption, Dates
    <3> QED
      BY <2>9, <3>1, <3>2 DEF PassFails, Idle, setting, store
  <2>10. CASE UNCHANGED vars
    BY <2>10 DEF vars, setting, store, pass
  <2> QED
    BY <2>1, <2>2, <2>3, <2>4, <2>5, <2>6, <2>7, <2>8, <2>9, <2>10 DEF Next
<1> QED
  BY <1>1, <1>2, PTL DEF Spec

-----------------------------------------------------------------------------
\* The month a pass is at ended at least keep days ago, and before today.
LEMMA CurrentMonthIsOld ==
  ASSUME TypeOK, phase # "idle"
  PROVE  /\ cur \in Months
         /\ now - MonthEnd[cur] >= keep
         /\ cur # MonthOf[now]
         /\ \A f \in Partition(cur) :
               now - f[2] >= keep /\ MonthOf[f[2]] = cur
<1>1. /\ cur \in Months
      /\ MonthEnd[cur] \in Nat
      /\ keep \in Nat \ {0}
      /\ today \in Int /\ now \in Int
      /\ today <= now + 1
      /\ MonthEnd[cur] < today - keep
  <2>1. /\ keep \in DayChoices
        /\ today <= now + 1
        /\ cur \in Months
        /\ MonthEnd[cur] < today - keep
    BY DEF TypeOK
  <2>2. today \in Dates /\ now \in 1..MaxDay
    BY DEF TypeOK
  <2>3. MaxDay \in Nat /\ MonthEnd \in [Months -> Nat]
    BY RetentionAssumption DEF RetentionAssumption
  <2>4. today \in Int /\ now \in Int
    BY <2>2, <2>3 DEF Dates
  <2>5. MonthEnd[cur] \in Nat
    BY <2>1, <2>3
  <2>6. keep \in Nat \ {0}
    BY <2>1, RetentionAssumption DEF RetentionAssumption
  <2> QED
    BY <2>1, <2>4, <2>5, <2>6
<1>2. now - MonthEnd[cur] >= keep
  BY <1>1
<1>3. cur # MonthOf[now]
  <2>1. now \in Dates
    BY RetentionAssumption DEF TypeOK, RetentionAssumption, Dates
  <2>2. now <= MonthEnd[MonthOf[now]]
    BY <2>1, RetentionAssumption DEF RetentionAssumption
  <2> QED
    BY <1>1, <1>2, <2>2
<1>4. \A f \in Partition(cur) : now - f[2] >= keep /\ MonthOf[f[2]] = cur
  <2> TAKE f \in Partition(cur)
  <2>1. f[2] \in Dates /\ MonthOf[f[2]] = cur
    BY DEF Partition, TypeOK
  <2>2. f[2] \in Int /\ f[2] <= MonthEnd[cur]
    BY <2>1, RetentionAssumption DEF RetentionAssumption, Dates
  <2> QED
    BY <1>1, <1>2, <2>1, <2>2
<1> QED
  BY <1>1, <1>2, <1>3, <1>4

\* What a step leaves of the store: all of it, or all but files of the month
\* the pass is at.
LEMMA DeletedByAStep ==
  ASSUME TypeOK, [Next]_vars
  PROVE  \/ /\ raw \subseteq raw'
            /\ \A m \in Months : index[m] \subseteq index'[m]
         \/ /\ phase # "idle"
            /\ raw \ raw' \subseteq Partition(cur)
            /\ \A m \in Months : index[m] \ index'[m] # {} => m = cur
<1>1. CASE Midnight
  BY <1>1 DEF Midnight, store
<1>2. CASE SetDays
  BY <1>2 DEF SetDays, store
<1>3. CASE Record
  <2>1. PICK dev \in Devices, d \in {now, now - 1} \cap (Dates \ {0}) :
           /\ raw' = raw \cup {<<dev, d>>}
           /\ \/ index' = [index EXCEPT ![MonthOf[d]] = Files]
              \/ IndexMisses /\ UNCHANGED index
    BY <1>3 DEF Record
  <2>2. \A m \in Months : index[m] \subseteq index'[m]
    BY <2>1 DEF TypeOK
  <2> QED
    BY <2>1, <2>2
<1>4. CASE BeginPass
  BY <1>4 DEF BeginPass, store
<1>5. CASE UnlinkIndex
  BY <1>5 DEF UnlinkIndex, TypeOK
<1>6. CASE IndexDone
  BY <1>6 DEF IndexDone, store
<1>7. CASE UnlinkRaw
  BY <1>7 DEF UnlinkRaw
<1>8. CASE MonthDone
  BY <1>8 DEF MonthDone, store
<1>9. CASE PassFails
  BY <1>9 DEF PassFails, store
<1>10. CASE UNCHANGED vars
  BY <1>10 DEF vars, store
<1> QED
  BY <1>1, <1>2, <1>3, <1>4, <1>5, <1>6, <1>7, <1>8, <1>9, <1>10 DEF Next

\* Nothing younger than the pass's retention_days is deleted, at any length of
\* a pass and on either side of UTC.
THEOREM RetentionDaysKept == Spec => KeepsRetentionDays
<1>1. TypeOK /\ [Next]_vars =>
        /\ \A f \in raw \ raw' : now - f[2] >= keep
        /\ \A m \in Months :
              index[m] \ index'[m] # {} => now - MonthEnd[m] >= keep
  <2> SUFFICES ASSUME TypeOK, [Next]_vars
               PROVE  /\ \A f \in raw \ raw' : now - f[2] >= keep
                      /\ \A m \in Months : index[m] \ index'[m] # {} =>
                            now - MonthEnd[m] >= keep
    OBVIOUS
  <2> QED
    BY DeletedByAStep, CurrentMonthIsOld
<1> QED
  BY <1>1, Typing, PTL DEF Spec, KeepsRetentionDays

\* The partition the receiver is writing is never touched.
THEOREM ActiveKept == Spec => ActivePartitionKept
<1>1. TypeOK /\ [Next]_vars =>
        /\ \A f \in raw \ raw' : MonthOf[f[2]] # MonthOf[now]
        /\ index[MonthOf[now]] \subseteq index'[MonthOf[now]]
  <2> SUFFICES ASSUME TypeOK, [Next]_vars
               PROVE  /\ \A f \in raw \ raw' : MonthOf[f[2]] # MonthOf[now]
                      /\ index[MonthOf[now]] \subseteq index'[MonthOf[now]]
    OBVIOUS
  <2>1. MonthOf[now] \in Months
    <3>1. now \in Dates
      BY RetentionAssumption DEF TypeOK, RetentionAssumption, Dates
    <3> QED
      BY <3>1, MonthsOfDates
  <2> QED
    BY <2>1, DeletedByAStep, CurrentMonthIsOld
<1> QED
  BY <1>1, Typing, PTL DEF Spec, ActivePartitionKept
=============================================================================
