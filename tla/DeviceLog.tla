------------------------------ MODULE DeviceLog ------------------------------
(***************************************************************************)
(* What the raw log of one device promises, with no queue, buffer, thread  *)
(* or file in sight.  Accepted messages are pending.  Of each day, the     *)
(* oldest pending message is the next to be recorded, so a day's log is    *)
(* always in acceptance order.  Pending messages may be given up, at most  *)
(* the oldest of them leaving a trace in the log.  A crash gives up what   *)
(* is pending and takes back log entries, but never a durable one.         *)
(* DeviceWriter implements this specification.                             *)
(***************************************************************************)
EXTENDS Naturals, Sequences

CONSTANT Days

VARIABLES
    accepted,   \* number of messages accepted so far
    pending,    \* messages accepted and neither recorded nor given up
    log,        \* per day, the entries: a message and whether it is whole
    durable     \* per day, how many entries are safe from a crash

vars == <<accepted, pending, log, durable>>

Entry(m, w) == [id |-> m.id, whole |-> w]

\* m is the oldest pending message of its day.
Oldest(m) ==
    /\ m \in pending
    /\ \A n \in pending : n.day = m.day => m.id <= n.id

Init ==
    /\ accepted = 0
    /\ pending = {}
    /\ log = [d \in Days |-> <<>>]
    /\ durable = [d \in Days |-> 0]

Accept ==
    /\ accepted' = accepted + 1
    /\ \E d \in Days :
          pending' = pending \cup {[id |-> accepted + 1, day |-> d]}
    /\ UNCHANGED <<log, durable>>

Record ==
    /\ \E m \in pending :
          /\ Oldest(m)
          /\ log' = [log EXCEPT ![m.day] = Append(@, Entry(m, TRUE))]
          /\ pending' = pending \ {m}
    /\ UNCHANGED <<accepted, durable>>

\* Some pending messages will not be recorded; the oldest of a day may have
\* left an entry, whole or not.
GiveUp ==
    /\ pending' \in SUBSET pending
    /\ \/ UNCHANGED log
       \/ \E m \in pending \ pending', w \in BOOLEAN :
             /\ Oldest(m)
             /\ log' = [log EXCEPT ![m.day] = Append(@, Entry(m, w))]
    /\ UNCHANGED <<accepted, durable>>

Sync ==
    /\ \E d \in Days : durable' = [durable EXCEPT ![d] = Len(log[d])]
    /\ UNCHANGED <<accepted, pending, log>>

\* new is what a crash may leave of old when its first n entries are durable:
\* a prefix, the last entry possibly cut.
Cut(old, new, n) ==
    /\ Len(new) \in n..Len(old)
    /\ \A i \in 1..Len(new) :
          \/ new[i] = old[i]
          \/ /\ i = Len(new)
             /\ i > n
             /\ new[i] = [old[i] EXCEPT !.whole = FALSE]

Crash ==
    /\ pending' = {}
    /\ \A d \in Days :
          /\ Cut(log[d], log'[d], durable[d])
          /\ durable'[d] \in durable[d]..Len(log'[d])
    /\ UNCHANGED accepted

Next == Accept \/ Record \/ GiveUp \/ Sync \/ Crash

Spec == Init /\ [][Next]_vars
=============================================================================
