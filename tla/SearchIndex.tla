----------------------------- MODULE SearchIndex -----------------------------
(***************************************************************************)
(* What the monthly databases promise to whoever reads them, with no       *)
(* queue, buffer, connection or transaction in sight.  Accepted messages   *)
(* are pending.  Now and then some of the pending messages of one month    *)
(* are published, all at once: the oldest ones, in acceptance order, after *)
(* the rows that are there, so a table only grows, and at its end.         *)
(* Pending messages may be given up, and never come back.  Indexer         *)
(* implements this specification.                                          *)
(***************************************************************************)
EXTENDS Naturals, Sequences

CONSTANT Months

VARIABLES
    accepted,   \* number of messages accepted so far
    pending,    \* messages accepted and neither published nor given up
    index       \* per month, the ids of the published rows

vars == <<accepted, pending, index>>

\* new is old followed by the messages of batch, oldest first.
Continues(old, new, batch) ==
    /\ Len(old) <= Len(new)
    /\ \A i \in 1..Len(old) : new[i] = old[i]
    /\ \A i, j \in 1..Len(new) : i < j => new[i] < new[j]
    /\ {new[i] : i \in (Len(old) + 1)..Len(new)} = {msg.id : msg \in batch}

Init ==
    /\ accepted = 0
    /\ pending = {}
    /\ index = [m \in Months |-> <<>>]

Accept ==
    /\ accepted' = accepted + 1
    /\ \E m \in Months :
          pending' = pending \cup {[id |-> accepted + 1, month |-> m]}
    /\ UNCHANGED index

\* The messages of batch become visible, and no older one of their month will.
Publish ==
    /\ \E m \in Months, batch \in SUBSET pending :
          /\ \A msg \in batch : msg.month = m
          /\ \A msg \in batch, rest \in pending \ batch :
                rest.month = m => msg.id < rest.id
          /\ Continues(index[m], index'[m], batch)
          /\ \A n \in Months \ {m} : index'[n] = index[n]
          /\ pending' = pending \ batch
    /\ UNCHANGED accepted

GiveUp ==
    /\ pending' \in SUBSET pending
    /\ UNCHANGED <<accepted, index>>

Next == Accept \/ Publish \/ GiveUp

Spec == Init /\ [][Next]_vars
=============================================================================
