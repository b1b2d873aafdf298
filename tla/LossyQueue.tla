----------------------------- MODULE LossyQueue -----------------------------
(***************************************************************************)
(* What the Kafka backend of a logger promises (utils/log/logger.py:74): a  *)
(* queue that takes an entry or not, at once, and gives the oldest one that *)
(* it has to Kafka or loses it.  Nothing is delivered that was not taken,   *)
(* out of turn, or a second time, and a hung broker costs bounded memory.   *)
(***************************************************************************)
EXTENDS Naturals, Sequences

CONSTANTS
  Queues,    \* one of each logger
  Items,     \* entries
  Capacity   \* bound of the queue; one more item may be on its way

VARIABLES
  pending,   \* what each queue has taken and not given up, oldest first
  delivered  \* what Kafka was given
vars == <<pending, delivered>>

Init ==
  /\ pending = [q \in Queues |-> <<>>]
  /\ delivered = [q \in Queues |-> <<>>]

Accept(q, i) ==
  /\ Len(pending[q]) <= Capacity
  /\ pending' = [pending EXCEPT ![q] = Append(@, i)]
  /\ UNCHANGED delivered

Remove(q) ==
  /\ pending[q] # <<>>
  /\ pending' = [pending EXCEPT ![q] = Tail(@)]

Deliver(q) ==
  /\ Remove(q)
  /\ delivered' = [delivered EXCEPT ![q] = Append(@, Head(pending[q]))]

Lose(q) == Remove(q) /\ UNCHANGED delivered

Next == \E q \in Queues : (\E i \in Items : Accept(q, i)) \/ Deliver(q) \/ Lose(q)

Spec == Init /\ [][Next]_vars
=============================================================================
