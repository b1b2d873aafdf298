-------------------------------- MODULE Feed --------------------------------
(***************************************************************************)
(* What LiveDataSource (market_data/live.py) promises its callbacks: one    *)
(* reader of the log at a time, which begins where the group's offset is,   *)
(* and commits no message before it has gone past it.  It gives a callback  *)
(* a message once at most, and never an earlier one after it.  A message    *)
(* that no reader committed is read again by the next.                      *)
(*                                                                          *)
(* All this until a stop() gives up on a thread: from then on two readers   *)
(* may be at work, and nothing is promised.                                 *)
(***************************************************************************)
EXTENDS Integers

CONSTANTS
  Readers,    \* consumers, numbered in the order they are made
  Callbacks,
  Unset       \* no offset was committed

VARIABLES
  logEnd,     \* messages 1..logEnd were published
  committed,  \* the group's offset
  reader,     \* the consumer that reads the log, 0 when there is none
  past,       \* the last message the reader is done with
  seen,       \* of each callback: the latest message, and who read it
  calling,    \* the callback that runs, or none
  gaveUp
vars == <<logEnd, committed, reader, past, seen, calling, gaveUp>>

Init ==
  /\ logEnd = 0 /\ committed = Unset
  /\ reader = 0 /\ past = 0
  /\ seen = [cb \in Callbacks |-> <<0, 0>>]
  /\ calling = {}
  /\ gaveUp = FALSE

Publish ==
  /\ logEnd' = logEnd + 1
  /\ UNCHANGED <<committed, reader, past, seen, calling, gaveUp>>

\* A new group begins with what is published from now on.
Open(r) ==
  /\ reader = 0
  /\ \A cb \in Callbacks : seen[cb][1] < r
  /\ reader' = r
  /\ past' = IF committed = Unset THEN logEnd ELSE committed
  /\ UNCHANGED <<logEnd, committed, seen, calling, gaveUp>>

Reads == reader # 0 /\ past < logEnd

\* The next message, to a callback that has not had it from this reader.
Give(cb) ==
  /\ Reads /\ calling = {}
  /\ seen[cb] # <<reader, past + 1>>
  /\ seen' = [seen EXCEPT ![cb] = <<reader, past + 1>>]
  /\ calling' = {cb}
  /\ UNCHANGED <<logEnd, committed, reader, past, gaveUp>>

Return ==
  /\ calling # {} /\ calling' = {}
  /\ UNCHANGED <<logEnd, committed, reader, past, seen, gaveUp>>

\* Done with a message: all callbacks returned, or one raised.
PassOn ==
  /\ Reads
  /\ past' = past + 1
  /\ calling' = {}
  /\ UNCHANGED <<logEnd, committed, reader, seen, gaveUp>>

Commit ==
  /\ reader # 0 /\ calling = {}
  /\ committed' = past
  /\ UNCHANGED <<logEnd, reader, past, seen, calling, gaveUp>>

\* close(), or the end of the process, which commits nothing.
Close ==
  /\ reader # 0
  /\ reader' = 0 /\ past' = 0 /\ calling' = {}
  /\ \/ calling = {} /\ committed' = past
     \/ UNCHANGED committed
  /\ UNCHANGED <<logEnd, seen, gaveUp>>

Keeps ==
  \/ Publish \/ Return \/ PassOn \/ Commit \/ Close
  \/ \E r \in Readers : Open(r)
  \/ \E cb \in Callbacks : Give(cb)

Next == Keeps \/ gaveUp'

Spec == Init /\ [][Next]_vars
=============================================================================
