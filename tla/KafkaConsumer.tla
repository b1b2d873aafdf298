---------------------------- MODULE KafkaConsumer ----------------------------
(***************************************************************************)
(* KafkaConsumerMiddleware (utils/middleware/kafka/consumer.py) between the *)
(* Kafka consumer it wraps and the owner who reads from it: with poll(), a  *)
(* batch at a time, or with a for loop, which calls next_message() and gets *)
(* what is pending one by one.                                              *)
(*                                                                          *)
(* The owner is one thread (kafka-python allows no more) and handles what   *)
(* it was given before it asks again.  It may commit() or close() at any    *)
(* time, and the process may die; then another one starts from what was     *)
(* committed, and where nothing was, as auto_offset_reset says: from the    *)
(* first record or, by default, past the last.  A record is named by its    *)
(* partition and its offset.                                                *)
(***************************************************************************)
EXTENDS Integers, Sequences, FiniteSets

CONSTANTS
  Partitions,
  Messages,   \* what may be published
  Errors,     \* those whose error() is not None
  Resets,     \* what auto_offset_reset may be
  MaxOffset,  \* bound: records of a partition
  MaxBatch,   \* bound: records one poll returns (max_poll_records)
  MaxStarts   \* bound: consumers made

ASSUME ConsumerBounds ==
  /\ MaxOffset \in Nat /\ MaxBatch \in Nat /\ MaxStarts \in Nat
  /\ IsFiniteSet(Partitions)
ASSUME ErrorsAssumption == Errors \subseteq Messages
ASSUME ResetsAssumption == Resets \subseteq {"earliest", "latest"}

VARIABLES
  log, committed,    \* Kafka: the records published, the group's offsets
  open, subscribed, position,  \* the wrapped consumer
  pending,           \* _pending_messages
  hand,              \* what the owner was given and has not handled yet
  over,              \* the owner's for loop met StopIteration or an error
  starts,            \* consumers made so far
  \* history of the latest consumer: the offsets it began at, what the
  \* middleware gave out, in order, how often it logged each record, and
  \* whether poll() was called while something was pending
  base, given, logged, mixed,
  \* history: the records handled, and those that were pending or in the
  \* owner's hands when the position beyond them was committed, or that a
  \* consumer began behind
  handled, excused

broker == <<log, committed>>
consumer == <<open, subscribed, position, starts, base>>
middleware == <<pending, given, logged, mixed>>
owner == <<hand, over, handled, excused>>
consumerVars == <<broker, consumer, middleware, owner>>

Offsets == 1..MaxOffset
NoOffset == -1  \* of a partition whose position was never committed
Records == Partitions \X Offsets
Elements(s) == {s[i] : i \in DOMAIN s}
MessageOf(r) == log[r[1]][r[2]]
HasError(r) == MessageOf(r) \in Errors

ConsumerTypeOK ==
  /\ log \in [Partitions -> Seq(Messages)] /\ \A p \in Partitions : Len(log[p]) <= MaxOffset
  /\ committed \in [Partitions -> NoOffset..MaxOffset]
  /\ open \in BOOLEAN /\ subscribed \subseteq Partitions
  /\ position \in [Partitions -> 0..MaxOffset]
  /\ \A p \in Partitions : position[p] <= Len(log[p])
  /\ starts \in 0..MaxStarts
  /\ base \in [Partitions -> 0..MaxOffset]
  /\ pending \in Seq(Records) /\ hand \in Seq(Records)
  /\ given \in Seq(Records) /\ logged \in [Records -> Nat]
  /\ over \in BOOLEAN /\ mixed \in BOOLEAN
  /\ handled \subseteq Records /\ excused \subseteq Records

NeverLogged == [r \in Records |-> 0]
AtStart == [p \in Partitions |-> 0]

ConsumerInit ==
  /\ log = [p \in Partitions |-> <<>>]
  /\ committed = [p \in Partitions |-> NoOffset]
  /\ open = FALSE /\ subscribed = {} /\ starts = 0
  /\ position = AtStart /\ base = AtStart
  /\ pending = <<>> /\ given = <<>> /\ logged = NeverLogged /\ mixed = FALSE
  /\ hand = <<>> /\ over = FALSE /\ handled = {} /\ excused = {}

-----------------------------------------------------------------------------
(* Kafka and the wrapped consumer.                                          *)

Publish(p, m) ==
  /\ Len(log[p]) < MaxOffset
  /\ log' = [log EXCEPT ![p] = Append(@, m)]
  /\ UNCHANGED <<committed, consumer, middleware, owner>>

\* A consumer is made, wrapped and subscribed (LiveDataSource.start()); it
\* reads from what the group has committed.  Where nothing was, it looks up
\* where to begin as its first poll would; under "latest" it never sees what
\* was published before.
Begin(reset, p) == IF reset = "latest" THEN Len(log[p]) ELSE 0
Behind(reset, topics) ==
  {r \in Records : reset = "latest" /\ r[1] \in topics /\ committed[r[1]] = NoOffset
                     /\ r[2] <= Len(log[r[1]])}
BeginsAt(reset, topics) ==
  [p \in Partitions |->
     IF committed[p] # NoOffset THEN committed[p]
     ELSE IF p \in topics THEN Begin(reset, p) ELSE 0]
Start(reset, topics) ==
  /\ ~open /\ starts < MaxStarts
  /\ starts' = starts + 1 /\ open' = TRUE /\ subscribed' = topics
  /\ position' = BeginsAt(reset, topics) /\ base' = BeginsAt(reset, topics)
  /\ pending' = <<>> /\ given' = <<>> /\ logged' = NeverLogged /\ mixed' = FALSE
  /\ hand' = <<>> /\ over' = FALSE
  /\ excused' = excused \cup Behind(reset, topics)
  /\ UNCHANGED <<broker, handled>>

\* A commit of the position goes past what was fetched and is not handled.
Waiting == Elements(pending) \cup Elements(hand)
\* Mutant: the offset of the next record, plus one.
CommitNext ==
  /\ committed' = [p \in Partitions |-> IF p \in subscribed THEN position[p] + 1 ELSE committed[p]]
  /\ excused' = excused \cup Waiting
CommitPosition ==
  /\ committed' = [p \in Partitions |-> IF p \in subscribed THEN position[p] ELSE committed[p]]
  /\ excused' = excused \cup Waiting
\* enable_auto_commit: at a poll, when its interval is over.  The position it
\* commits is that of before the poll.
\* Mutant: that of after it.
CommitAhead == committed' \in {committed, position'} /\ UNCHANGED excused
AutoCommit == CommitPosition \/ UNCHANGED <<committed, excused>>

\* One poll returns up to MaxBatch records, n[p] of partition p: those of a
\* partition together and in order, the partitions in any order.
Fetched(n) == UNION {{p} \X (position[p] + 1 .. position[p] + n[p]) : p \in subscribed}
Sizes ==
  {n \in [subscribed -> 0..MaxBatch] :
     /\ \A p \in subscribed : position[p] + n[p] <= Len(log[p])
     /\ Cardinality(Fetched(n)) <= MaxBatch}
Orderings(S) ==
  {b \in [1..Cardinality(S) -> S] :
     /\ \A r \in S : \E i \in DOMAIN b : b[i] = r
     /\ \A i, j \in DOMAIN b : i < j /\ b[i][1] = b[j][1] =>
          b[i][2] < b[j][2] /\ \A k \in i..j : b[k][1] = b[i][1]}
Poll(n) ==
  /\ open
  /\ position' = [p \in Partitions |->
                    IF p \in subscribed THEN position[p] + n[p] ELSE position[p]]
  /\ AutoCommit
  /\ UNCHANGED <<log, open, subscribed, starts, base>>

-----------------------------------------------------------------------------
(* The middleware.                                                          *)

\* Every record a poll returned is logged when it comes, but for the errors.
\* Counted are the calls of the logger: one that fails is swallowed.
Logged(these) == [r \in Records |-> IF r \in these THEN logged[r] + 1 ELSE logged[r]]
\* Mutant: the errors too.
LogAll(batch) == logged' = Logged(Elements(batch))
LogEach(batch) == logged' = Logged({r \in Elements(batch) : ~HasError(r)})

Gives(batch) == given' = given \o batch /\ hand' = batch

\* poll(): the batch goes to the owner as it is, past what is pending.
OwnerPolls ==
  /\ hand = <<>>
  /\ \E n \in Sizes : \E batch \in Orderings(Fetched(n)) :
       Poll(n) /\ LogEach(batch) /\ Gives(batch)
  /\ mixed' = (mixed \/ pending # <<>>)
  /\ UNCHANGED <<pending, over, handled>>

\* next_message(): the oldest pending record, also of a closed consumer.
InLoop == ~over /\ hand = <<>> /\ starts > 0
NextServes ==
  /\ InLoop /\ pending # <<>>
  /\ pending' = Tail(pending)
  /\ Gives(<<Head(pending)>>)
  /\ UNCHANGED <<broker, consumer, logged, mixed, over, handled, excused>>

\* Or a poll, whose first record is served and the others kept.
\* Mutant: the first record is served, and that is all.
FirstOnly(batch) == <<>>
Kept(batch) == Tail(batch)
NextPolls ==
  /\ InLoop /\ pending = <<>>
  /\ \E n \in Sizes : \E batch \in Orderings(Fetched(n)) :
       /\ batch # <<>>
       /\ Poll(n) /\ LogEach(batch)
       /\ pending' = Kept(batch)
       /\ Gives(<<Head(batch)>>)
  /\ UNCHANGED <<mixed, over, handled>>

\* Or StopIteration, when the poll is empty, also while records are on their
\* way; a poll that raises ends the owner's loop as well.
NextEnds ==
  /\ InLoop /\ pending = <<>>
  /\ over' = TRUE
  /\ UNCHANGED <<log, consumer, middleware, hand, handled>>
  /\ IF open THEN AutoCommit ELSE UNCHANGED <<committed, excused>>

-----------------------------------------------------------------------------
(* The owner.                                                               *)

\* A record is handled, in the order given.
Handle ==
  /\ hand # <<>>
  /\ handled' = handled \cup {Head(hand)}
  /\ hand' = Tail(hand)
  /\ UNCHANGED <<broker, consumer, middleware, over, excused>>

LoopAgain ==
  /\ over /\ open
  /\ over' = FALSE
  /\ UNCHANGED <<broker, consumer, middleware, hand, handled, excused>>

\* commit(), which the middleware hands on (__getattr__).
Commit ==
  /\ open
  /\ CommitPosition
  /\ UNCHANGED <<log, consumer, middleware, hand, over, handled>>

\* close() commits the position, unless the broker cannot be reached.  What is
\* pending stays so.
Close ==
  /\ open
  /\ open' = FALSE
  /\ CommitPosition \/ UNCHANGED <<committed, excused>>
  /\ UNCHANGED <<log, subscribed, position, starts, base, middleware, hand, over, handled>>

\* Nothing of the process is left, and its loop is over.
Crash ==
  /\ open
  /\ open' = FALSE /\ over' = TRUE
  /\ subscribed' = {} /\ position' = AtStart /\ base' = AtStart
  /\ pending' = <<>> /\ hand' = <<>>
  /\ given' = <<>> /\ logged' = NeverLogged /\ mixed' = FALSE
  /\ UNCHANGED <<broker, starts, handled, excused>>

ReadStep == OwnerPolls \/ NextServes \/ NextPolls \/ NextEnds \/ LoopAgain \/ Commit \/ Close \/ Crash

ConsumerNext ==
  \/ \E p \in Partitions, m \in Messages : Publish(p, m)
  \/ \E reset \in Resets, topics \in SUBSET Partitions : Start(reset, topics)
  \/ Handle \/ ReadStep

ConsumerSpec == ConsumerInit /\ [][ConsumerNext]_consumerVars

-----------------------------------------------------------------------------
(* Properties.                                                              *)

\* consumer.py:217-232: what one consumer fetched was given to the owner or is
\* pending, each record once; in the order of its partition, too, unless
\* poll() overtook what was pending.  consumer.py:24, "All messages consumed will
\* be auto-logged as kafka_recv": the logger is called once for each, as soon as
\* they are fetched, and for nothing but messages.
Ascends(s) == \A i, j \in DOMAIN s : i < j /\ s[i][1] = s[j][1] => s[i][2] < s[j][2]
Injects(s) == \A i, j \in DOMAIN s : s[i] = s[j] => i = j
FetchedNow == {r \in Records : r[2] \in base[r[1]] + 1 .. position[r[1]]}
NothingDropped ==
  /\ Elements(given \o pending) = FetchedNow
  /\ Injects(given \o pending)
  /\ mixed \/ Ascends(given \o pending)
  /\ \A r \in Records : logged[r] = IF r \in FetchedNow /\ ~HasError(r) THEN 1 ELSE 0

\* A record below the committed offset was handled, in this process or in one
\* before, unless it was pending or in the owner's hands when somebody
\* committed past it (commit(), close(), or a poll() between two calls of
\* next_message()), or a consumer began behind it: under "latest", the default
\* of config.py:345, what was published before the group's first commit is
\* passed over, also by the process that comes after a crash.
AtLeastOnce ==
  \A r \in Records : r[2] <= committed[r[1]] => r \in handled \cup excused

-----------------------------------------------------------------------------
(* The inductive invariant the proofs use.                                  *)

\* Nothing is ahead of what was published.
LogInv ==
  /\ \A p \in Partitions : committed[p] <= Len(log[p]) /\ base[p] <= position[p]
  /\ \A r \in handled \cup Waiting : r[2] <= Len(log[r[1]])

\* What the position of an open consumer is beyond is handled, was excused, or
\* waits.
PositionInv ==
  open => \A r \in Records : r[2] <= position[r[1]] => r \in handled \cup excused \cup Waiting

ConsumerInv ==
  ConsumerTypeOK /\ LogInv /\ PositionInv /\ AtLeastOnce /\ NothingDropped
=============================================================================
