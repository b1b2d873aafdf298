------------------------------ MODULE LiveFeed ------------------------------
(***************************************************************************)
(* LiveDataSource (market_data/live.py): start(), stop() and the consume    *)
(* loop they control from another thread, with the callbacks the loop runs  *)
(* and the offsets of the Kafka consumer it polls.                          *)
(*                                                                          *)
(* Actor Main is the user's thread: it calls start() and stop().  Actor     *)
(* t \in Loops is the t-th loop thread start() made; while one of its       *)
(* callbacks runs, the callback may call stop() too.  live.py takes no      *)
(* lock, so every read or write of a field that another actor may change    *)
(* is a step of its own.  One partition stands for the subscribed topics.   *)
(***************************************************************************)
EXTENDS Integers, Sequences

CONSTANTS
  MaxStarts,    \* bound: calls of start() that get past its guard
  MaxOffset,    \* bound: messages published
  MaxBatch,     \* bound: messages one poll returns (max_poll_records)
  MaxCrashes,   \* bound: crashes of the process
  StartsFail,   \* may creating, subscribing or launching fail?
  CallbacksStop,\* may a callback call stop()?
  Kinds,        \* "kline", "oi", "funding", "orderbook"
  Discarded,    \* what _process_message drops: unknown, malformed, filtered
  Undecodable,  \* what is no JSON: the value_deserializer raises
  KindOf,       \* offset -> the kind of the message, or one of these two
  Callbacks,    \* the callbacks the user may register
  Wants         \* callback -> the kind it is registered for

Main == 0
Loops == 1..MaxStarts
Actors == {Main} \cup Loops
Offsets == 1..MaxOffset
None == 0      \* a field of the object that is None
Unset == -1    \* no position yet, or no committed offset

ASSUME BoundsAssumption ==
  /\ MaxStarts \in Nat /\ MaxOffset \in Nat /\ MaxCrashes \in Nat
  /\ MaxBatch \in Nat \ {0}
  /\ StartsFail \in BOOLEAN /\ CallbacksStop \in BOOLEAN
ASSUME MessageAssumption ==
  /\ {Discarded, Undecodable} \cap Kinds = {}
  /\ KindOf \in [Offsets -> Kinds \cup {Discarded, Undecodable}]
  /\ Wants \in [Callbacks -> Kinds]

VARIABLES
  \* the fields of LiveDataSource
  running, consumer, thread, callbacks,
  \* where each actor is in start() or stop(); the thread a join waits for
  op, joining,
  \* each loop thread: where it is, its batch cur..last, the consumer that
  \* returned it, and the callback of the fan-out it is at
  pc, cur, last, source, idx,
  \* Kafka: consumers made and closed, their positions, the group's
  \* committed offset, the end of the log
  starts, closed, position, committed, logEnd,
  \* history: the group's first offset, the messages whose fan-out ended,
  \* each callback's latest call, threads a stop() gave up on, a start() that
  \* raised, a stop() that returned to Main since the last start, crashes
  baseline, handled, lastSeen, abandoned, startFailed, stopReturned, crashes

fields == <<running, consumer, thread, callbacks>>
ops == <<op, joining>>
loops == <<pc, cur, last, source, idx>>
kafka == <<starts, closed, position, committed, logEnd>>
marks == <<abandoned, startFailed, stopReturned, crashes>>
delivery == <<baseline, handled, lastSeen>>
vars == <<fields, ops, loops, kafka, marks, delivery>>

LoopStates == {"unborn", "new", "loop", "poll", "batch", "fan", "callback", "exited"}
OpStates == {"idle", "start_create", "start_subscribe", "start_run", "start_thread",
             "start_launch", "stop_flag", "stop_join", "stop_wait", "stop_close"}
Live(t) == pc[t] \in {"loop", "poll", "batch", "fan", "callback"}
Distinct(s) == \A i, j \in DOMAIN s : s[i] = s[j] => i = j

FlagsOK == running \in BOOLEAN /\ startFailed \in BOOLEAN /\ stopReturned \in BOOLEAN
FieldsOK ==
  /\ consumer \in {None} \cup Loops
  /\ thread \in {None} \cup Loops
  /\ callbacks \in [Kinds -> Seq(Callbacks)]
OpsOK ==
  /\ op \in [Actors -> OpStates]
  /\ joining \in [Actors -> {None} \cup Loops]
LoopsOK ==
  /\ pc \in [Loops -> LoopStates]
  /\ cur \in [Loops -> 1..MaxOffset + 1]
  /\ last \in [Loops -> 0..MaxOffset]
  /\ source \in [Loops -> {None} \cup Loops]
  /\ idx \in [Loops -> Nat \ {0}]
KafkaOK ==
  /\ starts \in 0..MaxStarts
  /\ closed \in SUBSET Loops
  /\ position \in [Loops -> Unset..MaxOffset]
  /\ committed \in Unset..MaxOffset
  /\ logEnd \in 0..MaxOffset
HistoryOK ==
  /\ baseline \in 0..MaxOffset
  /\ handled \in SUBSET Offsets
  /\ lastSeen \in [Callbacks -> ({None} \cup Loops) \X (0..MaxOffset)]
  /\ abandoned \in SUBSET Loops
  /\ crashes \in 0..MaxCrashes
TypeOK == FlagsOK /\ FieldsOK /\ OpsOK /\ LoopsOK /\ KafkaOK /\ HistoryOK

Init ==
  /\ running = FALSE /\ consumer = None /\ thread = None
  /\ callbacks = [k \in Kinds |-> <<>>]
  /\ op = [a \in Actors |-> "idle"]
  /\ joining = [a \in Actors |-> None]
  /\ pc = [t \in Loops |-> "unborn"]
  /\ cur = [t \in Loops |-> 1] /\ last = [t \in Loops |-> 0]
  /\ source = [t \in Loops |-> None]
  /\ idx = [t \in Loops |-> 1]
  /\ starts = 0 /\ closed = {}
  /\ position = [c \in Loops |-> Unset]
  /\ committed = Unset /\ logEnd = 0
  /\ baseline = 0 /\ handled = {}
  /\ lastSeen = [cb \in Callbacks |-> <<None, 0>>]
  /\ abandoned = {} /\ startFailed = FALSE /\ stopReturned = FALSE
  /\ crashes = 0

-----------------------------------------------------------------------------
(* start(), called by Main.                                                 *)

Goto(a, state) == op' = [op EXCEPT ![a] = state]

\* Mutant: start() without its guard.
StartUnguarded == TRUE
StartAllowed == ~running

\* The guard of start(): a feed that runs is left alone.
StartCall ==
  /\ op[Main] = "idle"
  /\ starts < MaxStarts
  /\ StartAllowed
  /\ starts' = starts + 1
  /\ stopReturned' = FALSE
  /\ Goto(Main, "start_create")
  /\ UNCHANGED <<fields, joining, loops, closed, position, committed, logEnd,
                 abandoned, startFailed, crashes, delivery>>

\* An exception inside start(): the fields keep what was assigned so far.
StartRaises ==
  /\ Goto(Main, "idle")
  /\ startFailed' = TRUE
  /\ UNCHANGED <<joining, abandoned, stopReturned, crashes>>

\* KafkaConsumer(...) may raise: no consumer was made.  `closed` holds the
\* consumers that need no close() any more, so the one never made is in it.
StartCreateFails ==
  /\ op[Main] = "start_create" /\ StartsFail
  /\ closed' = closed \cup {starts}
  /\ StartRaises
  /\ UNCHANGED <<fields, loops, starts, position, committed, logEnd, delivery>>

StartCreate ==
  /\ op[Main] = "start_create"
  /\ consumer' = starts
  /\ Goto(Main, "start_subscribe")
  /\ UNCHANGED <<running, thread, callbacks, joining, loops, kafka, marks, delivery>>

\* self._consumer.subscribe(...): the field may have been set to None by a
\* stop() that runs in an abandoned thread, and the call may fail.
StartSubscribeFails ==
  /\ op[Main] = "start_subscribe"
  /\ StartsFail \/ consumer = None
  /\ StartRaises
  /\ UNCHANGED <<fields, loops, kafka, delivery>>

StartSubscribe ==
  /\ op[Main] = "start_subscribe"
  /\ consumer # None
  /\ Goto(Main, "start_run")
  /\ UNCHANGED <<fields, joining, loops, kafka, marks, delivery>>

StartRun ==
  /\ op[Main] = "start_run"
  /\ running' = TRUE
  /\ Goto(Main, "start_thread")
  /\ UNCHANGED <<consumer, thread, callbacks, joining, loops, kafka, marks, delivery>>

StartThread ==
  /\ op[Main] = "start_thread"
  /\ thread' = starts
  /\ pc' = [pc EXCEPT ![starts] = "new"]
  /\ Goto(Main, "start_launch")
  /\ UNCHANGED <<running, consumer, callbacks, joining, cur, last, source, idx,
                 kafka, marks, delivery>>

\* self._thread.start(): the field may be None, or the system out of threads.
StartLaunchFails ==
  /\ op[Main] = "start_launch"
  /\ StartsFail \/ thread = None
  /\ StartRaises
  /\ UNCHANGED <<fields, loops, kafka, delivery>>

StartLaunch ==
  /\ op[Main] = "start_launch"
  /\ thread # None
  /\ pc' = [pc EXCEPT ![thread] = "loop"]
  /\ Goto(Main, "idle")
  /\ UNCHANGED <<fields, joining, cur, last, source, idx, kafka, marks, delivery>>

-----------------------------------------------------------------------------
(* stop(), called by Main or by a callback that loop thread a runs.         *)

MayCall(a) == op[a] = "idle" /\ (a # Main => pc[a] = "callback")

MayStop(a) == MayCall(a) /\ (a # Main => CallbacksStop)

\* What the user may conclude once stop() is back in its own thread.
ReturnsFromStop(a) == stopReturned' = (stopReturned \/ a = Main)

StopCallIgnored(a) ==
  /\ MayStop(a)
  /\ ~running
  /\ ReturnsFromStop(a)
  /\ UNCHANGED <<fields, ops, loops, kafka, abandoned, startFailed, crashes, delivery>>

StopCall(a) ==
  /\ MayStop(a)
  /\ running
  /\ Goto(a, "stop_flag")
  /\ UNCHANGED <<fields, joining, loops, kafka, marks, delivery>>

\* A stop() a loop thread makes cannot wait for that thread: it counts as
\* abandoned from here on.
StopFlag(a) ==
  /\ op[a] = "stop_flag"
  /\ running' = FALSE
  /\ abandoned' = abandoned \cup ({a} \ {Main})
  /\ Goto(a, "stop_join")
  /\ UNCHANGED <<consumer, thread, callbacks, joining, loops, kafka,
                 startFailed, stopReturned, crashes, delivery>>

\* Mutant: the join dropped.
JoinSkipped == TRUE
NothingToJoin == thread = None

StopNoThread(a) ==
  /\ op[a] = "stop_join"
  /\ NothingToJoin
  /\ Goto(a, "stop_close")
  /\ UNCHANGED <<fields, joining, loops, kafka, marks, delivery>>

\* Thread.join() raises RuntimeError for the current thread, and for one
\* that was never started; the rest of stop() does not run.
JoinRaises(a) == thread = a \/ pc[thread] = "new"

StopJoinRaises(a) ==
  /\ op[a] = "stop_join"
  /\ thread # None
  /\ JoinRaises(a)
  /\ Goto(a, "idle")
  /\ UNCHANGED <<fields, joining, loops, kafka, marks, delivery>>

StopJoin(a) ==
  /\ op[a] = "stop_join"
  /\ thread # None
  /\ ~JoinRaises(a)
  /\ joining' = [joining EXCEPT ![a] = thread]
  /\ Goto(a, "stop_wait")
  /\ UNCHANGED <<fields, loops, kafka, marks, delivery>>

JoinOver(a) == pc[joining[a]] = "exited"
\* Mutant: join() without a timeout.
JoinForever(a) == FALSE
JoinTimesOut(a) == pc[joining[a]] # "exited"

\* join(timeout=5) is back, because the thread ended or the time was up: the
\* code does not ask which.  self._thread = None.
StopJoined(a) ==
  /\ op[a] = "stop_wait"
  /\ JoinOver(a) \/ JoinTimesOut(a)
  /\ abandoned' = abandoned \cup {t \in {joining[a]} : pc[t] # "exited"}
  /\ thread' = None
  /\ joining' = [joining EXCEPT ![a] = None]
  /\ Goto(a, "stop_close")
  /\ UNCHANGED <<running, consumer, callbacks, loops, kafka,
                 startFailed, stopReturned, crashes, delivery>>

\* close() commits the position when auto-commit is on; a commit that fails
\* is logged by the client, and the consumer is closed all the same.  A closed consumer has
\* no position.
StopClose(a) ==
  /\ op[a] = "stop_close"
  /\ IF consumer = None
       THEN UNCHANGED <<closed, committed, position>>
       ELSE /\ closed' = closed \cup {consumer}
            /\ committed' \in {committed} \cup ({position[consumer]} \ {Unset})
            /\ position' = [position EXCEPT ![consumer] = Unset]
  /\ consumer' = None
  /\ Goto(a, "idle")
  /\ ReturnsFromStop(a)
  /\ UNCHANGED <<running, thread, callbacks, joining, loops, starts, logEnd,
                 abandoned, startFailed, crashes, delivery>>

-----------------------------------------------------------------------------
(* _consume_loop() and _process_message(), in loop thread t.                *)

At(t, state) == pc' = [pc EXCEPT ![t] = state]

\* Mutant: while True.
LoopsForever == TRUE
KeepsLooping == running

LoopCheck(t) ==
  /\ pc[t] = "loop"
  /\ At(t, IF KeepsLooping THEN "poll" ELSE "exited")
  /\ UNCHANGED <<fields, ops, cur, last, source, idx, kafka, marks, delivery>>

\* Mutant: the except clause around the loop instead of inside it.
PollErrorEndsLoop == "exited"
AfterPollError == "loop"

\* The field is None or the consumer is closed (stop() got there first), or
\* the poll itself fails, on the network or on a record: the loop logs it and goes round again.
PollRaises(t) ==
  /\ pc[t] = "poll"
  /\ At(t, AfterPollError)
  /\ UNCHANGED <<fields, ops, cur, last, source, idx, kafka, marks, delivery>>

\* Where a consumer reads from: its position, or for a new one the committed
\* offset, or the end of the log when there is none (auto_offset_reset
\* "latest").
Position(c) == IF position[c] # Unset THEN position[c]
               ELSE IF committed # Unset THEN committed ELSE logEnd

\* A poll commits the position as the last poll left it (enable_auto_commit,
\* when its interval is over), and moves it past what it returns.
\* Mutant: it commits the position past what it returns.
CommitAhead(c, n) == {committed, Position(c) + n}
AutoCommit(c, n) == {committed} \cup ({position[c]} \ {Unset})

\* The client decodes records inside of poll(), which raises at one that is no
\* JSON and leaves the position before it: no poll gets past that record.
Decodable(c, n) == \A o \in Position(c) + 1..Position(c) + n : KindOf[o] # Undecodable

Poll(t, n) ==
  /\ pc[t] = "poll"
  /\ consumer # None
  /\ consumer \notin closed
  /\ Position(consumer) + n <= logEnd
  /\ Decodable(consumer, n)
  /\ committed' \in AutoCommit(consumer, n)
  /\ position' = [position EXCEPT ![consumer] = Position(consumer) + n]
  /\ baseline' = IF position[consumer] = Unset /\ committed = Unset
                   THEN logEnd ELSE baseline
  /\ IF n = 0
       THEN At(t, "loop") /\ UNCHANGED <<cur, last, source>>
       ELSE /\ At(t, "batch")
            /\ cur' = [cur EXCEPT ![t] = Position(consumer) + 1]
            /\ last' = [last EXCEPT ![t] = Position(consumer) + n]
            /\ source' = [source EXCEPT ![t] = consumer]
  /\ UNCHANGED <<fields, ops, idx, starts, closed, logEnd, marks, handled, lastSeen>>

PollBatch(t) == \E n \in 1..MaxBatch : Poll(t, n)

\* `messages` is a local of the iteration that ends.
BatchDone(t) ==
  /\ pc[t] = "batch"
  /\ cur[t] > last[t]
  /\ cur' = [cur EXCEPT ![t] = 1]
  /\ last' = [last EXCEPT ![t] = 0]
  /\ source' = [source EXCEPT ![t] = None]
  /\ At(t, "loop")
  /\ UNCHANGED <<fields, ops, idx, kafka, marks, delivery>>

\* Mutants: the message stays current after it was given out; every other
\* message is skipped.
MessageStays(t) == cur[t]
MessageSkipped(t) == cur[t] + 2
AfterMessage(t) == cur[t] + 1

\* The message is over for thread t, and the next one of the batch is due.
MessageOver(t) ==
  /\ handled' = handled \cup {cur[t]}
  /\ cur' = [cur EXCEPT ![t] = AfterMessage(t)]
  /\ idx' = [idx EXCEPT ![t] = 1]
  /\ At(t, "batch")

DropMessage(t) ==
  /\ pc[t] = "batch"
  /\ cur[t] <= last[t]
  /\ KindOf[cur[t]] = Discarded
  /\ MessageOver(t)
  /\ UNCHANGED <<fields, ops, last, source, kafka, marks, baseline, lastSeen>>

TakeMessage(t) ==
  /\ pc[t] = "batch"
  /\ cur[t] <= last[t]
  /\ KindOf[cur[t]] \in Kinds
  /\ At(t, "fan")
  /\ UNCHANGED <<fields, ops, cur, last, source, idx, kafka, marks, delivery>>

\* The list the for statement walks, as it is now: a callback appended while
\* it walks is reached by it.
Fanout(t) == callbacks[KindOf[cur[t]]]

FanoutDone(t) ==
  /\ pc[t] = "fan"
  /\ idx[t] > Len(Fanout(t))
  /\ MessageOver(t)
  /\ UNCHANGED <<fields, ops, last, source, kafka, marks, baseline, lastSeen>>

Invoke(t) ==
  /\ pc[t] = "fan"
  /\ idx[t] <= Len(Fanout(t))
  /\ lastSeen' = [lastSeen EXCEPT ![Fanout(t)[idx[t]]] = <<source[t], cur[t]>>]
  /\ At(t, "callback")
  /\ UNCHANGED <<fields, ops, cur, last, source, idx, kafka, marks, baseline, handled>>

CallbackReturns(t) ==
  /\ pc[t] = "callback"
  /\ op[t] = "idle"
  /\ idx' = [idx EXCEPT ![t] = @ + 1]
  /\ At(t, "fan")
  /\ UNCHANGED <<fields, ops, cur, last, source, kafka, marks, delivery>>

\* The exception ends the fan-out of this message only.
CallbackRaises(t) ==
  /\ pc[t] = "callback"
  /\ op[t] = "idle"
  /\ MessageOver(t)
  /\ UNCHANGED <<fields, ops, last, source, kafka, marks, baseline, lastSeen>>

-----------------------------------------------------------------------------
(* The user registers callbacks, the feeds publish, the process crashes.    *)

Registered(cb) == \E i \in DOMAIN callbacks[Wants[cb]] : callbacks[Wants[cb]][i] = cb
\* Mutant: insert(0, callback).
CallbackFirst(s, cb) == <<cb>> \o s
WithCallback(s, cb) == Append(s, cb)

\* on_kline(), on_oi(), on_funding(), on_orderbook(); each callback of the
\* model is registered once.
Register(a, cb) ==
  /\ MayCall(a)
  /\ ~Registered(cb)
  /\ callbacks' = [callbacks EXCEPT ![Wants[cb]] = WithCallback(@, cb)]
  /\ UNCHANGED <<running, consumer, thread, ops, loops, kafka, marks, delivery>>

Publish ==
  /\ logEnd < MaxOffset
  /\ logEnd' = logEnd + 1
  /\ UNCHANGED <<fields, ops, loops, starts, closed, position, committed, marks, delivery>>

\* The loop threads are daemons: the process ends with nothing committed or
\* closed by it, and a new process starts with a new LiveDataSource.
Crash ==
  /\ crashes < MaxCrashes
  /\ crashes' = crashes + 1
  /\ running' = FALSE /\ consumer' = None /\ thread' = None
  /\ callbacks' = [k \in Kinds |-> <<>>]
  /\ op' = [a \in Actors |-> "idle"]
  /\ joining' = [a \in Actors |-> None]
  /\ pc' = [t \in Loops |-> IF t <= starts THEN "exited" ELSE "unborn"]
  /\ cur' = [t \in Loops |-> 1] /\ last' = [t \in Loops |-> 0]
  /\ source' = [t \in Loops |-> None]
  /\ idx' = [t \in Loops |-> 1]
  /\ closed' = 1..starts
  /\ position' = [c \in Loops |-> Unset]
  /\ startFailed' = FALSE /\ stopReturned' = FALSE
  /\ UNCHANGED <<starts, committed, logEnd, abandoned, delivery>>

StartStep ==
  \/ StartCreateFails \/ StartCreate \/ StartSubscribeFails \/ StartSubscribe
  \/ StartRun \/ StartThread \/ StartLaunchFails \/ StartLaunch
StopStep(a) ==
  \/ StopFlag(a) \/ StopNoThread(a) \/ StopJoinRaises(a) \/ StopJoin(a)
  \/ StopJoined(a) \/ StopClose(a)
LoopStep(t) ==
  \/ LoopCheck(t) \/ PollRaises(t) \/ Poll(t, 0) \/ PollBatch(t) \/ BatchDone(t)
  \/ DropMessage(t) \/ TakeMessage(t) \/ FanoutDone(t) \/ Invoke(t)
CallbackEnds(t) == CallbackReturns(t) \/ CallbackRaises(t)

Next ==
  \/ StartCall \/ StartStep
  \/ \E a \in Actors : StopCall(a) \/ StopCallIgnored(a) \/ StopStep(a)
  \/ \E t \in Loops : LoopStep(t) \/ CallbackEnds(t)
  \/ \E a \in Actors, cb \in Callbacks : Register(a, cb)
  \/ Publish
  \/ Crash

Spec == Init /\ [][Next]_vars

\* A record that no poll gets past is in front of the feed's consumer.
Blocked ==
  consumer # None /\ \E o \in Position(consumer) + 1..logEnd : KindOf[o] = Undecodable
PollUnblocked(t) == PollBatch(t) /\ ~Blocked

\* A started call of start() or stop() goes on, and so does a loop thread; a
\* loop that polls again and again gets the messages there are in the end,
\* unless it is blocked: a fetch is decoded as a whole, so that even messages
\* before the undecodable one may not come.  Nothing is said about how long a
\* callback takes.
Fairness ==
  /\ WF_vars(StartStep)
  /\ \A a \in Actors : WF_vars(StopStep(a))
  /\ \A t \in Loops : WF_vars(LoopStep(t)) /\ SF_vars(PollUnblocked(t))
FairSpec == Spec /\ Fairness

\* Callbacks that end: assumed by the properties that name it.
CallbackFairness == \A t \in Loops : WF_vars(CallbackEnds(t))

-----------------------------------------------------------------------------
(* Properties.                                                              *)

\* Unless a stop() gave up on a thread, at most one thread runs
\* _consume_loop(), however start(), stop() and callbacks interleave and
\* whichever of their steps fail.
SingleLoop == abandoned = {} => \A t, u \in Loops : Live(t) /\ Live(u) => t = u

\* The offset the group commits, by a poll or by close(), never covers a
\* message whose fan-out is not over, counting from the group's first position
\* (baseline): once an offset was committed, a crash loses no message.  Before
\* that it may: the next consumer begins at the end of the log.
CommitBehindDelivery ==
  abandoned = {} => \A o \in Offsets : baseline < o /\ o <= committed => o \in handled

\* While the loop walks the callbacks of a message, those it has passed are
\* the ones it called with this message, also when a callback registers
\* another in the middle of the walk.
FanoutComplete ==
  abandoned = {} =>
    \A t \in Loops : pc[t] \in {"fan", "callback"} =>
      \A i \in 1..(idx[t] - 1) : lastSeen[Fanout(t)[i]] = <<source[t], cur[t]>>

\* Once stop() is back in the user's thread, no loop is alive and every
\* consumer was closed, unless a stop() gave up on its thread or a start()
\* had raised.
CleanStop ==
  stopReturned /\ abandoned = {} /\ ~startFailed =>
    /\ \A t \in Loops : ~Live(t)
    /\ consumer = None
    /\ closed = 1..starts

\* The consumer that reads the log, from its first poll until it is closed,
\* and the message before the one the loop is at.
Reader == IF consumer # None /\ position[consumer] # Unset THEN consumer ELSE None
InHand(t) == pc[t] \in {"batch", "fan", "callback"}
Past ==
  IF Reader = None THEN 0
  ELSE IF \E t \in Loops : InHand(t) THEN cur[CHOOSE t \in Loops : InHand(t)] - 1
  ELSE position[Reader]
Calling == {Fanout(t)[idx[t]] : t \in {u \in Loops : pc[u] = "callback"}}

\* The feed keeps what Feed promises, through starts that fail, stops, polls and
\* callbacks that raise, and crashes: from one consumer a callback gets messages
\* in the order of the log and none twice, also when one raised; the next
\* consumer goes on from what was committed, and that is done with.
Promised == INSTANCE Feed
  WITH Readers <- Loops, reader <- Reader, past <- Past, seen <- lastSeen,
       calling <- Calling, gaveUp <- abandoned # {}
KeepsPromises == Promised!Spec

\* stop() returns (or raises) even when a callback never ends: the join has
\* a timeout.
StopReturns == op[Main] \in {"stop_flag", "stop_join", "stop_wait", "stop_close"} ~> op[Main] = "idle"

\* When callbacks end, a loop thread ends too unless the feed runs again, the
\* abandoned ones included.
LoopsEnd ==
  CallbackFairness => \A t \in Loops : (Live(t) /\ ~running) ~> (~Live(t) \/ running)

\* Message o is past the position of a feed that is up.
Due(o) == running /\ abandoned = {} /\ consumer # None /\ op[Main] = "idle"
          /\ ~startFailed /\ position[consumer] \in 0..(o - 1) /\ o <= logEnd

\* A message that is due is handled in the end, though callbacks raise and polls
\* fail again and again, unless the feed is stopped or comes to be blocked by a
\* record that is no JSON, which no handler ever sees and no poll gets past.
Delivers ==
  CallbackFairness =>
    \A o \in Offsets : Due(o) ~> (o \in handled \/ ~running \/ abandoned # {} \/ Blocked)

\* live.py:216, "Stop consuming messages and close the consumer.": once stop()
\* is back and every loop thread has ended, no consumer is left open.
StopCloses == stopReturned /\ (\A t \in Loops : ~Live(t)) => closed = 1..starts

-----------------------------------------------------------------------------
(* The inductive invariants the proofs use: the four parts up to DeliveryInv *)
(* say what stop() can rely on when it comes to join and to close, and what  *)
(* is handled; ReaderInv, NewerInv and SeenInv are what the implementation   *)
(* of Feed needs besides, WalkInv is for the fan-out.                        *)

StartStates == {"start_create", "start_subscribe", "start_run", "start_thread", "start_launch"}
StopStates == {"stop_flag", "stop_join", "stop_wait", "stop_close"}
NoLoop == \A t \in Loops : ~Live(t)

\* What each control point knows of the values it uses next.
ControlInv ==
  /\ op[Main] \in StartStates => starts \in Loops
  /\ \A x \in Actors : op[x] = "stop_wait" => joining[x] \in Loops
  /\ \A t \in Loops : pc[t] \in {"fan", "callback"} =>
       cur[t] <= last[t] /\ KindOf[cur[t]] \in Kinds

\* The thread field names the live loop, and Main passes the points where it
\* is overwritten or cleared only when there is none.
LoopInv == abandoned = {} =>
  /\ \A t \in Loops : Live(t) => thread = t
  /\ \A t \in Loops : op[t] \in {"idle", "stop_flag"}
  /\ op[Main] \in StartStates \cup {"stop_close"} => NoLoop
  /\ op[Main] = "idle" /\ ~running => NoLoop
  /\ op[Main] \in {"start_create", "start_subscribe", "start_run",
                   "stop_join", "stop_wait", "stop_close"} => ~running
  /\ op[Main] \in {"start_thread", "start_launch"} => running
  /\ op[Main] = "stop_wait" => joining[Main] = thread

\* The consumer field holds the only consumer that is open.
ConsumerInv == abandoned = {} /\ ~startFailed =>
  /\ stopReturned => op[Main] = "idle" /\ ~running
  /\ op[Main] = "idle" /\ ~running => consumer = None /\ closed = 1..starts
  /\ op[Main] = "start_create" => consumer = None /\ closed = 1..(starts - 1)
  /\ op[Main] \in (StartStates \ {"start_create"}) \cup StopStates \/ running =>
       consumer = starts /\ starts \in Loops /\ closed = 1..(starts - 1)
  /\ \A t \in Loops : pc[t] = "new" => op[Main] = "start_launch" /\ thread = t

InBatch(o) == \E t \in Loops :
  pc[t] \in {"batch", "fan", "callback"} /\ cur[t] <= o /\ o <= last[t]

\* A message a consumer has moved past is handled or in the batch in hand.
DeliveryInv ==
  /\ \A c \in Loops : position[c] <= logEnd
  /\ abandoned = {} =>
       /\ CommitBehindDelivery
       /\ \A c \in Loops, o \in Offsets :
            baseline < o /\ o <= position[c] => o \in handled \/ InBatch(o)

Fresh == \A c \in Loops : position[c] = Unset

\* The consumer that reads is the one in the field, and the batch in hand is
\* its latest.  What a start() finds has read nothing, or is closed.
ReaderInv == abandoned = {} =>
  /\ \A c \in Loops : position[c] # Unset => c = consumer
  /\ consumer <= starts
  /\ op[Main] \in StartStates => Fresh
  /\ op[Main] = "idle" /\ ~running => Fresh
  /\ thread # None /\ pc[thread] = "new" => Fresh
  /\ \A t \in Loops : InHand(t) =>
       /\ Reader # None /\ source[t] = Reader
       /\ last[t] = position[Reader] /\ cur[t] <= last[t] + 1

\* Callback cb is one of those that loop t has called with its message.
Passed(t, cb) ==
  /\ pc[t] \in {"fan", "callback"}
  /\ \E i \in DOMAIN Fanout(t) :
       /\ i < idx[t] \/ (i = idx[t] /\ pc[t] = "callback")
       /\ Fanout(t)[i] = cb

\* No callback has seen a message of a consumer that is still to read.
NewerInv == abandoned = {} => \A cb \in Callbacks :
  /\ lastSeen[cb][1] <= starts
  /\ op[Main] = "start_create" => lastSeen[cb][1] < starts
  /\ consumer # None => lastSeen[cb][1] <= consumer
  /\ consumer # None /\ Reader = None => lastSeen[cb][1] < consumer

\* Nor one the reader has still to pass on, except the message in hand, which
\* those have seen that the loop has called with it.
SeenInv == abandoned = {} =>
  /\ \A cb \in Callbacks : Reader # None /\ lastSeen[cb][1] = Reader =>
       \/ lastSeen[cb][2] <= Past
       \/ \E t \in Loops : Passed(t, cb) /\ lastSeen[cb][2] = cur[t]
  /\ \A k \in Kinds : Distinct(callbacks[k])
  /\ \A t \in Loops : pc[t] = "callback" => idx[t] <= Len(Fanout(t))

\* The places of the list the loop has called.  They hold what FanoutComplete
\* says, and each fan-out begins at the first.
Walked(t) == 1..(IF pc[t] = "callback" THEN idx[t] ELSE idx[t] - 1)
WalkInv == abandoned = {} => \A t \in Loops :
  IF pc[t] \in {"fan", "callback"}
  THEN \A i \in Walked(t) :
         i \in DOMAIN Fanout(t) /\ lastSeen[Fanout(t)[i]] = <<source[t], cur[t]>>
  ELSE idx[t] = 1
=============================================================================
