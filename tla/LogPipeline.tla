---------------------------- MODULE LogPipeline ----------------------------
(***************************************************************************)
(* The logging SDK (utils/log/logger.py): the global logger that init_*()   *)
(* sets and close() closes and clears, the threads that log through it, and *)
(* the Kafka backend of a logger, a bounded queue with a worker thread.     *)
(*                                                                          *)
(* A log function reads _default_logger twice without a lock, writes the    *)
(* file under the logger's lock (one step) and then puts the entry in the   *)
(* queue; init_*() and close() hold _logger_lock.  All thirteen log         *)
(* functions differ in the fields of the entry only.  A logger that was     *)
(* made with types= may have no file for an entry, of its type or ROOT:     *)
(* Fileless says which.  Which file it is otherwise is not modelled.        *)
(***************************************************************************)
EXTENDS Integers, SequencesExt

CONSTANTS
  Writers,      \* threads that log
  Controllers,  \* threads that initialise and close
  MaxCalls,     \* bound: log calls of a writer
  MaxLoggers,   \* bound: init calls
  Capacity,     \* buffer_size of the queue
  Fileless,     \* loggers with the entries they have no file for
  DisksFail,    \* may opening or writing a file fail?
  BrokersFail   \* may a call of the Kafka client raise?

ASSUME LogBounds ==
  /\ MaxCalls \in Nat /\ MaxLoggers \in Nat /\ Capacity \in Nat \ {0}
  /\ DisksFail \in BOOLEAN /\ BrokersFail \in BOOLEAN

None == 0
ASSUME NoneAssumption == None \notin Controllers
Loggers == 1..MaxLoggers
Entries == Writers \X (1..MaxCalls)
ASSUME FilelessAssumption == Fileless \subseteq Loggers \X Entries

VARIABLES
  logger,   \* _default_logger
  lock,     \* who holds _logger_lock
  made,     \* loggers made or about to be
  \* each logger: its files, its queue, its done event, its worker and what
  \* that has in hand, is its producer open, what the producer took
  files, queue, done, worker, hand, producing, sent,
  \* each controller: where it is, and the logger it makes or closes
  cpc, mine,
  \* each writer: where it is, the logger it is in, its calls so far
  wpc, target, calls,
  \* history: what the file of a logger holds, what was put before done was
  \* set, loggers that another replaced, ones that nobody has to close any
  \* more: never finished, or closed with a flush() that raised
  filed, owed, replaced, orphans

backend == <<queue, done, worker, hand, producing, sent, owed>>
control == <<cpc, mine>>
writing == <<wpc, target, calls>>
global == <<logger, lock, made, replaced, orphans>>
vars == <<global, files, filed, backend, control, writing>>

FilesOK == files \in [Loggers -> {"none", "open", "closed"}]
BackendOK ==
  /\ queue \in [Loggers -> Seq(Entries)] /\ \A l \in Loggers : Len(queue[l]) <= Capacity
  /\ worker \in [Loggers -> {"none", "check", "get", "send", "exited"}]
  /\ hand \in [Loggers -> Seq(Entries)] /\ \A l \in Loggers : Len(hand[l]) <= 1
  /\ sent \in [Loggers -> Seq(Entries)]
FlagsOK ==
  /\ done \in [Loggers -> BOOLEAN] /\ producing \in [Loggers -> BOOLEAN]
ControlOK ==
  /\ cpc \in [Controllers -> {"idle", "make", "return", "close", "files", "done", "join", "flush"}]
  /\ mine \in [Controllers -> Loggers \cup {None}]
WritingOK ==
  /\ wpc \in [Writers -> {"idle", "use", "file", "put"}]
  /\ target \in [Writers -> Loggers \cup {None}]
  /\ calls \in [Writers -> 0..MaxCalls]
GlobalOK ==
  /\ logger \in Loggers \cup {None} /\ lock \in Controllers \cup {None}
  /\ made \in 0..MaxLoggers
  /\ replaced \subseteq Loggers /\ orphans \subseteq Loggers
HistoryOK == filed \in [Loggers -> SUBSET Entries] /\ owed \in [Loggers -> SUBSET Entries]
TypeOK == FilesOK /\ BackendOK /\ FlagsOK /\ ControlOK /\ WritingOK /\ GlobalOK /\ HistoryOK

Init ==
  /\ logger = None /\ lock = None /\ made = 0
  /\ files = [l \in Loggers |-> "none"]
  /\ queue = [l \in Loggers |-> <<>>]
  /\ done = [l \in Loggers |-> FALSE]
  /\ worker = [l \in Loggers |-> "none"]
  /\ hand = [l \in Loggers |-> <<>>]
  /\ producing = [l \in Loggers |-> FALSE]
  /\ sent = [l \in Loggers |-> <<>>]
  /\ cpc = [c \in Controllers |-> "idle"] /\ mine = [c \in Controllers |-> None]
  /\ wpc = [w \in Writers |-> "idle"] /\ target = [w \in Writers |-> None]
  /\ calls = [w \in Writers |-> 0]
  /\ filed = [l \in Loggers |-> {}] /\ owed = [l \in Loggers |-> {}]
  /\ replaced = {} /\ orphans = {}

-----------------------------------------------------------------------------
(* init(), init_log(), init_log_with_kafka() and close(), in controller c.  *)

Goto(c, state) == cpc' = [cpc EXCEPT ![c] = state]

\* Mutant: no lock.
NoLock == TRUE
LockFree == lock = None

NewLogger(c) ==
  /\ cpc[c] = "idle"
  /\ made < MaxLoggers
  /\ made' = made + 1

\* init() and init_log() come to the lock.
InitCall(c) ==
  /\ NewLogger(c)
  /\ mine' = [mine EXCEPT ![c] = made + 1]
  /\ Goto(c, "make")
  /\ UNCHANGED <<logger, lock, replaced, orphans, files, filed, backend, writing>>

\* init_log_with_kafka() makes the backend, with its worker, before that.
InitBackend(c) ==
  /\ NewLogger(c)
  /\ mine' = [mine EXCEPT ![c] = made + 1]
  /\ worker' = [worker EXCEPT ![made + 1] = "check"]
  /\ producing' = [producing EXCEPT ![made + 1] = TRUE]
  /\ Goto(c, "make")
  /\ UNCHANGED <<logger, lock, replaced, orphans, files, filed,
                 queue, done, hand, sent, owed, writing>>

\* KafkaProducer(...) raises and nothing catches it: no logger is made.
InitBackendRaises(c) ==
  /\ NewLogger(c)
  /\ BrokersFail
  /\ UNCHANGED <<logger, lock, replaced, orphans, files, filed, backend, control, writing>>

\* Logger(...) and the assignment, under the lock: the logger that was there
\* is not closed.
InitMake(c) ==
  /\ cpc[c] = "make"
  /\ LockFree
  /\ files' = [files EXCEPT ![mine[c]] = "open"]
  /\ logger' = mine[c]
  /\ replaced' = replaced \cup ({logger} \ {None})
  /\ Goto(c, "return")
  /\ UNCHANGED <<lock, made, orphans, filed, backend, mine, writing>>

\* makedirs() or open() raises: a backend made before is nobody's now.
InitMakeRaises(c) ==
  /\ cpc[c] = "make"
  /\ LockFree
  /\ DisksFail
  /\ orphans' = orphans \cup {mine[c]}
  /\ Goto(c, "idle")
  /\ UNCHANGED <<logger, lock, made, replaced, files, filed, backend, mine, writing>>

\* `return _default_logger`, after the lock was released.
InitReturns(c) ==
  /\ cpc[c] = "return"
  /\ Goto(c, "idle")
  /\ UNCHANGED <<global, files, filed, backend, mine, writing>>

CloseCall(c) ==
  /\ cpc[c] = "idle"
  /\ Goto(c, "close")
  /\ UNCHANGED <<global, files, filed, backend, mine, writing>>

CloseNothing(c) ==
  /\ cpc[c] = "close"
  /\ LockFree
  /\ logger = None
  /\ Goto(c, "idle")
  /\ UNCHANGED <<logger, lock, made, replaced, orphans, files, filed, backend, mine, writing>>

\* close() keeps the lock until the logger is closed and cleared.
CloseLocked(c) ==
  /\ cpc[c] = "close"
  /\ LockFree
  /\ logger # None
  /\ lock' = c
  /\ mine' = [mine EXCEPT ![c] = logger]
  /\ Goto(c, "files")
  /\ UNCHANGED <<logger, made, replaced, orphans, files, filed, backend, writing>>

\* Logger.close(), called on a logger that init returned.
CloseDirectly(c, l) ==
  /\ cpc[c] = "idle"
  /\ files[l] # "none"
  /\ mine' = [mine EXCEPT ![c] = l]
  /\ Goto(c, "files")
  /\ UNCHANGED <<global, files, filed, backend, writing>>

\* Closes and forgets the files, under the logger's own lock.
CloseFiles(c) ==
  /\ cpc[c] = "files"
  /\ files' = [files EXCEPT ![mine[c]] = "closed"]
  /\ Goto(c, IF worker[mine[c]] = "none" THEN "flush" ELSE "done")
  /\ UNCHANGED <<global, filed, backend, mine, writing>>

SetDone(c) ==
  /\ cpc[c] = "done"
  /\ done' = [done EXCEPT ![mine[c]] = TRUE]
  /\ Goto(c, "join")
  /\ UNCHANGED <<global, files, filed, queue, worker, hand, producing, sent, owed, mine, writing>>

JoinOver(c) == worker[mine[c]] = "exited"
\* Mutant: join() without a timeout.
JoinForever(c) == FALSE
JoinTimesOut(c) == worker[mine[c]] # "exited"

Joined(c) ==
  /\ cpc[c] = "join"
  /\ JoinOver(c) \/ JoinTimesOut(c)
  /\ Goto(c, "flush")
  /\ UNCHANGED <<global, files, filed, backend, mine, writing>>

\* Either way the module's close() clears the global and releases the lock:
\* the backend's close() raises nothing.
Release(c) ==
  /\ logger' = IF lock = c THEN None ELSE logger
  /\ lock' = IF lock = c THEN None ELSE lock
  /\ Goto(c, "idle")

\* The producer is flushed and closed.
CloseDone(c) ==
  /\ cpc[c] = "flush"
  /\ producing' = [producing EXCEPT ![mine[c]] = FALSE]
  /\ Release(c)
  /\ UNCHANGED <<made, replaced, orphans, files, filed, queue, done, worker, hand,
                 sent, owed, mine, writing>>

\* flush(timeout=5) raises, as it does when the broker hangs: the producer is
\* not closed, and the exception goes no further.
FlushRaises(c) ==
  /\ cpc[c] = "flush"
  /\ BrokersFail
  /\ producing[mine[c]]
  /\ orphans' = orphans \cup {mine[c]}
  /\ Release(c)
  /\ UNCHANGED <<made, replaced, files, filed, backend, mine, writing>>

-----------------------------------------------------------------------------
(* A log function, Logger._write_entry() and _KafkaBackend.send(), in       *)
(* writer w.                                                                *)

At(w, state) == wpc' = [wpc EXCEPT ![w] = state]
Entry(w) == <<w, calls[w]>>

\* `if _default_logger`: without a logger the entry is dropped.
LogCall(w) ==
  /\ wpc[w] = "idle"
  /\ calls[w] < MaxCalls
  /\ calls' = [calls EXCEPT ![w] = @ + 1]
  /\ At(w, IF logger = None THEN "idle" ELSE "use")
  /\ UNCHANGED <<global, files, filed, backend, control, target>>

\* The second read: close() may have cleared it, and the call raises
\* AttributeError; init may have put another logger there.
LogUse(w) ==
  /\ wpc[w] = "use"
  /\ target' = [target EXCEPT ![w] = logger]
  /\ At(w, IF logger = None THEN "idle" ELSE "file")
  /\ UNCHANGED <<global, files, filed, backend, control, calls>>

\* The logger's files are open, and one of them is for this entry.
HasFile(w) == files[target[w]] = "open" /\ <<target[w], Entry(w)>> \notin Fileless

\* Without a file for it the entry goes to Kafka alone.
WriteFile(w) ==
  /\ wpc[w] = "file"
  /\ filed' = IF HasFile(w)
                THEN [filed EXCEPT ![target[w]] = @ \cup {Entry(w)}] ELSE filed
  /\ At(w, IF worker[target[w]] = "none" THEN "idle" ELSE "put")
  /\ UNCHANGED <<global, files, backend, control, target, calls>>

\* Mutant: the error swallowed, as those of Kafka are.
FileErrorSwallowed(w) == IF worker[target[w]] = "none" THEN "idle" ELSE "put"
AfterFileError(w) == "idle"

\* write() or flush() raises, and the caller of the log function sees it.
WriteFileRaises(w) ==
  /\ wpc[w] = "file"
  /\ DisksFail
  /\ HasFile(w)
  /\ At(w, AfterFileError(w))
  /\ UNCHANGED <<global, files, filed, backend, control, target, calls>>

HasRoom(w) == Len(queue[target[w]]) < Capacity

Put(w) ==
  /\ wpc[w] = "put"
  /\ HasRoom(w)
  /\ queue' = [queue EXCEPT ![target[w]] = Append(@, Entry(w))]
  /\ owed' = IF done[target[w]] THEN owed
             ELSE [owed EXCEPT ![target[w]] = @ \cup {Entry(w)}]
  /\ At(w, "idle")
  /\ UNCHANGED <<global, files, filed, done, worker, hand, producing, sent, control, target, calls>>

\* Mutant: put() that waits for room.
NeverDrops(w) == FALSE
Drops(w) == ~HasRoom(w)

\* put_nowait() raises Full, and the entry is dropped.
PutFull(w) ==
  /\ wpc[w] = "put"
  /\ Drops(w)
  /\ At(w, "idle")
  /\ UNCHANGED <<global, files, filed, backend, control, target, calls>>

-----------------------------------------------------------------------------
(* _KafkaBackend._worker(), of logger l.                                    *)

WorkerAt(l, state) == worker' = [worker EXCEPT ![l] = state]

\* Mutant: while not self._done.is_set().
GoesOnUntilDone(l) == ~done[l]
GoesOn(l) == ~done[l] \/ queue[l] # <<>>

WorkerCheck(l) ==
  /\ worker[l] = "check"
  /\ WorkerAt(l, IF GoesOn(l) THEN "get" ELSE "exited")
  /\ UNCHANGED <<global, files, filed, queue, done, hand, producing, sent, owed, control, writing>>

WorkerGet(l) ==
  /\ worker[l] = "get"
  /\ queue[l] # <<>>
  /\ hand' = [hand EXCEPT ![l] = <<Head(queue[l])>>]
  /\ queue' = [queue EXCEPT ![l] = Tail(@)]
  /\ WorkerAt(l, "send")
  /\ UNCHANGED <<global, files, filed, done, producing, sent, owed, control, writing>>

\* Mutant: queue.Empty leaves the loop.
EmptyEndsWorker == "exited"
AfterEmpty == "check"

\* get(timeout=0.1) raises Empty.
WorkerEmpty(l) ==
  /\ worker[l] = "get"
  /\ queue[l] = <<>>
  /\ WorkerAt(l, AfterEmpty)
  /\ UNCHANGED <<global, files, filed, queue, done, hand, producing, sent, owed, control, writing>>

WorkerSend(l) ==
  /\ worker[l] = "send"
  /\ producing[l]
  /\ sent' = [sent EXCEPT ![l] = @ \o hand[l]]
  /\ hand' = [hand EXCEPT ![l] = <<>>]
  /\ WorkerAt(l, "check")
  /\ UNCHANGED <<global, files, filed, queue, done, producing, owed, control, writing>>

\* Mutant: what could not be sent goes back into the queue.
Requeued(l) == queue[l] \o hand[l]
AfterSendError(l) == queue[l]

\* send() raises, for a reason of its own or since close() has closed the
\* producer: the entry is lost.
WorkerSendRaises(l) ==
  /\ worker[l] = "send"
  /\ BrokersFail \/ ~producing[l]
  /\ queue' = [queue EXCEPT ![l] = AfterSendError(l)]
  /\ hand' = [hand EXCEPT ![l] = <<>>]
  /\ WorkerAt(l, "check")
  /\ UNCHANGED <<global, files, filed, done, producing, sent, owed, control, writing>>

-----------------------------------------------------------------------------
CloseStep(c) ==
  \/ CloseNothing(c) \/ CloseLocked(c) \/ CloseFiles(c) \/ SetDone(c) \/ Joined(c)
  \/ CloseDone(c) \/ FlushRaises(c)
InitStep(c) == InitMake(c) \/ InitMakeRaises(c) \/ InitReturns(c)
ControlCall(c) ==
  \/ InitCall(c) \/ InitBackend(c) \/ InitBackendRaises(c) \/ CloseCall(c)
  \/ \E l \in Loggers : CloseDirectly(c, l)
WriteStep(w) == LogUse(w) \/ WriteFile(w) \/ WriteFileRaises(w) \/ Put(w) \/ PutFull(w)
WorkerStep(l) ==
  \/ WorkerCheck(l) \/ WorkerGet(l) \/ WorkerEmpty(l) \/ WorkerSend(l) \/ WorkerSendRaises(l)

Next ==
  \/ \E c \in Controllers : ControlCall(c) \/ InitStep(c) \/ CloseStep(c)
  \/ \E w \in Writers : LogCall(w) \/ WriteStep(w)
  \/ \E l \in Loggers : WorkerStep(l)

Spec == Init /\ [][Next]_vars

\* A call that was made goes on; nothing is said about the workers, which may
\* hang in a send().
CallFairness ==
  /\ \A c \in Controllers : WF_vars(InitStep(c)) /\ WF_vars(CloseStep(c))
  /\ \A w \in Writers : WF_vars(WriteStep(w))
CallSpec == Spec /\ CallFairness

\* Workers that go on as well, since a send() returns or raises: assumed by
\* the property that names it.
WorkerFairness == \A l \in Loggers : WF_vars(WorkerStep(l))

-----------------------------------------------------------------------------
(* Properties.                                                              *)

\* While a logger's files are open, whatever is on its way to Kafka or there
\* already is in the file too, unless the logger has no file for it: a write
\* that fails sends nothing.
WithoutFile(l) == {e \in Entries : <<l, e>> \in Fileless}
FileFirst ==
  \A l \in Loggers : files[l] = "open" =>
    ToSet(queue[l]) \cup ToSet(hand[l]) \cup ToSet(sent[l]) \subseteq filed[l] \cup WithoutFile(l)

\* What was in the queue when close() set the done event has left it when
\* the worker ends; only an entry put later can stay behind.
NothingLeftBehind ==
  \A l \in Loggers : worker[l] = "exited" => ToSet(queue[l]) \cap owed[l] = {}

\* Kafka gets the entries of one writer in the order it logged them, and no
\* entry twice, whatever send() calls fail.
SentInOrder ==
  \A l \in Loggers : \A i, j \in DOMAIN sent[l] :
    i < j /\ sent[l][i][1] = sent[l][j][1] => sent[l][i][2] < sent[l][j][2]

\* The backend of each logger is a lossy queue: an entry it takes waits for its
\* turn, in the queue and then in the worker's hand, and goes to Kafka or is
\* lost; close(), a join that times out and failing sends change nothing in that.
InTransit == [l \in Loggers |-> hand[l] \o queue[l]]
Backend == INSTANCE LossyQueue
  WITH Queues <- Loggers, Items <- Entries, pending <- InTransit, delivered <- sent
BackendIsLossyQueue == Backend!Spec

\* A logger with open files is the global one or one that an init call
\* replaced.  One with an open producer may also be in the making, given up by
\* its maker, or closed but for the producer, whose flush() raised.  No race of
\* close() and init calls loses another.
InTheMaking(l) == \E c \in Controllers : mine[c] = l /\ cpc[c] = "make"
NoLeak ==
  \A l \in Loggers :
    /\ files[l] = "open" => l = logger \/ l \in replaced
    /\ producing[l] => l = logger \/ l \in replaced \cup orphans \/ InTheMaking(l)

\* A log call comes back even if no worker takes a step any more: with a hung
\* broker the queue fills and entries are dropped.  close() comes back even if
\* the worker hangs in a send(): the join has a timeout.
CallsReturn ==
  /\ \A w \in Writers : wpc[w] # "idle" ~> wpc[w] = "idle"
  /\ \A c \in Controllers : cpc[c] = "close" ~> cpc[c] = "idle"

\* With workers that go on, an entry put before close() leaves the queue,
\* whether the logger is in use or closed by now.
Drains ==
  WorkerFairness =>
    \A l \in Loggers, e \in Entries : e \in owed[l] ~> e \notin ToSet(queue[l])

-----------------------------------------------------------------------------
(* The inductive invariant the proofs use.                                  *)

Closing(c) == cpc[c] \in {"files", "done", "join", "flush"}

\* A logger that is being made is its maker's alone, and has no files yet.
MakersInv ==
  /\ \A c \in Controllers : cpc[c] = "make" =>
       mine[c] \in 1..made /\ files[mine[c]] = "none"
  /\ \A c, d \in Controllers : cpc[c] = "make" /\ cpc[d] = "make" /\ mine[c] = mine[d] => c = d
  /\ \A l \in Loggers : l > made => files[l] = "none" /\ worker[l] = "none" /\ ~producing[l]
  /\ \A l \in Loggers : worker[l] = "none" => ~producing[l]

\* Who closes has a logger with files, closed from the second step on; who
\* holds the lock closes the global one.
LockInv ==
  /\ logger # None => files[logger] # "none"
  /\ \A c \in Controllers : Closing(c) =>
       /\ mine[c] \in Loggers /\ files[mine[c]] # "none"
       /\ cpc[c] # "files" => files[mine[c]] # "open"
  /\ lock # None => Closing(lock) /\ mine[lock] = logger

\* A worker ends after done is set, and a writer's next entry is not in the
\* books yet.
OwedInv ==
  /\ \A l \in Loggers : worker[l] = "exited" => done[l]
  /\ \A l \in Loggers, e \in Entries : e \in owed[l] =>
       e[2] <= calls[e[1]] /\ (wpc[e[1]] # "idle" => e[2] < calls[e[1]])
  /\ \A w \in Writers : wpc[w] \in {"file", "put"} =>
       target[w] \in Loggers /\ files[target[w]] # "none"
  /\ \A w \in Writers : wpc[w] # "idle" => calls[w] > 0

\* A logger without files has no entry, and what a writer is about to put is
\* in the file.
FiledInv ==
  /\ \A l \in Loggers : files[l] = "none" => queue[l] = <<>> /\ hand[l] = <<>> /\ sent[l] = <<>>
  /\ \A w \in Writers : wpc[w] = "put" /\ files[target[w]] = "open" =>
       Entry(w) \in filed[target[w]] \/ <<target[w], Entry(w)>> \in Fileless

IInv ==
  /\ TypeOK /\ MakersInv /\ LockInv /\ OwedInv /\ FiledInv
  /\ NoLeak /\ NothingLeftBehind /\ FileFirst
=============================================================================
