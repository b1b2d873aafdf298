# Verification of strategy-library

TLA+ models of the Hushine strategy library (Python), checked with TLC, and
proofs about them checked with TLAPS. Paths such as `market_data/live.py` are
relative to the repository's root (`src/` in `PROJECT.json`).

## The system

The library is linked into strategy processes. It has no server of its own:
concurrency comes from the threads it starts (the consume loop of a live feed,
the worker of the Kafka log backend), from the callbacks it runs, and from the
user's threads that call it.

| Component | State | Operations | What is hard | What makes it correct |
|---|---|---|---|---|
| Live feed, `market_data/live.py` | `_running`, `_consumer`, `_thread`, callback lists; offsets in Kafka | `start`, `stop`, `on_*`, the consume loop | two threads, no lock; `join` with a timeout; callbacks that raise, never end, register callbacks or call `stop`; half-done `start`; crashes | one loop at most; complete fan-outs, in order; nothing committed is unhandled; a clean `stop`; loops that end, messages that are handled |
| Logging, `utils/log/logger.py` | the global logger, its files, a bounded queue, a worker, a producer | `init*`, `close`, thirteen log functions, `Logger.close` | a global read twice without a lock; `close` against `init`; a full queue; a worker that hangs; failing disks and brokers | no logger lost; files before Kafka; order; nothing left in the queue; calls that return |
| Replay, `hushine_strategy/replay/engine.py` | counters, the input view | `run_replay` | arbitrary strategies; refused ticks and orders; several runs on one wallet | no look-ahead and nothing stale; positions and counters explained by the orders |
| Inputs, `hushine_strategy/inputs.py` | the values of the view | `update`, lookups, parsing | keys normalised in several places | one key per stream |
| Futures wallet, `hushine_strategy/wallet/futures.py` | mark prices, positions | `update_mark_price`, `fill_order` | reducing, closing and flipping fills of both signs | net quantity and average entry price |
| Backtest source, `market_data/backtest.py` | a connection per database | `get_klines` and others (generators), `has_kline_coverage`, `close` | year-sharded databases; windows cut at year boundaries; suspended generators; aborted connections | each bar once, in order; coverage exactly when complete |
| Subscription, `market_data/config.py` | none (immutable) | topics, `matches` | normalisation (`1M` and `1m`) | a declared stream is subscribed and let through, nothing else |
| Kafka consumer middleware, `utils/middleware/kafka/consumer.py` | pending messages | `poll`, `next_message`, iteration, `close` | two ways to read one consumer; a commit that goes past what is pending; crashes and restarts | no record dropped, doubled or out of order; one entry each; only a commit past the owner loses one |
| HTTP server middleware, `utils/middleware/http/server.py` | per request: id, span, status seen | `__call__` | applications that raise before or after they answer, are cancelled, or go on in a worker thread; a client that is gone | an access entry with the status sent; one answer; the request's id and span in all it does |
| gRPC client, HTTP, WebSocket and SQL clients, Kafka producer, `utils/middleware/*/` | per call: span, headers | `__call__`, `request`, `connect`, `send`, `execute` | a second call after `TypeError`; shared headers; spans that do not start or are lost; calls and log calls that raise | one log call for each call, the id of its request, spans that nest and end |
| gRPC interceptors, session context | context variables | wrap calls, set and restore ids | ids left in pooled threads; nested sessions; calls that end in another thread; handlers that raise | a thread carries the id and the span of what it is inside of, and nothing afterwards; one entry and one end of a span for each RPC and call |
| Validator, types, models, indicators, tracer | none | pure functions | | left to unit tests |

How they interact: the live feed polls a Kafka consumer through the consumer
middleware, which logs each record through a `Logger`; the middleware of every
kind logs through a `Logger` and takes session ids from the context; a replay
drives a strategy with an input view and a wallet. The sources of market data
know nothing of strategies: a host program connects the two.

## Modules

| Module | Models | Extends |
|---|---|---|
| `Feed` | what a live feed promises its callbacks, abstractly | |
| `LiveFeed` | `LiveDataSource`, with the Kafka group's offsets | instance of `Feed` |
| `LiveFeed_proof` | its theorems; in a second part, that it implements `Feed` and that a fan-out is complete | `LiveFeed`, `TLAPS` |
| `LiveKlines` | `LiveKlineSubscription`, as operators | |
| `KafkaConsumer` | `KafkaConsumerMiddleware`, with the consumer it wraps and its owner | |
| `KafkaConsumer_proof` | its theorems | `KafkaConsumer`, `TLAPS` |
| `Intake` | from the publisher through subscription, consumer and filter to the callbacks | `KafkaConsumer`, `LiveKlines` |
| `Intake_proof` | its theorems | `Intake`, `KafkaConsumer_proof` |
| `FuturesWallet` | the arithmetic of `fill_order`, as operators | |
| `Replay` | `run_replay` with `InputView` and the wallet | `FuturesWallet` |
| `Replay_proof` | its theorems | `Replay`, `TLAPS` |
| `LogPipeline` | the global logger, `Logger`, `_KafkaBackend` | instance of `LossyQueue` |
| `LossyQueue` | what a Kafka backend promises, abstractly | |
| `LogPipeline_proof` | its theorems; in a second part, that it implements `LossyQueue`, and the order of what Kafka gets | `LogPipeline`, `TLAPS` |
| `Backtest` | `BacktestDataSource`, with the databases it reads | |
| `Backtest_proof` | its theorems | `Backtest`, `TLAPS` |
| `Sessions` | the context of threads: `session()`, `get_session_id()`, the gRPC interceptors | |
| `Sessions_proof` | its theorems | `Sessions`, `TLAPS` |
| `Requests` | `ASGIMiddleware` and the wrapped clients of all kinds, with the context of tasks | |
| `Requests_proof` | its theorems | `Requests`, `TLAPS` |
| `MC*` | instances for TLC: named values, which message is of which kind | the module |

### LiveFeed

`Main` is the user's thread, `t \in Loops` the loop thread the t-th `start()`
made. `running`, `consumer`, `thread`, `callbacks` are the fields of the object;
`op[a]` is where actor `a` is inside `start()` or `stop()`, one step per read or
write of a field; `pc[t]` is where loop thread `t` is in `_consume_loop()` and
`_process_message()`. `cur..last` is the batch in hand, `idx` the place in the
callback list. `position`, `committed` and `logEnd` stand for Kafka.

Every step that can raise has its failing twin: creating, subscribing and
launching in `start()` (`StartCreateFails`, `StartSubscribeFails`,
`StartLaunchFails`), the join in `stop()` (`StopJoinRaises`), the poll
(`PollRaises`), the callback (`CallbackRaises`). A poll can always raise, since
the code treats a consumer that was closed under it the same way as a broker
that is gone.

Simplifications. One partition stands for all topics. A poll is one step, so a
close during a poll is one before or after it. In `stop()`, the test of
`_consumer` and the close are one step. One thread controls the feed: `live.py`
takes no lock, and two concurrent `start()` calls are outside what the class
can be meant for; callbacks call `stop()` and `on_*()` but not `start()`. Each
callback is registered once. A consumer commits the position the last poll
left, at a poll or at a close, or does not. `Discarded` messages are those of
unknown type, JSON without the fields of a model, and klines the subscription filters out:
`_process_message()` drops them. An `Undecodable` record is no JSON. The
`value_deserializer` (`live.py:86`) raises at it inside of `poll()`, which leaves the
position before it, so that every later poll meets it again and the feed is `Blocked`
(`Decodable`, the guard of `Poll`). A consumer that begins at the end of the log, having no
committed offset, begins behind it.

Histories: `abandoned` holds the loop threads a `stop()` gave up on (the join
timed out, or a callback of that thread made the call). Most safety properties
are about histories without one, since the code gives no promise once `stop()`
has gone on without its thread; `LoopsEnd` and the run `LiveClose` are about the
others.

`Feed` is the abstract specification: a log, a group's offset, one `reader` at a time
that is done with the messages up to `past`, the callback that is `calling` and
what each has `seen`. `KeepsPromises` shows that `LiveFeed` implements it: the reader
is the open consumer from its first poll on (`Reader`), `past` the message before
the loop's (`Past`), or the consumer's position between batches. A poll that
auto-commits is a `Commit`, its first one an `Open`, the start of a batch nothing; a
callback that raises is a `PassOn`, and a crash a `Close` that commits nothing.
`Feed` allows what it must: a message whose offset was not committed is read
again by the next reader. Once a thread was given up it promises nothing.

### KafkaConsumer, LiveKlines and Intake

`LiveFeed` has the threads of a feed and one kind of message; `Intake` has one
thread and the data. It composes three parts: a subscription made from the streams
a strategy wants (`LiveKlines`), the consumer middleware subscribed to its topics
(`KafkaConsumer`), and the filter of `_process_message()` (`HandleKline`).

In `KafkaConsumer` a record is named by its partition and offset. `log` and
`committed` are Kafka's; `position` is the wrapped consumer's, `pending` the
middleware's `_pending_messages`, `hand` what the owner was given and has not
handled. The owner reads by `poll()` (`OwnerPolls`) or by a `for` loop
(`NextServes`, `NextPolls`, `NextEnds` are the ways `next_message()` ends), and may mix
them. A poll returns any records that are next, those of a partition in order
(`Sizes`, `Orderings`). It auto-commits the position of before the poll, or does not
(`AutoCommit`); `commit()` and `close()` commit the position, which is beyond what is
pending: those records are then `excused`. Where nothing was ever committed (`NoOffset`), `Start`
begins as `auto_offset_reset` says: under `"earliest"` at the first record; under
`"latest"`, the default (`config.py:345`), past the last one, and what is behind it is `excused`
too (`Behind`). A process that dies before the first commit loses in this way what was
published meanwhile. Nothing else is lost (`AtLeastOnce`). Each start may have another
setting; where to begin is looked up by `Start`, in the library by the first poll.
A `Crash` leaves Kafka's two variables and the histories. `logged` counts the calls of the
logger, whose failures are swallowed. Left out: lag, size,
headers and value of an entry, seeks, rebalancing, records that do not decode (`LiveFeed` has them).

`LiveKlines` has the spellings of symbols, markets, intervals and exchanges as
values, and their normalisations as idempotent functions over them: stripping
and case folding matter only by what they make equal. `1M` and `1m` are equal by
the code (`config.py:40`) and in the instance. A topic is a record, `Absent` one of
another family, whose klines say themselves what they are. Of a list of topics or
markets its set remains.

`DeliveredIfWanted` compares the filter of the code, which goes by the subscription,
with what the streams that were wanted say (`IsWanted`); `WantedArrives` adds
the topics: a wanted kline published where it belongs gets there.

### Replay and FuturesWallet

A strategy is one of `Strategies`, the items it declares in `INPUTS` and
`ORDER_TARGETS`; `Parses` are the checks of the parsers and of `run_replay`. For the
rest it is arbitrary: it may raise while it is loaded (`RunRaises`), and at each
accepted tick it raises, returns nothing, or returns any of `Decisions`; the
ticks are any sequence over `Ticks`. The wallet belongs to the caller and lives
over several runs, of one strategy or of another. `inputs` and `targets` are what
the run in progress declared; `fills` are the orders that were filled. Quantities and prices are
integers, entry prices exact fractions: rounding of floats is not modelled, nor what it leaves
of a position that was closed in parts (0.1 + 0.2 - 0.3 is not 0).
Case is folded in the code wherever a symbol is used and is left out; padding is
not folded everywhere and is modelled by `Strip`. A strategy that fills orders on
the wallet by itself is not modelled, nor is a tick whose price is no number: `float(price)`
(`futures.py:23`) raises after the view was updated and before the wallet is, and the view is
lost with the replay.

### LogPipeline

Loggers are numbered by the init call that makes them. `Writers` log, and
`Controllers` initialise and close; a controller may also close a logger it
holds directly (`CloseDirectly`). The file write is one step since it runs under
the logger's lock; `_logger_lock` is the variable `lock`. `Fileless` names the entries a
logger has no file for: made with `types=` that have neither the type of the entry nor
`ROOT`, it writes no line and goes on to Kafka. Left out: which file a
type goes to otherwise, the fields of an entry, and `session()`,
which is in `Sessions`. `sent` is what the producer accepted; what the broker does with it is outside.

`close()` of the backend flushes for five seconds and swallows what that raises, and with
it skips the producer's `close()` (`FlushRaises`): such a logger leaves the global with its
producer open, and is one of the `orphans`, beside those whose maker raised. `NoLeak` says
that these and the replaced ones are all that is lost, and that files never are by a close.

`LossyQueue` is what the backend promises, in three actions: an item is taken
(`Accept`), and the oldest one is delivered or lost (`Deliver`, `Lose`). The refinement
(`BackendIsLossyQueue`) maps its `pending` to `hand \o queue`, since an entry that
the worker took from the queue and has not sent is still on its way, and its
`delivered` to `sent`. `Put` is then an `Accept`, `WorkerSend` a `Deliver`,
`WorkerSendRaises` a `Lose`, and every other step, `get()` and `close()` among them, leaves
both as they are. The bound is one more than the queue's: the entry in hand.

### Backtest

Time is counted in units and a year has `YearLength` of them. `rows[d]` is what
database `d` holds and `Ingest` adds to it at any time; `conns` is the cache
`_conns`, `health[c]` what became of connection `c`. A generator is idle until
its first row is asked for and suspended between two rows, so that each row
(`Yield`), the query of each year (`Query`), and the end (`Exhausted`) are steps
of their own, and generators, `has_kline_coverage()`, `close()`, failures and
ingestion interleave. An unnamed psycopg2 cursor has all rows of its query in the
client when `execute` returns, so that later rows do not show up in it; it
cannot be read once its connection is closed. A failed statement leaves its connection
aborted: the code never rolls back, so that every later query on it fails until
`close()`. Order books, open interest and funding rates are one kind, `other`, whose WHERE
clauses include the end of the window (`Selects`); klines are the other kind. `_years_in_range`
has the years of a window without its end, for both. So a row of kind `other` at an end that is
the first moment of a year is selected by a clause that no database of its year is ever asked
(`backtest.py:96` beside 272, 316 and 367): `CompleteWhenDone` names this exception
(`NeverAsked`), which the run meets with a window that ends with the second year. No statement of the
repository says which of the two was meant. Left out: table names, the fields
of a row, `_ensure_connection()` and `_partition_table_names()`, which nothing calls.

### Sessions

For each thread, `sid` is the context variable of `log/context.py`, `current` the
current span of OpenTelemetry, and `frames` what the thread is inside of: an
RPC it handles, sessions, and a call it waits for. A frame keeps what the code's
`finally` clauses and `with` statements keep: the id and the span of before. `Serve` is all
that `ServerAccessInterceptor` does up to the handler, `HandlerEnds` all it does
after it, returned or raised; `CallOut` is `ClientExtInterceptor` up to the
continuation, and `LogDone` the done callback, which runs in the caller's thread
(`CallDone`) or the channel's (`FutureDone`, actor `Spinner`). `bare` is the id
that `get_session_id()` made up in a thread outside of sessions; `last` is the
entry or the metadata the last step wrote, beside what the frames say it should
be. A call that is not waited for is in `out` until its callback has run. Where its continuation
raises (`stub.Method.future()` of a message that cannot be serialized, or on a closed channel:
`grpc_interceptors.py:382` has no `try`), no callback is registered, and the call stays there: it gets no
entry, and its span is never ended. `OneEntryEach` names these calls as its exception, and says
of all others that they have one log call and one end. (A call that is waited for has no such path,
since gRPC hands the interceptor a failure as the outcome of the call: `how` of `LogDone`.) What
`OneEntryEach` counts are log calls; one that raises is swallowed
(`grpc_interceptors.py:258` and `469`), and its entry is lost. An id made up is a number, an id received a member of `Incoming`. The mutants of `Restored` and of
`AccessId` are what the code would be without its `finally` clauses, or with the
entry written outside of the session; that of `Injected` is a trace context taken outside of the
call's `use_span()`, and that of `SentId` an id put over the one the caller gave.

A streaming call (`StreamOut`) has metadata with the caller's span, and neither a span
nor an entry of its own; a streaming RPC that is served passes the interceptor by, and
the thread is outside of sessions in it, as `Log` and `OpenSession` are in an idle thread.

Left out: status codes and the texts of an entry; a program's own calls of
`set_session_id()`; baggage, which the server's interceptor extracts and does not attach
(`grpc_interceptors.py:183`). A call whose own span does not start sends no trace context
(`grpc_interceptors.py:377`), though the RPC's span is current: `CallsJoinTrace` says nothing of it.

### Requests

Each request is a task with a context of its own, `<<t, "task">>`; a worker thread the
application waits for (`asyncio.to_thread()`) has a copy, `<<t, "worker">>`, and what it
changes there is lost when it comes back. `sid` and `current` are the session id
and the current span of each context, `phase` where the middleware is in
`__call__`: in the application, in the `finally` clause, done, or gone, when its header, query
string or body could not be read (`NoText`, `Arrive`). `asked` is the status `capture_send` saw, `wire`
what went to the client, `error` what the application raised: an exception with a
message or without (`told`, `silent`), since the middleware asks for the text.

An application starts a response or not, raises, returns, is cancelled, goes to a
worker and comes back, logs, and makes calls; a task that is cancelled, or gives up
waiting and raises, leaves its worker running. The server's `send()` may raise. All wrapped clients are one set of
actions with a `kind`, for they do the same: id, span, the wrapped call, one log call,
the span of before. Every wrapper swallows what its log call raises, and what is raised as
the entry is put together (`http/client.py:121`, `129`): the entry is in `told` or the
call in `unlogged`. Where they differ, an operator says so: which carry the id
(`Carries`), which have a span (`Traced`), which fail when a span does not start (an HTTP
request does, the others go on without: `Stage`), which run again (`RunsAgain`, a stub without
metadata of the caller's), which make no log call (`EntriesFor`, a message the producer refused).
An HTTP request writes the id into the dict of headers it is given; a dict that
requests share is `common`, and calls with it are the exception in
`CarryTheirRequest`.

A stub and a producer enter their span and then call `propagate.inject()`, in one `try`;
if that raises, the `except` drops the span's manager, and nobody leaves the span later
(`grpc/client.py:145`, `kafka/producer.py:60`). What comes of it is up to the interpreter
(`Entered`): CPython counts references, and closes the manager, a generator, as it is dropped,
by which the span ends and is left as if it had not started; elsewhere it stays current and
open, under the name `Left(t)`, and `SpansNest` says nothing of that request's
contexts any more. The middleware of the server has nothing after its `__enter__()` that
could raise (`http/server.py:66`), nor have cursors, and an HTTP client enters by `with`.

`server.py:5` promises an access entry "for every inbound HTTP request". A request whose header
with the id, query string or body cannot be read ends before the `try` and has none, an entry whose
log call raises is swallowed (`server.py:148`), and a header name that is no text raises in
the `finally` clause itself (`server.py:127`, left out). So no property here counts access
entries; `StatusIsSent` is about those there are.

Reading the body is one step, as is the answer of 500 (two messages to the
server); messages of a body are left out. A made-up id is named for the context that
made it, which is enough: a context keeps the first one it made. A request has at most
one call at a time, so that two names of spans suffice for it, and a third for what its
calls left. Left out: status codes and texts of entries other than the status of an access
entry; clients without a logger, whose calls leave no entry at all; an application that goes
on in its task while its worker thread does.

## Runs

| Run | Question | Bounds |
|---|---|---|
| `LiveFeed` | one loop, complete fan-outs, a clean `stop()`, commits behind delivery, an abstract feed implemented | 2 starts that may fail at any step, 3 messages (the second discarded), batches of 2, 2 callbacks, 1 crash |
| `LiveEnds` | does `stop()` return when callbacks may not end, do loops end, are messages handled that no undecodable record blocks? | 2 starts, 2 messages, the second undecodable, 1 callback, which may call `stop()` |
| `LiveClose` (violated) | is the consumer closed after a `stop()` from a callback? | 1 start, 2 messages |
| `Replay` | what the strategy sees, mark prices, counters, positions, entry prices | 2 runs of up to 4 ticks in all, a strategy that trades, one that reads, 3 that are refused; 5 kinds of tick, 7 orders |
| `ReplayPadded` (violated) | are positions in declared targets? | 1 run |
| `LogRace` | are loggers lost when init and close race? | 2 controllers, 2 loggers, 1 writer |
| `LogOrder` | file before Kafka, order, nothing left behind, a lossy queue implemented; do calls return when the worker hangs, are queues emptied when it does not? | 1 writer of 2 calls, the second of a type without a file, 2 controllers, queue of 1, 1 logger |
| `Backtest` | rows in order, once and all; is coverage exact; are connections forgotten? | 3 years of 5 units, bars of 2, windows over both ends of a year, rows at 3 times, 2 connections |
| `Sessions` | ids, spans and entries of RPCs and calls | 2 threads of a pool and the channel's, 2 RPCs, 1 call, 2 made-up ids, 3 spans, RPCs and sessions 3 deep |
| `Intake` | is anything dropped, lost, let through or kept out? do wanted klines arrive? | 3 topics, one of another family; 3 records, 2 in a topic, one kind an error; batches of 2, 2 starts, from the first record or past the last; 2 sets of streams, spelled in two ways |
| `Requests` | answers, log calls, ids and spans of requests and their calls | 2 requests, one without an id, one whose client may go and whose spans may be lost; 2 calls of any of 5 kinds, spans of calls that may fail to start |
| `RequestSpans` (violated) | does the span of a request end? | the same |

Why these bounds are enough. Two starts give a loop that outlives its feed
beside the loop of the next; two messages in a batch give a batch that is cut by
an exception or a stop in the middle, and the third one a poll after a restart;
two callbacks give a fan-out that a raise or a registration meets in the middle.
Two replays with four ticks reach a position that is opened, added to, flipped
and carried over into a run of another strategy. Two calls and a queue of one reach the
full queue with an entry in the worker's hand, and two controllers a close beside
a close; the order of two writers of one queue is that of the queue. A bar of two units goes over the end of the first
year of five and none over that of the second, which are the two cases of a
window that is cut; two connections give one that is replaced after it was lost, and one per
database. Two RPCs in one thread show what the first leaves behind; two frames give a
session in an RPC, or one in another, and a call in that. A batch of two gives a record that is
pending while another is handled; three records and two consumers give one that is
fetched again after a crash, or lost to a commit. Two requests show what one leaves to
the other, by the shared headers, and two calls what a call leaves to the next. The
theorems below lift most of these properties to all values.

Deadlock is checked in all runs but those of `Replay`, `Intake` and `Requests`: replays
end, the consumers and records of a bounded instance run out, and so do requests.

### Fairness

- A call of `start()` or `stop()` goes on, and so does a loop thread between
  callbacks (weak fairness of `StartStep`, `StopStep`, `LoopStep`): threads are
  scheduled, and no step of theirs waits without a timeout.
- `PollUnblocked` is strongly fair: a loop that polls again and again while messages
  are there gets them once, as long as no undecodable record is in front of the consumer.
  Without it, polls might raise for ever. Nothing is assumed of a feed that is blocked,
  not even that it gets what comes before the record, since the client decodes a fetch as a
  whole; `Delivers` makes the exception it must.
- That callbacks end (`CallbackFairness`) is not part of the specification: it is
  an assumption stated in `LoopsEnd` and `Delivers`. `StopReturns` does without, since the
  join has a timeout.
- Log calls, init and close go on (`CallFairness`). That workers go on
  (`WorkerFairness`) is an assumption stated in `Drains`; `CallsReturn` lets them hang.
- The owner of a consumer handles what it has (weak fairness of `HandleKline`). That it reads on,
  by `poll()` as `_consume_loop()` does, or in a `for` loop that it begins again and that serves
  what is pending, that it makes a consumer when it has none, and that polls do not come back
  empty or raise for ever (`Persists`) is an assumption stated in `WantedArrives`: the code ends
  its iteration at the first empty poll, so that without such an owner nothing arrives.
- `Replay`, `Backtest`, `Sessions` and `Requests` promise no progress of their own:
  their steps are the caller's.

### What the violated runs show

1. `LiveClose`: called by a callback, `stop()` clears `_running` and raises
   `RuntimeError` when it joins its own thread; the consumer stays open and every
   later `stop()` returns at its guard.
2. `ReplayPadded`: `engine.py:178` strips the symbol for the check against
   `ORDER_TARGETS`, `futures.py:35` does not strip the one it fills.
3. `RequestSpans`: `server.py:65` activates the span of a request by
   `use_span(_span, end_on_exit=False)`, and nothing ends it.

One more case is in a module and in no run: a database name without `{year}` is allowed, and is
the default (`config.py:23`). With `Sharded = FALSE` every year of the range reads the whole
window from the one database, and `YieldedInOrder` fails in `Backtest`: a window over the
end of a year yields its rows once for each of its years (`backtest.py:149`). The
docstring of the source speaks of databases by year (`backtest.py:25`), and none says what
holds of one database.

## Proofs

TLAPS proves the theorems below for every value of the constants. They assume
only what the modules state: the bounds are natural numbers, a message is of a
known kind, discarded or undecodable (`BoundsAssumption`, `MessageAssumption`), the queue has
room for one entry, what has no file are entries of loggers (`FilelessAssumption`), and `None` is no controller (`LogBounds`, `NoneAssumption`),
the channel's thread is none of the pool's, and an id that was received is none
that was made up (`ContextBounds`, `NamesAssumption`; the ids made up are uuids), the
partitions are finitely many (`ConsumerBounds`), the settings of where to begin are the two of
Kafka (`ResetsAssumption`), normalising twice is normalising once
(`SpellingsAssumption`), and a strategy wants at least one stream (`IntakeAssumption`), years
and intervals are not empty and windows lie in the years that are counted
(`BacktestBounds`, `WindowAssumption`), prices of ticks are positive and a symbol that was
stripped stays as it is (`TickAssumption`, `StripAssumption`). `RowsInOrder` has one
hypothesis more, `Sharded`: without it the property is false, as said above.

| Theorem | Property |
|---|---|
| `LiveFeed_proof!TypeCorrect` | `TypeOK` |
| `LiveFeed_proof!AtMostOneLoop` | `SingleLoop` |
| `LiveFeed_proof!StopIsClean` | `CleanStop` |
| `LiveFeed_proof!CommittedIsHandled` | `CommitBehindDelivery` |
| `LiveFeed_proof!FeedImplemented` | `KeepsPromises` |
| `LiveFeed_proof!WalkIsComplete` | `FanoutComplete` |
| `LogPipeline_proof!TypeCorrect` | `TypeOK` |
| `LogPipeline_proof!LoggersAreKept` | `NoLeak` |
| `LogPipeline_proof!QueueIsEmptied` | `NothingLeftBehind` |
| `LogPipeline_proof!FileComesFirst` | `FileFirst` |
| `LogPipeline_proof!ImplementsLossyQueue` | `BackendIsLossyQueue` |
| `LogPipeline_proof!KafkaGetsInOrder` | `SentInOrder` |
| `Sessions_proof!TypeCorrect` | `TypeOK` |
| `Sessions_proof!ContextKept` | `ContextIsInnermost` |
| `Sessions_proof!EntriesInSession` | `EntriesCarrySession` |
| `Sessions_proof!CallsInTrace` | `CallsJoinTrace` |
| `Sessions_proof!CallSpans` | `CallNamesItsSpan` |
| `Sessions_proof!EntriesWrittenOnce` | `OneEntryEach` |
| `Backtest_proof!TypeCorrect` | `TypeOK` |
| `Backtest_proof!NoConnectionLost` | `OpenIsCached` |
| `Backtest_proof!RowsInOrder` | `YieldedInOrder`, when there is a database for each year |
| `Backtest_proof!NothingMissing` | `CompleteWhenDone` |
| `Backtest_proof!CoverageExact` | `CoverageIsExact` |
| `Replay_proof!TypeCorrect` | `TypeOK` |
| `Replay_proof!CountersRight` | `CountsAreRight` |
| `Replay_proof!LatestSeen` | `LatestIsSeen` |
| `Replay_proof!PositionNet` | `PositionIsNet` |
| `Replay_proof!EntryExplained` | `EntryIsExplained` |
| `KafkaConsumer_proof!ConsumerTypeCorrect` | `ConsumerTypeOK` |
| `KafkaConsumer_proof!NoRecordDropped` | `NothingDropped` |
| `KafkaConsumer_proof!NoRecordLost` | `AtLeastOnce` |
| `Intake_proof!IntakeDropsNothing`, `IntakeLosesNothing` | the same, of `Intake` |
| `Intake_proof!WantedIsDelivered` | `DeliveredIfWanted` |
| `Requests_proof!TypeCorrect` | `TypeOK` |
| `Requests_proof!StatusIsTrue` | `StatusIsSent` |
| `Requests_proof!AnsweredOnce` | `OneAnswer` |
| `Requests_proof!IdsAreCarried` | `CarryTheirRequest` |
| `Requests_proof!CallsAreLogged` | `CalledOnce` |
| `Requests_proof!SpansAreNested` | `SpansNest` |

Hardly one of these properties is inductive; each component has an inductive
invariant, whose parts say what the code relies on between two steps.

In `LiveFeed`:

- `ControlInv`: what a control point knows of the values its next step uses.
- `LoopInv`: unless a thread was given up, the live loop is the one the thread
  field names, and `start()` reaches the line that overwrites the field only
  when there is none. `SingleLoop` follows. It must speak of every point inside
  `start()` and `stop()`, since one that fails half-way leaves the fields as they
  are at that point.
- `ConsumerInv`: the consumer field names the only consumer that is open, which
  with `LoopInv` gives `CleanStop`. It needs "no `start()` raised": a start that
  raises after it made the consumer leaves it for the next start to overwrite.
- `DeliveryInv`: what a consumer has moved past is handled or in the batch of
  the loop. A commit takes a position at a poll or a close, when the batch is
  empty, so that `CommitBehindDelivery` is preserved.

The second part of `LiveFeed_proof` adds to `IInv`, for as long as no thread was given up:

- `ReaderInv`: only the consumer in the field has a position, and a batch in hand ends
  at it. Where `start()` makes a consumer, none has, so the old reader is gone
  before the new one reads.
- `NewerInv`: no callback has seen a message of a consumer that has not polled yet.
- `SeenInv`: a callback has seen nothing the reader has still to pass on, but for
  the message in hand, and that only if its place in the list was passed. No list
  has a callback twice, so the next one to be called has not had the message.
- `WalkInv`: the same from the list's side, which is `FanoutComplete`.

With these the abstract reader's place, `Past`, is the batch in hand or the position
(`View`). A step of `start()`, of `stop()` before its close, or of a loop without a batch
leaves the view alone (`QuietStep`, `QuietStutters`); a poll, a call, a return, the end of
a message, a close and a crash are each one action of `Feed` or none
(`StepKeeps`).

In `LogPipeline`:

- `MakersInv`: a logger that is being made is its maker's alone, without files.
- `LockInv`: who holds `_logger_lock` closes the logger the global names; who
  closes has closed the files before the later steps. Both serve `NoLeak`: `close()`
  clears the global only for the logger it closed, however many
  init calls come in between.
- `OwedInv`: a worker ends after `done` is set, and the entry a writer is about to
  put is not yet owed; `NothingLeftBehind` needs both at the put.
- `FiledInv`: what a writer is about to put is in the file if that is open and there is one, and
  a logger without files was given nothing; `FileFirst` needs both.

The second part of `LogPipeline_proof` adds to `IInv`:

- `HandInv`: the worker has an entry in hand just while it sends. The step simulation
  (`StepSimulation`) needs it at `get()`, where the hand must be empty, and at
  `send()`, where the hand is the head of what is in transit.
- `OrderInv` and `LoggedInv`: what is sent, in hand and in the queue is in order, each
  part before the next, and the call a writer is in comes after all its entries on their
  way. `SentInOrder` alone says nothing of the entries that are still to be sent.

In `Sessions`, the invariant is `TypeOK`, `ContextIsInnermost` and `StackInv`: that
what a frame's exit will restore is what the thread has beneath that frame. The second
alone is not inductive, since an exit puts back what the frame says, and nothing
else says that this is right. A first id made up by `get_session_id()` changes
what lies beneath all frames; it can do so only where there are no frames of
sessions (`GetSessionKeeps`), which is why the frames stay right. With that, what
a step writes is checked step by step (`RightNext`).

`EntriesWrittenOnce` has an invariant of its own, `EntryInv`, since to count entries one
must know what is still in hand (`Busy`, the frames of RPCs and calls of all threads, and
the futures):

- `PlaceInv`: a frame in hand is in one place of one thread, so that a frame that is
  popped is gone.
- `NumberInv` and `SpanInv`: what is in hand has numbers and spans that were given, each
  to one. An entry that is written for one then leaves the count of the others.
- `CountInv`: every counter is one if what it counts was begun and is not in hand, else
  zero; `OneEntryEach` says it of those begun.

In `KafkaConsumer` (`ConsumerInv`):

- `LogInv`: no offset, and no record that waits or was handled, is beyond what was
  published: a record keeps its message while the log grows.
- `PositionInv`: what the position of an open consumer has passed is handled, excused,
  or waiting: where a consumer begins, what is behind was below a committed offset, or
  is excused by its setting (`BeginsWithin`). A commit of the position then makes it true of the committed offset,
  with what waits excused (`CommitKeeps`), which is `AtLeastOnce`.

`NothingDropped` is carried by facts about concatenation (`ElementsConcat`, `InjectsConcat`,
`AscendsConcat`): a poll puts a batch between what was given and what is pending
(`OwnerPollsInv`), whose records are later in their partitions than all that was fetched
(`PollFetches`), and a served record goes from the one to the other, which changes
nothing (`NextServesInv`). `Intake_proof` shows each step of `Intake` to be one of the consumer
or to leave it alone (`NextConsumes`), so that its theorems hold there too, and that
`matches()` accepts what the streams say, for either constructor (`DeclaredMatches`,
`SymbolsMatch`); with `LogInv` and "what was delivered was handled", `DeliveredIfWanted` is kept.

In `Requests`:

- `PlacesInv`: a request that is not let in runs nothing; a call is made by the worker
  or, in the application, by the task, and keeps the request's span for its end, or, where
  one before it lost its span, whatever was current. A call's own span is what it will end.
- `AnswersInv`: what the wire holds, as a function of what the application started and raised
  and of a `send()` that failed. `OneAnswer` and `StatusIsSent` follow from it in a state
  (`AnswerFollows`, `StatusFollows`).
- `SpansNest` with `PlacesInv` is inductive one request at a time (`Fine`): a step of one
  changes nothing of another's (`OthersFine`), and a span that was lost stays open, so that a
  request stays excepted.
- `InACall` is finite, so that a call that begins or ends moves its cardinality by
  one (`CalledOnce`).

In `Backtest`:

- `OpenIsCached` is inductive with `TypeOK`: a connection is replaced in the cache only
  when it is closed (`ConnectedFacts`).
- `RowsInv` puts a row in the database of its year. `OrderInv` says what was yielded comes
  before what is left of the year, and both before the years to come, which gives
  `YieldedInOrder`; it rests on years that go up with time (`YearOrder`).
- `CompleteInv`: a row that was there was yielded, is left, is in a database still to
  be asked, or is the one at the end whose year is not among those asked (`SelectedIsAsked`). It holds until the generator fails or is dropped.
- `CoverInv`: a year the check is through with begins and ends at a bar, has the bars of its
  part of the window and, while no row came, nothing else (`Checked`). That it
  begins at a bar is known from the year before (`SegmentStarts`), as the code asks only
  whether the length is a multiple of the interval. `ContinuousIsGrid` is the heart: as
  many rows as bars, each where its rank puts it, are the bars. Counting makes the rank an
  injection between finite sets of one size, hence onto.

In `Replay`:

- `RunInv`: the counters, and that a strategy that raised has ended its run. It gives a
  decision the tick it is about, without which the price of a fill would have no type.
- `ViewInv` and `MarksInv`: the value in the view is that of the greatest place among
  those of its input in this run, and so for mark prices over all runs. A tick that is
  accepted adds a place greater than all (`GreatestIsMax`).
- A sum is defined by a recursive function, and what holds of all sums is proved by the
  least number at which it fails: that there is one (`SumsExist`), that it depends on what
  is summed and no more (`SumsAgree`), and so how it grows (`SumNext`). With them
  `PositionIsNet` is inductive: a fill leaves the nets before it, and adds to the last one of
  its symbol (`FillAdds`).
- `EntryInv` is `EntryIsExplained` with one thing more: while every fill since the position was
  taken built it, their sizes add up to the position's. A fill makes the position anew, when it
  opens it or turns it over, joins what built it, or leaves that alone
  (`HeldAfter`, `BuiltAfter`), and adds the same to the sums (`TotalsAfter`). The new average then
  has the cost of both over the size of both (`AverageIsQuotient`), and lies between whatever
  the old entry and the price of the fill lie between (`AverageBetween`). Both rest on
  bringing a fraction to its lowest terms leaving its value (`FractionValue`).
- That an entry price stays a fraction of naturals (`PositionType`) needs that a common
  divisor is there and that the greatest divides (`BoundedHasGreatest`, `FractionType`).

Each step of `Next` is a step of the proof; where a family of actions leaves the
variables of an invariant alone, a frame lemma (`ControlFrame`, `WriterFrame`,
`WorkerFrame`, `OneThread`, `CommitsInv`) stands for all of them. TLC checked the parts of each
invariant before they were proved. The type invariants of `LiveFeed`, `LogPipeline`,
`Sessions`, `KafkaConsumer` and `Requests` are proved and in no run of their own; those of
`Replay` and `Backtest` are proved and in their runs.

Only model-checked: the liveness properties (`StopReturns`, `LoopsEnd`, `Delivers`,
`CallsReturn`, `Drains`, `WantedArrives`), for which the prover has no rule for fairness and
`ENABLED`. Every safety property that a passing run checks is a theorem.

## Plan

Every module of the plan is written, and what is in the prover's reach of it is proved. What
could be added: a strategy that fills orders on its wallet by itself, beside `run_replay`; what
`Backtest` does yield in order, and how often, when the name of a database leaves out the year
(the hazard at `backtest.py:149`, which no property covers).

## Not modelled

- The other threads and processes of a deployment: a broker rebalancing a group,
  two feeds of one group.
- What runs inside libraries: Kafka, psycopg2, gRPC, OpenTelemetry appear as what
  their calls may do to the code.
- The validator (a pass over a syntax tree), the data classes, the indicators (float
  arithmetic), the tracer's set-up: no state of their own that steps of
  different actors reach; unit tests are the better tool.
- The fields of log entries but those a property speaks of.
