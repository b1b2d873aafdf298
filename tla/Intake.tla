-------------------------------- MODULE Intake --------------------------------
(***************************************************************************)
(* From a publisher to the program: a subscription is made from the streams *)
(* a strategy wants (LiveKlines), the consumer is subscribed to its topics  *)
(* (KafkaConsumer), and what it gives out is delivered when the             *)
(* subscription matches it, as _process_message() of market_data/live.py    *)
(* does.  LiveFeed has the threads of that; here are the data.              *)
(*                                                                          *)
(* A partition is a topic; Absent is a topic of another family, such as     *)
(* "market-kline", which a config file may name.                            *)
(***************************************************************************)
EXTENDS KafkaConsumer, LiveKlines, Functions

CONSTANTS
  Wanted,    \* what a strategy may want: an exchange, and streams of it
  Failed,    \* a record that holds an error
  MaxPublished  \* bound: records in all

VARIABLES
  streams, exchange,  \* what is wanted, as it is written
  sub,                \* the subscription
  topics,             \* KafkaConfig.topics
  delivered           \* the records that were handed to the callbacks

wishes == <<streams, exchange, sub, topics>>
vars == <<consumerVars, wishes, delivered>>

Streams == [symbol : Symbols, market : Markets, interval : Intervals]
Klines == [symbol : Symbols, market : Markets \cup {Absent}, interval : Intervals]
ASSUME IntakeAssumption ==
  /\ MaxPublished \in Nat
  /\ Wanted \subseteq Exchanges \X ((SUBSET Streams) \ {{}})
  /\ Messages \subseteq Klines \cup {Failed} /\ Failed \notin Klines /\ Errors = {Failed}
  /\ Partitions \subseteq KlineTopics \cup {Absent}

Subscriptions ==
  [exchange : Exchanges, interval : Intervals, markets : SUBSET Markets,
   allowed : SUBSET (Symbols \X Markets), inputs : SUBSET (Symbols \X Markets \X Intervals)]
TypeOK ==
  /\ ConsumerTypeOK
  /\ <<exchange, streams>> \in Wanted
  /\ sub \in Subscriptions
  /\ topics \subseteq KlineTopics \cup {Absent}
  /\ delivered \subseteq Records

\* A subscription of several intervals, or of one interval for all pairs.
FromStreams(wanted, ex) ==
  {FromDeclared(wanted, ex)} \cup
  {FromSymbols({<<i.symbol, i.market>> : i \in wanted}, iv, ex) :
     iv \in {iv \in Intervals : \A i \in wanted : i.interval = iv}}

\* KafkaConfig.for_live_kline_subscription(), or a config with topics of its own.
Init ==
  /\ ConsumerInit
  /\ \E want \in Wanted : exchange = want[1] /\ streams = want[2]
  /\ sub \in FromStreams(streams, exchange)
  /\ topics \in {Topics(sub), {Absent}}
  /\ delivered = {}

\* The publisher of klines: those in a topic of klines are of its market and
\* interval, and may say so.  Topics that nobody wants are left out.
Publishable(topic) ==
  {Failed} \cup
  {m \in Messages \ {Failed} :
     topic # Absent => m.market \in {topic.market, Absent} /\ m.interval = topic.interval}
WantedTopics == {Resolve(exchange, i.market, i.interval) : i \in streams}
\* Bound: the last consumer there may be is gone, and nothing is published after.
Gone == ~open /\ starts = MaxStarts
PublishKline ==
  /\ ~Gone
  /\ SumFunction([p \in Partitions |-> Len(log[p])]) < MaxPublished
  /\ \E p \in Partitions \cap (topics \cup WantedTopics) : \E m \in Publishable(p) : Publish(p, m)
  /\ UNCHANGED <<wishes, delivered>>

\* KafkaConfig.auto_offset_reset is what an operator set it to for this start.
StartFeed ==
  /\ \E reset \in Resets : Start(reset, topics \cap Partitions)
  /\ UNCHANGED <<wishes, delivered>>

\* _process_message(): an error is logged, a kline is filtered.
ShouldDeliver(r) ==
  /\ ~HasError(r)
  /\ LET m == MessageOf(r) IN Matches(sub, r[1], m.symbol, m.market, m.interval)
HandleKline ==
  /\ Handle
  /\ delivered' = delivered \cup {r \in {Head(hand)} : ShouldDeliver(r)}
  /\ UNCHANGED wishes

Reads == ReadStep /\ UNCHANGED <<wishes, delivered>>

Next == PublishKline \/ StartFeed \/ HandleKline \/ Reads

Spec == Init /\ [][Next]_vars

\* The owner handles what it has.
FairSpec == Spec /\ WF_vars(HandleKline)

\* An owner that makes a new consumer when it has none and reads on gets records
\* sooner or later: by poll(), as _consume_loop() does, or in a for loop, which
\* it begins again and again and which serves what is pending.
Gets == (OwnerPolls \/ NextPolls) /\ UNCHANGED <<wishes, delivered>>
Persists ==
  /\ WF_vars(StartFeed)
  /\ WF_vars(LoopAgain /\ UNCHANGED <<wishes, delivered>>)
  /\ SF_vars(NextServes /\ UNCHANGED <<wishes, delivered>>)
  /\ SF_hand(Gets)

-----------------------------------------------------------------------------
(* Properties.                                                              *)

\* The stream a kline belongs to: what its topic says, or where that says
\* nothing, what it says itself.
BelongsToStream(r, i) ==
  LET m == MessageOf(r)
      market == IF r[1] = Absent THEN m.market ELSE r[1].market
      interval == IF r[1] = Absent THEN m.interval ELSE r[1].interval
  IN market # Absent /\ Key(m.symbol, market, interval) = Key(i.symbol, i.market, i.interval)
IsWanted(r) ==
  /\ ~HasError(r)
  /\ r[1] # Absent => ExchangeOf[r[1].exchange] = ExchangeOf[exchange]
  /\ \E i \in streams : BelongsToStream(r, i)

\* config.py:82, "``matches()`` only accepts ticks whose ``(symbol, market,
\* interval)`` key is in the set": what is handled is delivered if it belongs
\* to a stream that was wanted, however either was written, and not otherwise.
DeliveredIfWanted == \A r \in handled : r \in delivered <=> IsWanted(r)

\* config.py:168, "``topics`` automatically covers every distinct ``(market,
\* interval)`` pair": a kline that is wanted and published on the topic of its
\* market and interval is delivered, however the stream was written, to an owner
\* that loops, that polls or that does both, unless it was committed past, or
\* published before a consumer that began behind it, or the last consumer is gone.
OnItsTopic(r) == r[1] # Absent /\ Parse(r[1]) = r[1]
Published(r) == r[2] <= Len(log[r[1]])
Arrived(r) == OnItsTopic(r) /\ Published(r) /\ IsWanted(r) => r \in delivered \cup excused
WantedArrives ==
  Persists => <>[](Gone \/ (topics = Topics(sub) => \A r \in Records : Arrived(r)))
=============================================================================
