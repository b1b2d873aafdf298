----------------------------- MODULE Intake_proof -----------------------------
(***************************************************************************)
(* Theorems about Intake: for any spellings, subscriptions and topics, what *)
(* is handled is delivered if it is wanted, and nothing is dropped on the   *)
(* way, whatever the consumer goes through.                                 *)
(***************************************************************************)
EXTENDS Intake, KafkaConsumer_proof

-----------------------------------------------------------------------------
(* The subscription: matches() accepts what the streams ask for.            *)

\* A kline of a topic belongs to one of the streams, all spelled freely.
Belongs(topic, m, i) ==
  LET market == IF topic = Absent THEN m.market ELSE topic.market
      interval == IF topic = Absent THEN m.interval ELSE topic.interval
  IN market # Absent /\ Key(m.symbol, market, interval) = Key(i.symbol, i.market, i.interval)
OfStreams(wanted, ex, topic, m) ==
  /\ topic # Absent => ExchangeOf[topic.exchange] = ExchangeOf[ex]
  /\ \E i \in wanted : Belongs(topic, m, i)

\* Two normalisations are as good as one.
LEMMA Idempotent ==
  /\ \A s \in Symbols : SymbolOf[s] \in Symbols /\ SymbolOf[SymbolOf[s]] = SymbolOf[s]
  /\ \A m \in Markets : MarketOf[m] \in Markets /\ MarketOf[MarketOf[m]] = MarketOf[m]
  /\ \A i \in Intervals : IntervalOf[i] \in Intervals /\ IntervalOf[IntervalOf[i]] = IntervalOf[i]
  /\ \A e \in Exchanges : ExchangeOf[e] \in Exchanges /\ ExchangeOf[ExchangeOf[e]] = ExchangeOf[e]
  BY SpellingsAssumption DEF Normalises

\* What from_declared_inputs() makes.
LEMMA DeclaredFields ==
  ASSUME NEW wanted \in SUBSET Streams, wanted # {}, NEW ex \in Exchanges
  PROVE  /\ FromDeclared(wanted, ex).inputs =
              {Key(i.symbol, i.market, i.interval) : i \in wanted}
         /\ FromDeclared(wanted, ex).inputs # {}
         /\ FromDeclared(wanted, ex).exchange = ExchangeOf[ex]
<1> DEFINE keys == {Key(i.symbol, i.market, i.interval) : i \in wanted}
<1>1. FromDeclared(wanted, ex).inputs = {Key(k[1], k[2], k[3]) : k \in keys}
  BY DEF FromDeclared, Subscription, DeclaredKeys
<1>2. \A k \in keys : Key(k[1], k[2], k[3]) = k
  <2>1. ASSUME NEW i \in wanted
        PROVE  LET k == Key(i.symbol, i.market, i.interval) IN Key(k[1], k[2], k[3]) = k
    <3>1. i.symbol \in Symbols /\ i.market \in Markets /\ i.interval \in Intervals
      BY DEF Streams
    <3>2. QED
      BY <3>1, Idempotent DEF Key
  <2>2. QED
    BY <2>1
<1>3. {Key(k[1], k[2], k[3]) : k \in keys} = keys
  BY <1>2
<1>4. FromDeclared(wanted, ex).exchange = ExchangeOf[ex]
  BY DEF FromDeclared, Subscription
<1>5. QED
  BY <1>1, <1>3, <1>4

\* What from_symbols_with_market() makes.
LEMMA SymbolsFields ==
  ASSUME NEW wanted \in SUBSET Streams, wanted # {}, NEW ex \in Exchanges,
         NEW iv \in Intervals
  PROVE  LET s == FromSymbols({<<i.symbol, i.market>> : i \in wanted}, iv, ex)
         IN /\ s.inputs = {} /\ s.exchange = ExchangeOf[ex] /\ s.interval = IntervalOf[iv]
            /\ s.allowed = {Pair(i.symbol, i.market) : i \in wanted}
            /\ s.markets = {MarketOf[i.market] : i \in wanted}
<1> DEFINE pairs == {<<i.symbol, i.market>> : i \in wanted}
           normalized == {Pair(p[1], p[2]) : p \in pairs}
           s == FromSymbols(pairs, iv, ex)
<1>1. normalized = {Pair(i.symbol, i.market) : i \in wanted}
  <2>1. ASSUME NEW x \in normalized PROVE x \in {Pair(i.symbol, i.market) : i \in wanted}
    <3>1. PICK p \in pairs : x = Pair(p[1], p[2])
      OBVIOUS
    <3>2. PICK i \in wanted : p = <<i.symbol, i.market>>
      OBVIOUS
    <3>3. x = Pair(i.symbol, i.market)
      BY <3>1, <3>2
    <3>4. QED
      BY <3>3
  <2>2. ASSUME NEW i \in wanted PROVE Pair(i.symbol, i.market) \in normalized
    <3> DEFINE p == <<i.symbol, i.market>>
    <3>1. p \in pairs /\ p[1] = i.symbol /\ p[2] = i.market
      OBVIOUS
    <3> HIDE DEF p
    <3>2. Pair(p[1], p[2]) \in normalized
      BY <3>1
    <3>3. QED
      BY <3>1, <3>2
  <2>3. QED
    BY <2>1, <2>2
<1>2. ASSUME NEW i \in wanted
      PROVE  /\ i.symbol \in Symbols /\ i.market \in Markets
             /\ Pair(i.symbol, i.market)[2] = MarketOf[i.market]
             /\ Pair(Pair(i.symbol, i.market)[1], Pair(i.symbol, i.market)[2])
                  = Pair(i.symbol, i.market)
  <2>1. i.symbol \in Symbols /\ i.market \in Markets
    BY DEF Streams
  <2>2. QED
    BY <2>1, Idempotent DEF Pair
<1>3. {Pair(p[1], p[2]) : p \in normalized} = normalized
  BY <1>1, <1>2
<1>4. {p[2] : p \in normalized} = {MarketOf[i.market] : i \in wanted}
  BY <1>1, <1>2
<1>5. {MarketOf[m] : m \in {p[2] : p \in normalized}} = {MarketOf[i.market] : i \in wanted}
  BY <1>2, <1>4, Idempotent
<1>6. {p[2] : p \in normalized} # {}
  BY <1>4
<1>7. /\ s.inputs = {} /\ s.exchange = ExchangeOf[ex] /\ s.interval = IntervalOf[iv]
      /\ s.allowed = {Pair(p[1], p[2]) : p \in normalized}
      /\ s.markets = {MarketOf[m] : m \in {p[2] : p \in normalized}}
  BY <1>6 DEF FromSymbols, Subscription, SourceMarkets
<1>8. QED
  BY <1>1, <1>3, <1>5, <1>7

\* A subscription of declared inputs.
LEMMA DeclaredMatches ==
  ASSUME NEW wanted \in SUBSET Streams, wanted # {}, NEW ex \in Exchanges,
         NEW topic \in KlineTopics \cup {Absent}, NEW m \in Klines
  PROVE  Matches(FromDeclared(wanted, ex), topic, m.symbol, m.market, m.interval)
           <=> OfStreams(wanted, ex, topic, m)
<1> DEFINE s == FromDeclared(wanted, ex)
<1>1. /\ s.inputs = {Key(i.symbol, i.market, i.interval) : i \in wanted}
      /\ s.inputs # {} /\ s.exchange = ExchangeOf[ex]
  BY DeclaredFields
<1> HIDE DEF s
<1>2. m.symbol \in Symbols /\ m.interval # Absent
  BY SpellingsAssumption DEF Klines
<1>3. Matches(s, topic, m.symbol, m.market, m.interval)
        <=> MatchesInputs(s, Parse(topic), m.symbol, m.market, m.interval)
  BY <1>1 DEF Matches
<1>4. ASSUME NEW market, NEW interval
      PROVE  InInputs(s, m.symbol, market, interval)
               <=> \E i \in wanted :
                     Key(m.symbol, market, interval) = Key(i.symbol, i.market, i.interval)
  BY <1>1 DEF InInputs
<1>5. CASE topic = Absent
  <2>1. Parse(topic) = Absent
    BY <1>5 DEF Parse
  <2>2. MatchesInputs(s, Parse(topic), m.symbol, m.market, m.interval)
          <=> m.market # Absent /\ InInputs(s, m.symbol, m.market, m.interval)
    BY <1>2, <2>1 DEF MatchesInputs
  <2>3. QED
    BY <1>3, <1>4, <1>5, <2>2 DEF OfStreams, Belongs, s
<1>6. CASE topic # Absent
  <2>1. topic.market \in Markets /\ topic.interval \in Intervals /\ topic.exchange \in Exchanges
    BY <1>6 DEF KlineTopics
  <2> DEFINE t == Resolve(topic.exchange, topic.market, topic.interval)
  <2>2. /\ t.market = MarketOf[topic.market] /\ t.interval = IntervalOf[topic.interval]
        /\ t.exchange = ExchangeOf[topic.exchange] /\ Parse(topic) = t
    BY <1>6 DEF Resolve, Parse
  <2>3. t # Absent
    <3>1. t \in KlineTopics
      BY <2>1, Idempotent DEF Resolve, KlineTopics
    <3>2. QED
      BY <3>1, TopicsAssumption
  <2> HIDE DEF t
  <2>4. Key(m.symbol, t.market, t.interval) = Key(m.symbol, topic.market, topic.interval)
    BY <2>1, <2>2, Idempotent DEF Key
  <2>5. MatchesInputs(s, t, m.symbol, m.market, m.interval)
          <=> t.exchange = s.exchange /\ InInputs(s, m.symbol, t.market, t.interval)
    BY <2>3 DEF MatchesInputs
  <2>6. topic.market # Absent
    BY <2>1, SpellingsAssumption
  <2>7. OfStreams(wanted, ex, topic, m)
          <=> /\ ExchangeOf[topic.exchange] = ExchangeOf[ex]
              /\ \E i \in wanted : Key(m.symbol, topic.market, topic.interval)
                                     = Key(i.symbol, i.market, i.interval)
    BY <1>6, <2>6 DEF OfStreams, Belongs
  <2>8. InInputs(s, m.symbol, t.market, t.interval)
          <=> \E i \in wanted : Key(m.symbol, topic.market, topic.interval)
                                  = Key(i.symbol, i.market, i.interval)
    BY <1>4, <2>4
  <2>9. QED
    BY <1>1, <1>3, <2>2, <2>5, <2>7, <2>8 DEF s
<1>7. QED
  BY <1>5, <1>6

\* A subscription of pairs, all in one interval.
LEMMA SymbolsMatch ==
  ASSUME NEW wanted \in SUBSET Streams, wanted # {}, NEW ex \in Exchanges,
         NEW iv \in Intervals, \A i \in wanted : i.interval = iv,
         NEW topic \in KlineTopics \cup {Absent}, NEW m \in Klines
  PROVE  Matches(FromSymbols({<<i.symbol, i.market>> : i \in wanted}, iv, ex),
                 topic, m.symbol, m.market, m.interval)
           <=> OfStreams(wanted, ex, topic, m)
<1> DEFINE s == FromSymbols({<<i.symbol, i.market>> : i \in wanted}, iv, ex)
<1>1. /\ s.inputs = {} /\ s.exchange = ExchangeOf[ex] /\ s.interval = IntervalOf[iv]
      /\ s.allowed = {Pair(i.symbol, i.market) : i \in wanted}
      /\ s.markets = {MarketOf[i.market] : i \in wanted}
  BY SymbolsFields
<1> HIDE DEF s
<1>2. m.symbol \in Symbols /\ m.interval # Absent /\ s.allowed # {}
  BY <1>1, SpellingsAssumption DEF Klines
<1>3. Matches(s, topic, m.symbol, m.market, m.interval)
        <=> MatchesLegacy(s, Parse(topic), m.symbol, m.market, m.interval)
  BY <1>1 DEF Matches
\* The pair is among the allowed ones: then its market is among the markets.
<1>4. ASSUME NEW market
      PROVE  InMarkets(s, market) /\ Pair(m.symbol, market) \in s.allowed
               <=> \E i \in wanted : Pair(m.symbol, market) = Pair(i.symbol, i.market)
  <2>1. ASSUME NEW i \in wanted, Pair(m.symbol, market) = Pair(i.symbol, i.market)
        PROVE  InMarkets(s, market)
    <3>1. MarketOf[market] = MarketOf[i.market]
      BY <2>1 DEF Pair
    <3>2. QED
      BY <1>1, <3>1 DEF InMarkets
  <2>2. QED
    BY <1>1, <2>1
<1>5. ASSUME NEW market, NEW interval, NEW i \in wanted
      PROVE  Key(m.symbol, market, interval) = Key(i.symbol, i.market, i.interval)
               <=> /\ IntervalOf[interval] = IntervalOf[iv]
                   /\ Pair(m.symbol, market) = Pair(i.symbol, i.market)
  BY DEF Key, Pair
<1>6. CASE topic = Absent
  <2>1. Parse(topic) = Absent
    BY <1>6 DEF Parse
  <2>2. MatchesLegacy(s, Parse(topic), m.symbol, m.market, m.interval)
          <=> /\ IntervalOf[m.interval] = IntervalOf[iv]
              /\ m.market # Absent
              /\ InMarkets(s, m.market) /\ Pair(m.symbol, m.market) \in s.allowed
    BY <1>1, <1>2, <2>1 DEF MatchesLegacy
  <2>3. OfStreams(wanted, ex, topic, m)
          <=> /\ m.market # Absent
              /\ \E i \in wanted : Key(m.symbol, m.market, m.interval)
                                     = Key(i.symbol, i.market, i.interval)
    BY <1>6 DEF OfStreams, Belongs
  <2>4. QED
    BY <1>3, <1>4, <1>5, <2>2, <2>3 DEF s
<1>7. CASE topic # Absent
  <2>1. topic.market \in Markets /\ topic.interval \in Intervals /\ topic.exchange \in Exchanges
    BY <1>7 DEF KlineTopics
  <2> DEFINE t == Resolve(topic.exchange, topic.market, topic.interval)
  <2>2. /\ t.market = MarketOf[topic.market] /\ t.interval = IntervalOf[topic.interval]
        /\ t.exchange = ExchangeOf[topic.exchange] /\ Parse(topic) = t
    BY <1>7 DEF Resolve, Parse
  <2>3. t # Absent /\ t.market # Absent
    <3>1. t \in KlineTopics /\ t.market \in Markets
      BY <2>1, Idempotent DEF Resolve, KlineTopics
    <3>2. QED
      BY <3>1, TopicsAssumption, SpellingsAssumption
  <2> HIDE DEF t
  <2>4. /\ Pair(m.symbol, t.market) = Pair(m.symbol, topic.market)
        /\ InMarkets(s, t.market) <=> InMarkets(s, topic.market)
    BY <2>1, <2>2, Idempotent DEF Pair, InMarkets
  <2>5. MatchesLegacy(s, t, m.symbol, m.market, m.interval)
          <=> /\ t.exchange = s.exchange /\ t.interval = s.interval
              /\ InMarkets(s, t.market) /\ Pair(m.symbol, t.market) \in s.allowed
    BY <1>2, <2>3 DEF MatchesLegacy
  <2>6. topic.market # Absent
    BY <2>1, SpellingsAssumption
  <2>7. OfStreams(wanted, ex, topic, m)
          <=> /\ ExchangeOf[topic.exchange] = ExchangeOf[ex]
              /\ \E i \in wanted : Key(m.symbol, topic.market, topic.interval)
                                     = Key(i.symbol, i.market, i.interval)
    BY <1>7, <2>6 DEF OfStreams, Belongs
  <2>8. (\E i \in wanted : Key(m.symbol, topic.market, topic.interval)
                             = Key(i.symbol, i.market, i.interval))
          <=> /\ IntervalOf[topic.interval] = IntervalOf[iv]
              /\ InMarkets(s, topic.market) /\ Pair(m.symbol, topic.market) \in s.allowed
    BY <1>4, <1>5
  <2>9. QED
    BY <1>1, <1>3, <2>2, <2>4, <2>5, <2>7, <2>8 DEF s
<1>8. QED
  BY <1>6, <1>7

LEMMA SubscriptionMatches ==
  ASSUME NEW wanted \in SUBSET Streams, wanted # {}, NEW ex \in Exchanges,
         NEW s \in FromStreams(wanted, ex),
         NEW topic \in KlineTopics \cup {Absent}, NEW m \in Klines
  PROVE  Matches(s, topic, m.symbol, m.market, m.interval) <=> OfStreams(wanted, ex, topic, m)
<1>1. CASE s = FromDeclared(wanted, ex)
  BY <1>1, DeclaredMatches
<1>2. CASE s # FromDeclared(wanted, ex)
  <2>1. PICK iv \in Intervals :
          /\ \A i \in wanted : i.interval = iv
          /\ s = FromSymbols({<<i.symbol, i.market>> : i \in wanted}, iv, ex)
    BY <1>2 DEF FromStreams
  <2>2. QED
    BY <2>1, SymbolsMatch
<1>3. QED
  BY <1>1, <1>2

-----------------------------------------------------------------------------
(* Intake is a KafkaConsumer whose owner delivers what it handles.          *)

LEMMA InitConsumes == Init => ConsumerInit
  BY DEF Init

LEMMA NextConsumes == [Next]_vars => [ConsumerNext]_consumerVars
<1> SUFFICES ASSUME [Next]_vars PROVE [ConsumerNext]_consumerVars
  OBVIOUS
<1>1. CASE PublishKline
  <2>1. PICK p \in Partitions : \E m \in Publishable(p) : Publish(p, m)
    BY <1>1 DEF PublishKline
  <2>2. PICK m \in Publishable(p) : Publish(p, m)
    BY <2>1
  <2>3. m \in Messages
    BY <2>2, IntakeAssumption, ErrorsAssumption DEF Publishable
  <2>4. QED
    BY <2>2, <2>3 DEF ConsumerNext
<1>2. CASE StartFeed
  <2>1. PICK reset \in Resets : Start(reset, topics \cap Partitions)
    BY <1>2 DEF StartFeed
  <2>2. topics \cap Partitions \in SUBSET Partitions
    OBVIOUS
  <2>3. QED
    BY <2>1, <2>2 DEF ConsumerNext
<1>3. CASE HandleKline
  BY <1>3 DEF HandleKline, ConsumerNext
<1>4. CASE Reads
  BY <1>4 DEF Reads, ConsumerNext
<1>5. CASE UNCHANGED vars
  BY <1>5 DEF vars
<1>6. QED
  BY <1>1, <1>2, <1>3, <1>4, <1>5 DEF Next

LEMMA Consumes == Spec => ConsumerSpec
<1>1. Init => ConsumerInit
  BY InitConsumes
<1>2. [Next]_vars => [ConsumerNext]_consumerVars
  BY NextConsumes
<1>3. QED
  BY <1>1, <1>2, PTL DEF Spec, ConsumerSpec

-----------------------------------------------------------------------------
(* The inductive invariant.                                                 *)

\* What is wanted stays as it was, and the subscription was made from it.
WishInv ==
  /\ exchange \in Exchanges /\ streams \in SUBSET Streams /\ streams # {}
  /\ sub \in FromStreams(streams, exchange)

\* What was delivered was handled, what was handled was looked at.
DeliveryInv == delivered \subseteq handled /\ DeliveredIfWanted

\* A kline that exists is delivered exactly if it is wanted.
LEMMA DeliverWanted ==
  ASSUME ConsumerTypeOK, WishInv, NEW r \in Records, r[2] <= Len(log[r[1]])
  PROVE  ShouldDeliver(r) <=> IsWanted(r)
<1> DEFINE m == MessageOf(r)
<1>1. r[1] \in Partitions /\ r[2] \in 1..Len(log[r[1]])
  BY ConsumerBounds DEF Records, Offsets, ConsumerTypeOK
<1>2. m \in Messages
  BY <1>1 DEF MessageOf, ConsumerTypeOK
<1>3. HasError(r) <=> m = Failed
  BY IntakeAssumption DEF HasError
<1>4. CASE m = Failed
  BY <1>3, <1>4 DEF ShouldDeliver, IsWanted
<1>5. CASE m # Failed
  <2>1. m \in Klines /\ r[1] \in KlineTopics \cup {Absent}
    BY <1>1, <1>2, <1>5, IntakeAssumption
  <2>2. ShouldDeliver(r) <=> Matches(sub, r[1], m.symbol, m.market, m.interval)
    BY <1>3, <1>5 DEF ShouldDeliver
  <2>3. IsWanted(r) <=> OfStreams(streams, exchange, r[1], m)
    BY <1>3, <1>5 DEF IsWanted, BelongsToStream, OfStreams, Belongs
  <2> HIDE DEF m
  <2>4. Matches(sub, r[1], m.symbol, m.market, m.interval)
          <=> OfStreams(streams, exchange, r[1], m)
    BY <2>1, SubscriptionMatches DEF WishInv
  <2>5. QED
    BY <2>2, <2>3, <2>4
<1>6. QED
  BY <1>4, <1>5

LEMMA InitDelivers == Init => WishInv /\ DeliveryInv
<1> SUFFICES ASSUME Init PROVE WishInv /\ DeliveryInv
  OBVIOUS
<1>1. PICK want \in Wanted : exchange = want[1] /\ streams = want[2]
  BY DEF Init
<1>2. want \in Exchanges \X ((SUBSET Streams) \ {{}})
  BY <1>1, IntakeAssumption
<1>3. sub \in FromStreams(streams, exchange) /\ delivered = {}
  BY DEF Init
<1>4. WishInv
  BY <1>1, <1>2, <1>3 DEF WishInv
<1>5. handled = {}
  BY DEF Init, ConsumerInit
<1>6. QED
  BY <1>3, <1>4, <1>5 DEF DeliveryInv, DeliveredIfWanted

\* A record keeps being wanted, or not, while the log only grows.
LEMMA WantedStays ==
  ASSUME UNCHANGED wishes, NEW r, MessageOf(r)' = MessageOf(r)
  PROVE  IsWanted(r)' <=> IsWanted(r)
<1>1. streams' = streams /\ exchange' = exchange
  BY DEF wishes
<1>2. HasError(r)' <=> HasError(r)
  BY DEF HasError
<1>3. \A i \in streams : BelongsToStream(r, i)' <=> BelongsToStream(r, i)
  BY DEF BelongsToStream
<1>4. QED
  BY <1>1, <1>2, <1>3 DEF IsWanted

LEMMA NextDelivers ==
  ASSUME ConsumerInv, WishInv, DeliveryInv, [Next]_vars
  PROVE  WishInv' /\ DeliveryInv'
<1>1. ConsumerTypeOK /\ LogInv
  BY DEF ConsumerInv
<1>2. handled \subseteq Records /\ \A r \in handled : r[2] <= Len(log[r[1]])
  BY <1>1, WaitingType DEF LogInv
<1>3. UNCHANGED wishes
  BY DEF Next, PublishKline, StartFeed, HandleKline, Reads, vars
<1>4. WishInv'
  BY <1>3 DEF WishInv, wishes
\* A step that handles nothing.
<1>5. ASSUME UNCHANGED <<handled, delivered>>,
             \A r \in handled : MessageOf(r)' = MessageOf(r)
      PROVE  DeliveryInv'
  <2>1. \A r \in handled : IsWanted(r)' <=> IsWanted(r)
    BY <1>3, <1>5, WantedStays
  <2>2. QED
    BY <1>5, <2>1 DEF DeliveryInv, DeliveredIfWanted
<1>6. CASE PublishKline
  <2>1. UNCHANGED <<handled, delivered>>
    BY <1>6 DEF PublishKline, Publish, owner
  <2>2. PICK p \in Partitions : \E m \in Publishable(p) : Publish(p, m)
    BY <1>6 DEF PublishKline
  <2>3. PICK m \in Publishable(p) : Publish(p, m)
    BY <2>2
  <2>4. m \in Messages
    BY <2>3, IntakeAssumption, ErrorsAssumption DEF Publishable
  <2>5. \A r \in handled : MessageOf(r)' = MessageOf(r)
    BY <1>1, <1>2, <2>3, <2>4, PublishKeeps
  <2>6. QED
    BY <1>4, <1>5, <2>1, <2>5
<1>7. CASE HandleKline
  <2> DEFINE h == Head(hand)
  <2>1. /\ hand # <<>> /\ handled' = handled \cup {h} /\ log' = log
        /\ delivered' = delivered \cup {r \in {h} : ShouldDeliver(r)}
    BY <1>7 DEF HandleKline, Handle, broker
  <2>2. h \in Records /\ h \in Waiting
    BY <1>1, <2>1, HeadAndTail DEF ConsumerTypeOK, Waiting
  <2>3. h[2] <= Len(log[h[1]])
    BY <1>1, <2>2 DEF LogInv
  <2>4. ShouldDeliver(h) <=> IsWanted(h)
    BY <1>1, <2>2, <2>3, DeliverWanted
  <2> HIDE DEF h
  <2>5. ASSUME NEW r PROVE IsWanted(r)' <=> IsWanted(r)
    BY <1>3, <2>1, WantedStays DEF MessageOf
  <2>6. ASSUME NEW r \in handled' PROVE r \in delivered' <=> IsWanted(r)
    <3>1. CASE r \in handled
      BY <2>1, <2>4, <3>1 DEF DeliveryInv, DeliveredIfWanted
    <3>2. CASE r \notin handled
      BY <2>1, <2>4, <3>2 DEF DeliveryInv
    <3>3. QED
      BY <3>1, <3>2
  <2>7. delivered' \subseteq handled'
    BY <2>1 DEF DeliveryInv
  <2>8. QED
    BY <1>4, <2>5, <2>6, <2>7 DEF DeliveryInv, DeliveredIfWanted
<1>8. CASE StartFeed
  <2>1. UNCHANGED <<handled, delivered, log>>
    BY <1>8 DEF StartFeed, Start, broker
  <2>2. QED
    BY <1>4, <1>5, <2>1 DEF MessageOf
<1>9. CASE Reads
  <2>1. handled' = handled /\ log' = log
    BY <1>9 DEF Reads, ReadStep, OwnerPolls, NextServes, NextPolls, NextEnds, LoopAgain, Commit,
                Close, Crash, Poll, broker
  <2>2. delivered' = delivered
    BY <1>9 DEF Reads
  <2>3. QED
    BY <1>4, <1>5, <2>1, <2>2 DEF MessageOf
<1>10. CASE UNCHANGED vars
  <2>1. UNCHANGED <<handled, delivered, log>>
    BY <1>10 DEF vars, consumerVars, owner, broker
  <2>2. QED
    BY <1>4, <1>5, <2>1 DEF MessageOf
<1>11. QED
  BY <1>4, <1>6, <1>7, <1>8, <1>9, <1>10 DEF Next

LEMMA IntakeInvariant == Spec => []ConsumerInv /\ [](WishInv /\ DeliveryInv)
<1>1. Spec => []ConsumerInv
  BY Consumes, Invariant, PTL
<1>2. Init => WishInv /\ DeliveryInv
  BY InitDelivers
<1>3. ConsumerInv /\ WishInv /\ DeliveryInv /\ [Next]_vars => (WishInv /\ DeliveryInv)'
  BY NextDelivers
<1>4. QED
  BY <1>1, <1>2, <1>3, PTL DEF Spec

-----------------------------------------------------------------------------
(* The theorems.                                                            *)

\* config.py:82 and live.py:282-305: for every set of streams, however they
\* are written, and whatever is published, what the consume loop handled was
\* delivered exactly if it belongs to a stream that was asked for.
THEOREM WantedIsDelivered == Spec => []DeliveredIfWanted
<1>1. DeliveryInv => DeliveredIfWanted
  BY DEF DeliveryInv
<1>2. QED
  BY <1>1, IntakeInvariant, PTL

\* consumer.py:217-232, for the consumer of a live feed.
THEOREM IntakeDropsNothing == Spec => []NothingDropped
  BY Consumes, NoRecordDropped, PTL

\* live.py:84: the restarts of a live feed lose nothing that was not committed
\* past while it waited, or that no consumer began behind.
THEOREM IntakeLosesNothing == Spec => []AtLeastOnce
  BY Consumes, NoRecordLost, PTL
===============================================================================
