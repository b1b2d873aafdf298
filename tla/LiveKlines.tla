------------------------------ MODULE LiveKlines ------------------------------
(***************************************************************************)
(* LiveKlineSubscription (market_data/config.py): which topics a set of     *)
(* streams needs, and which klines from those topics belong to it.  All of  *)
(* it is pure: operators over spellings.                                    *)
(*                                                                          *)
(* A spelling is a string as a user, a config file or a publisher wrote it. *)
(* SymbolOf, MarketOf, IntervalOf and ExchangeOf are the normalisations:    *)
(* each takes a spelling to the one that is used (strip, upper or lower     *)
(* case, "1m" for a blank interval, "binance" for a blank exchange).        *)
(***************************************************************************)
CONSTANTS
  Symbols, Markets, Intervals, Exchanges,      \* spellings
  SymbolOf, MarketOf, IntervalOf, ExchangeOf,
  Absent    \* a market or an interval that is None, a topic of another family

Normalises(f, S) == f \in [S -> S] /\ \A s \in S : f[f[s]] = f[s]
ASSUME SpellingsAssumption ==
  /\ Normalises(SymbolOf, Symbols) /\ Normalises(MarketOf, Markets)
  /\ Normalises(IntervalOf, Intervals) /\ Normalises(ExchangeOf, Exchanges)
  /\ Absent \notin Markets \cup Intervals

\* "md.kline.<exchange>.<market>.<interval>"; Absent stands for all others.
KlineTopics == [exchange : Exchanges, market : Markets, interval : Intervals]
ASSUME TopicsAssumption == Absent \notin KlineTopics

Key(symbol, market, interval) == <<SymbolOf[symbol], MarketOf[market], IntervalOf[interval]>>
Pair(symbol, market) == <<SymbolOf[symbol], MarketOf[market]>>

\* resolve_live_kline_topic() and parse_live_kline_topic().
Resolve(exchange, market, interval) ==
  [exchange |-> ExchangeOf[exchange], market |-> MarketOf[market],
   interval |-> IntervalOf[interval]]
Parse(topic) == IF topic = Absent THEN Absent
                ELSE Resolve(topic.exchange, topic.market, topic.interval)

\* __post_init__(): the order of markets and topics serves nothing, a set
\* stands for a list without repetition.
SourceMarkets(markets, pairs, keys) ==
  IF markets # {} THEN markets
  ELSE IF keys # {} THEN {k[2] : k \in keys} ELSE {p[2] : p \in pairs}
Subscription(exchange, markets, interval, pairs, keys) ==
  LET allowed == {Pair(p[1], p[2]) : p \in pairs}
      inputs == {Key(k[1], k[2], k[3]) : k \in keys}
  IN [exchange |-> ExchangeOf[exchange], interval |-> IntervalOf[interval],
      markets |-> {MarketOf[m] : m \in SourceMarkets(markets, allowed, inputs)},
      allowed |-> allowed, inputs |-> inputs]

\* from_symbols_with_market().
FromSymbols(pairs, interval, exchange) ==
  LET normalized == {Pair(p[1], p[2]) : p \in pairs}
  IN Subscription(exchange, {p[2] : p \in normalized}, interval, normalized, {})

\* from_declared_inputs(), of at least one input; the exchange of an input is
\* not looked at.  The interval is one of the declared ones and serves nothing.
DeclaredKeys(declared) == {Key(i.symbol, i.market, i.interval) : i \in declared}
FromDeclared(declared, exchange) ==
  LET keys == DeclaredKeys(declared)
      first == CHOOSE k \in keys : TRUE
  IN Subscription(exchange, {k[2] : k \in keys}, first[3], {<<k[1], k[2]>> : k \in keys}, keys)

\* topics: one per market and interval that is declared.
\* Mutant: one per market.
OneInterval(sub) == {Resolve(sub.exchange, k[2], sub.interval) : k \in sub.inputs}
TopicsOfInputs(sub) == {Resolve(sub.exchange, k[2], k[3]) : k \in sub.inputs}
Topics(sub) ==
  IF sub.inputs # {} THEN TopicsOfInputs(sub)
  ELSE {Resolve(sub.exchange, m, sub.interval) : m \in sub.markets}

\* matches() where inputs were declared: the topic says what the kline is,
\* and the kline itself where the topic does not.
\* Mutant: the interval is not part of the key.
AnyInterval(sub, symbol, market, interval) ==
  \E k \in sub.inputs : Pair(symbol, market) = <<k[1], k[2]>>
InInputs(sub, symbol, market, interval) == Key(symbol, market, interval) \in sub.inputs
MatchesInputs(sub, topic, symbol, market, interval) ==
  IF topic # Absent
  THEN /\ topic.exchange = sub.exchange
       /\ InInputs(sub, symbol, topic.market, topic.interval)
  ELSE /\ market # Absent /\ interval # Absent
       /\ InInputs(sub, symbol, market, interval)

\* matches() where there are only markets, an interval and pairs.
InMarkets(sub, market) == sub.markets = {} \/ MarketOf[market] \in sub.markets
MatchesLegacy(sub, topic, symbol, market, interval) ==
  LET resolved == IF topic # Absent THEN topic.market ELSE market IN
  /\ IF topic # Absent
     THEN topic.exchange = sub.exchange /\ topic.interval = sub.interval
     ELSE interval # Absent => IntervalOf[interval] = sub.interval
  /\ resolved # Absent => InMarkets(sub, resolved)
  /\ sub.allowed # {} => resolved # Absent /\ Pair(symbol, resolved) \in sub.allowed

Matches(sub, topic, symbol, market, interval) ==
  IF sub.inputs # {} THEN MatchesInputs(sub, Parse(topic), symbol, market, interval)
  ELSE MatchesLegacy(sub, Parse(topic), symbol, market, interval)
=============================================================================
