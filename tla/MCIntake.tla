------------------------------- MODULE MCIntake -------------------------------
(* An instance of Intake for TLC: three topics, spellings in both cases. *)
EXTENDS Intake, TLC

MCSymbolOf == [s \in Symbols |-> IF s = "btc" THEN "BTC" ELSE s]
MCMarketOf == [m \in Markets |-> IF m = "SPOT" THEN "spot" ELSE m]
MCIntervalOf == [i \in Intervals |-> IF i \in {"1M", " "} THEN "1m" ELSE i]
MCExchangeOf == [e \in Exchanges |-> "binance"]

Topic(interval) == [exchange |-> "binance", market |-> "spot", interval |-> interval]
Stream(symbol, market, interval) == [symbol |-> symbol, market |-> market, interval |-> interval]

MCPartitions == {Topic("1m"), Topic("5m"), Absent}
MCMessages == {Stream("btc", "spot", "5m"), Stream("ETH", Absent, "1m"), Failed}
\* A symbol in both intervals beside one in the second only; one interval alone.
MCWanted ==
  {<<"BINANCE", {Stream("BTC", "spot", " "), Stream("BTC", "SPOT", "5m"), Stream("ETH", "SPOT", "5m")}>>,
   <<"binance", {Stream("ETH", "spot", "1M")}>>}
=============================================================================
