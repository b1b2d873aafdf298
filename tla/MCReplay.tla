------------------------------ MODULE MCReplay ------------------------------
(* Instances of Replay for TLC: two symbols, one of which is also written
   with padding; a perpetual and a spot stream of the first; a strategy that
   trades the first and one that only reads the second. *)
EXTENDS Replay
CONSTANTS btc, padded, eth

StripPadding == [s \in RawSymbols |-> IF s = padded THEN btc ELSE s]
Tick(m, s, i, p) ==
  [exchange |-> "binance", market |-> m, symbol |-> s, interval |-> i, price |-> p]
Input(m, s, i) == [exchange |-> "binance", market |-> m, symbol |-> s, interval |-> i]
Order(s, side, q, p) ==
  [exchange |-> "binance", market |-> Perpetual, symbol |-> s, side |-> side,
   qty |-> q, price |-> p]
Target(m, s) == [exchange |-> "binance", market |-> m, symbol |-> s]

StreamTicks ==
  {Tick(Perpetual, btc, "1m", 1), Tick(Perpetual, padded, "5m", 2), Tick("spot", btc, "1m", 3),
   Tick(Perpetual, eth, "1m", 4), Tick("options", btc, "1m", 5)}
Trader ==
  [inputs |-> {Input(Perpetual, padded, "1m"), Input(Perpetual, btc, "5m"), Input("spot", btc, "1m")},
   targets |-> {Target(Perpetual, btc)}]
Reader == [inputs |-> {Input(Perpetual, eth, "1m")}, targets |-> {}]
\* Strategies run_replay() refuses.
Refused ==
  {[inputs |-> {}, targets |-> {}],
   [inputs |-> {Input(Perpetual, Missing, "1m")}, targets |-> {}],
   [inputs |-> {Input(Perpetual, btc, "1m")}, targets |-> {Target("spot", btc)}]}
TwoStrategies == {Trader, Reader} \cup Refused
OneStrategy == {Trader}

\* Orders of both sides and of sizes that add, reduce, close and flip, at the
\* tick's price and at another, zero among them; orders that are refused for
\* their size, side or symbol.
Orders ==
  {Order(btc, "BUY", 1, NoPrice), Order(btc, "SELL", 1, NoPrice), Order(btc, "SELL", 3, 7),
   Order(btc, "BUY", 1, 0), Order(btc, "BUY", 0, NoPrice), Order(btc, "HOLD", 1, NoPrice),
   Order(eth, "BUY", 1, NoPrice)}

PaddedOrders == {Order(padded, "BUY", 1, NoPrice)}
=============================================================================
