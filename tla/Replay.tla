------------------------------- MODULE Replay -------------------------------
(***************************************************************************)
(* run_replay (hushine_strategy/replay/engine.py) with the InputView the    *)
(* strategy reads (inputs.py) and the FuturesWallet it trades on, which the *)
(* caller owns and may use for several runs, of one strategy or of another. *)
(* A strategy declares what it reads and trades; for the rest it is         *)
(* arbitrary: at each bar it raises, returns nothing, or returns any of     *)
(* Decisions.                                                               *)
(*                                                                          *)
(* A symbol as it is written (in a tick or a decision) is "raw"; Strip is   *)
(* str.strip().  The wallet's keys are raw symbols: it only uppercases, and *)
(* case is left out of the model.                                           *)
(***************************************************************************)
EXTENDS FuturesWallet, Sequences

CONSTANTS
  MaxRuns,     \* bound: runs on one wallet
  MaxTicks,    \* bound: ticks over all runs
  Ticks,       \* [exchange, market, symbol, interval, price] the replay may meet
  Decisions,   \* [exchange, market, symbol, side, qty, price] it may return
  Strategies,  \* [inputs, targets]: the items of INPUTS and of ORDER_TARGETS
  Missing,     \* a field of an item that is absent or blank
  RawSymbols,  \* symbols as written
  Strip,       \* raw symbol -> the same without padding
  NoPrice,     \* decision.price is None, or no mark price is known
  NoTick       \* no value in the view yet

Exchanges == {"binance", "okx"}
Markets == {"spot", "perpetual_futures", "delivery_futures"}
Perpetual == "perpetual_futures"

ASSUME ReplayBounds == MaxRuns \in Nat /\ MaxTicks \in Nat
ASSUME StripAssumption ==
  /\ Strip \in [RawSymbols -> RawSymbols]
  /\ \A s \in RawSymbols : Strip[Strip[s]] = Strip[s]
ASSUME TickAssumption ==
  /\ \A t \in Ticks : t.symbol \in RawSymbols /\ t.price \in Nat \ {0}
  /\ \A d \in Decisions : /\ d.symbol \in RawSymbols /\ d.qty \in Int
                          /\ d.price \in Nat \cup {NoPrice}
  /\ NoPrice \notin Int /\ NoTick \notin Ticks
ASSUME DeclaredAssumption ==
  \A s \in Strategies : \A i \in s.inputs \cup s.targets : i.symbol \in RawSymbols \cup {Missing}

VARIABLES
  status,     \* where run_replay is: between bars, in on_market_data(), over
  inputs,     \* InputView._allowed
  targets,    \* order_target_keys
  view,       \* InputView._values
  bars, orders,
  marks,      \* FuturesWallet._mark_prices
  positions,  \* FuturesWallet._positions
  \* history: runs begun, ticks met; the ticks accepted and the fills made,
  \* over all runs, and how many of each there were when this run began; has
  \* the strategy raised in this run
  runs, met, accepted, fills, before, raised

account == <<marks, positions>>
counters == <<bars, orders>>
declared == <<inputs, targets>>
vars == <<status, declared, view, counters, account, runs, met, accepted, fills, before, raised>>

InputKey(t) == [exchange |-> t.exchange, market |-> t.market,
                symbol |-> Strip[t.symbol], interval |-> t.interval]
TargetKey(d) == [exchange |-> d.exchange, market |-> d.market, symbol |-> Strip[d.symbol]]
Supported(t) == t.exchange \in Exchanges /\ t.market \in Markets

\* parse_declared_inputs(), parse_order_targets() and run_replay() let the
\* declarations through.
Complete(i) == \A f \in DOMAIN i : i[f] # Missing
Parses(s) ==
  /\ s.inputs # {}
  /\ \A i \in s.inputs : Complete(i) /\ Supported(i)
  /\ \A k \in s.targets : Complete(k) /\ Supported(k) /\ k.market = Perpetual
DeclaredInputs(s) == {InputKey(i) : i \in s.inputs}
OrderTargets(s) == {TargetKey(k) : k \in s.targets}
Declaring == {s \in Strategies : Parses(s)}
Keys == UNION {DeclaredInputs(s) : s \in Declaring}

TypeOK ==
  /\ status \in {"ready", "ticking", "deciding", "failed", "done"}
  /\ inputs \subseteq Keys /\ targets \subseteq UNION {OrderTargets(s) : s \in Declaring}
  /\ view \in [Keys -> Ticks \cup {NoTick}]
  /\ bars \in Nat /\ orders \in Nat
  /\ marks \in [RawSymbols -> Nat \cup {NoPrice}]
  /\ positions \in [RawSymbols -> [qty : Int, entry : Nat \X (Nat \ {0})]]
  /\ runs \in 0..MaxRuns /\ met \in 0..MaxTicks
  /\ accepted \in Seq(Ticks)
  /\ fills \in Seq([symbol : RawSymbols, signed : Int, price : Nat])
  /\ before \in [accepted : Nat, fills : Nat]
  /\ raised \in BOOLEAN

Init ==
  /\ status = "ready"
  /\ inputs = {} /\ targets = {}
  /\ view = [k \in Keys |-> NoTick]
  /\ bars = 0 /\ orders = 0
  /\ marks = [s \in RawSymbols |-> NoPrice]
  /\ positions = [s \in RawSymbols |-> Flat]
  /\ runs = 0 /\ met = 0
  /\ accepted = <<>> /\ fills = <<>>
  /\ before = [accepted |-> 0, fills |-> 0]
  /\ raised = FALSE

\* Mutant: the view of the last run kept.
ViewKept == view
EmptyView == [k \in Keys |-> NoTick]

Begins ==
  /\ status \in {"ready", "failed", "done"}
  /\ runs < MaxRuns
  /\ runs' = runs + 1

\* run_replay() up to its loop: a new view and new counters on the wallet the
\* caller gives.
Run(s) ==
  /\ Begins
  /\ Parses(s)
  /\ status' = "ticking"
  /\ inputs' = DeclaredInputs(s) /\ targets' = OrderTargets(s)
  /\ view' = EmptyView
  /\ bars' = 0 /\ orders' = 0
  /\ before' = [accepted |-> Len(accepted), fills |-> Len(fills)]
  /\ raised' = FALSE
  /\ UNCHANGED <<account, met, accepted, fills>>

\* The strategy does not validate, raises while it is loaded, or declares
\* something that does not parse: there is no replay.
RunRaises ==
  /\ Begins
  /\ status' = "failed"
  /\ UNCHANGED <<declared, view, counters, account, met, accepted, fills, before, raised>>

Meets(t) ==
  /\ status = "ticking"
  /\ met < MaxTicks
  /\ met' = met + 1

\* view.update() raises ValueError: the replay ends with it.
TickRaises(t) ==
  /\ Meets(t)
  /\ ~Supported(t)
  /\ status' = "failed"
  /\ UNCHANGED <<declared, view, counters, account, runs, accepted, fills, before, raised>>

ViewAfter(t) == [view EXCEPT ![InputKey(t)] = t]
MarksAfter(t) == [marks EXCEPT ![t.symbol] = t.price]
\* Mutants: the mark price of an undeclared tick taken too, and its bar
\* counted.
SkipMarks(t) == MarksAfter(t)
SkipCounts == bars + 1
MarksAfterSkip(t) == marks
BarsAfterSkip == bars

TickSkipped(t) ==
  /\ Meets(t)
  /\ Supported(t)
  /\ InputKey(t) \notin inputs
  /\ marks' = MarksAfterSkip(t)
  /\ bars' = BarsAfterSkip
  /\ UNCHANGED <<status, declared, view, orders, positions, runs, accepted, fills, before, raised>>

\* view.update() and update_mark_price(), then on_market_data() begins.  A price
\* that is no number is left out: float() raises between the two, and the view
\* it was put into is lost with the replay.
TickAccepted(t) ==
  /\ Meets(t)
  /\ Supported(t)
  /\ InputKey(t) \in inputs
  /\ status' = "deciding"
  /\ view' = ViewAfter(t)
  /\ marks' = MarksAfter(t)
  /\ accepted' = Append(accepted, t)
  /\ UNCHANGED <<declared, counters, positions, runs, fills, before, raised>>

StrategyRaises ==
  /\ status = "deciding"
  /\ status' = "failed"
  /\ raised' = TRUE
  /\ UNCHANGED <<declared, view, counters, account, runs, met, accepted, fills, before>>

\* on_market_data() returned something that is not an OrderDecision.
NoOrder ==
  /\ status = "deciding"
  /\ status' = "ticking"
  /\ bars' = bars + 1
  /\ UNCHANGED <<declared, view, orders, account, runs, met, accepted, fills, before, raised>>

\* The checks of run_replay, then those of fill_order.
Declared(d) == d.market = Perpetual /\ TargetKey(d) \in targets
WellFormed(d) == d.qty > 0 /\ d.side \in Sides

\* float(decision.price or tick.price): no price means the price of the tick
\* the bar is about, whatever symbol the order is for; "0" is a price.
FillPrice(d) ==
  IF d.price = NoPrice THEN accepted[Len(accepted)].price ELSE d.price
PositionsAfter(d) ==
  [positions EXCEPT ![d.symbol] = PositionAfter(@, SignedQty(d.side, d.qty), FillPrice(d))]
\* Mutant: the fill made before it is checked.
FilledAnyway(d) == IF WellFormed(d) THEN PositionsAfter(d) ELSE positions
PositionsAfterReject(d) == positions

OrderRejected(d) ==
  /\ status = "deciding"
  /\ ~(Declared(d) /\ WellFormed(d))
  /\ status' = "failed"
  /\ bars' = bars + 1
  /\ positions' = PositionsAfterReject(d)
  /\ UNCHANGED <<declared, view, orders, marks, runs, met, accepted, fills, before, raised>>

OrderFilled(d) ==
  /\ status = "deciding"
  /\ Declared(d) /\ WellFormed(d)
  /\ status' = "ticking"
  /\ bars' = bars + 1
  /\ orders' = orders + 1
  /\ positions' = PositionsAfter(d)
  /\ fills' = Append(fills, [symbol |-> d.symbol, signed |-> SignedQty(d.side, d.qty),
                             price |-> FillPrice(d)])
  /\ UNCHANGED <<declared, view, marks, runs, met, accepted, before, raised>>

\* config.ticks is exhausted.
Finish ==
  /\ status = "ticking"
  /\ status' = "done"
  /\ UNCHANGED <<declared, view, counters, account, runs, met, accepted, fills, before, raised>>

Next ==
  \/ \E s \in Strategies : Run(s)
  \/ RunRaises \/ StrategyRaises \/ NoOrder \/ Finish
  \/ \E t \in Ticks : TickRaises(t) \/ TickSkipped(t) \/ TickAccepted(t)
  \/ \E d \in Decisions : OrderRejected(d) \/ OrderFilled(d)

Spec == Init /\ [][Next]_vars

-----------------------------------------------------------------------------
(* Properties.                                                              *)

LastWhere(s, from, Test(_)) ==
  LET hits == {i \in (from + 1)..Len(s) : Test(s[i])} IN IF hits = {} THEN 0 ELSE Max(hits)

\* The strategy sees of every declared input the latest tick of this run and
\* never another input's: no look-ahead, nothing left over from the last run
\* or of what another strategy declared.  The mark price of a symbol is the
\* price of its latest declared tick, over all the runs the wallet has seen.
\* Ticks that were skipped leave no trace in either.
LatestIsSeen ==
  /\ \A k \in Keys :
       LET i == LastWhere(accepted, before.accepted, LAMBDA t : InputKey(t) = k)
       IN  view[k] = IF i = 0 THEN NoTick ELSE accepted[i]
  /\ \A s \in RawSymbols :
       LET i == LastWhere(accepted, 0, LAMBDA t : t.symbol = s)
       IN  marks[s] = IF i = 0 THEN NoPrice ELSE accepted[i].price

\* The sum of f[1], ..., f[n], where f is defined.
SumUpTo(f, n) ==
  LET sum[m \in 0..n] ==
        IF m = 0 THEN 0 ELSE sum[m - 1] + (IF m \in DOMAIN f THEN f[m] ELSE 0)
  IN  sum[n]

FillsOf(s) == {i \in DOMAIN fills : fills[i].symbol = s}
\* The net quantity of s after the first n fills.
NetAfter(s, n) == SumUpTo([i \in FillsOf(s) |-> fills[i].signed], n)

\* A position is the sum of its fills, over all runs and failures: an order
\* that is refused leaves the wallet as it was.
PositionIsNet ==
  \A s \in RawSymbols : positions[s].qty = NetAfter(s, Len(fills))

SameSide(m, n) == (m > 0 /\ n > 0) \/ (m < 0 /\ n < 0)

\* The fills since which s is held: the position has not left its side.
Held(s) ==
  {n \in FillsOf(s) : \A m \in n..Len(fills) : SameSide(NetAfter(s, m), positions[s].qty)}
\* Of these, all that built the position: the first counts for what it left on
\* this side, the others for their size.
Built(s) ==
  LET held == Held(s)
      first == Min(held)
  IN  [n \in {m \in held : m = first \/ SameSide(fills[m].signed, positions[s].qty)} |->
         Magnitude(IF n = first THEN NetAfter(s, n) ELSE fills[n].signed)]
Cost(built) == [n \in DOMAIN built |-> built[n] * fills[n].price]
Total(f) == SumUpTo(f, Len(fills))

\* The entry price of a position is the volume-weighted average of the fills
\* that built it since it was last flat or on the other side, and lies between
\* the prices of two of them once it was reduced in between; a flat position
\* has none.
EntryIsExplained ==
  \A s \in RawSymbols :
    LET entry == positions[s].entry
        built == Built(s)
    IN  IF positions[s].qty = 0 THEN entry = Zero
        ELSE /\ \E low, high \in DOMAIN built :
                  /\ AtMost(<<fills[low].price, 1>>, entry)
                  /\ AtMost(entry, <<fills[high].price, 1>>)
             /\ DOMAIN built = Held(s) => Equal(entry, <<Total(Cost(built)), Total(built)>>)

\* The counters of ReplayResult count this run's accepted bars and its fills,
\* one fill at most to a bar; a bar whose strategy raised is not counted.
CountsAreRight ==
  /\ orders = Len(fills) - before.fills
  /\ orders <= bars
  /\ bars + (IF status = "deciding" \/ raised THEN 1 ELSE 0) = Len(accepted) - before.accepted

\* engine.py:181 refuses an order whose target "is not declared in
\* ORDER_TARGETS": what it lets through is a position in a declared symbol.
PositionsInTargets ==
  \A s \in RawSymbols :
    positions[s].qty # 0 => \E d \in Declaring : \E k \in OrderTargets(d) : k.symbol = s
=============================================================================
