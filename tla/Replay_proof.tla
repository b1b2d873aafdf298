---------------------------- MODULE Replay_proof ----------------------------
(***************************************************************************)
(* Theorems about Replay, for any strategies, ticks, decisions and bounds.  *)
(***************************************************************************)
EXTENDS Replay, WellFoundedInduction, TLAPS

-----------------------------------------------------------------------------
(* Greatest elements and fractions.                                         *)

\* The greatest element of a set is its maximum.
LEMMA GreatestIsMax ==
  ASSUME NEW S \in SUBSET Int, NEW i \in S, \A j \in S : j <= i
  PROVE  Max(S) = i
<1>1. \A x \in S : (\A y \in S : x >= y) => x = i
  OBVIOUS
<1>2. \E x \in S : \A y \in S : x >= y
  OBVIOUS
<1>3. QED
  BY <1>1, <1>2 DEF Max

\* The least element of a set is its minimum.
LEMMA LeastIsMin ==
  ASSUME NEW S \in SUBSET Int, NEW i \in S, \A j \in S : i <= j
  PROVE  Min(S) = i
<1>1. \A x \in S : (\A y \in S : x <= y) => x = i
  OBVIOUS
<1>2. \E x \in S : \A y \in S : x <= y
  OBVIOUS
<1>3. QED
  BY <1>1, <1>2 DEF Min

\* A set of naturals that is not empty has a least element.
LEMMA HasLeast ==
  ASSUME NEW S \in SUBSET Nat, S # {}
  PROVE  \E i \in S : \A j \in S : i <= j
<1> DEFINE R == {p \in Nat \X Nat : p[1] < p[2]}
<1>1. IsWellFoundedOn(R, Nat)
  BY NatLessThanWellFounded DEF OpToRel
<1> HIDE DEF R
<1>2. PICK x \in S : \A y \in S : ~(<<y, x>> \in R)
  BY <1>1, WFMin
<1>3. \A y \in S : <<y, x>> \in R \/ x <= y
  BY DEF R
<1>4. QED
  BY <1>2, <1>3

\* A set of naturals up to d that is not empty has a greatest element.
LEMMA BoundedHasGreatest ==
  ASSUME NEW d \in Nat, NEW S \in SUBSET (0..d), S # {}
  PROVE  \E i \in S : \A j \in S : j <= i
<1> DEFINE Rest == {d - i : i \in S}
<1>1. Rest \in SUBSET Nat /\ Rest # {}
  <2>1. \A i \in S : d - i \in Nat
    OBVIOUS
  <2>2. PICK i \in S : TRUE
    OBVIOUS
  <2>3. d - i \in Rest
    OBVIOUS
  <2>4. QED
    BY <2>1, <2>3
<1>2. PICK x \in Rest : \A y \in Rest : x <= y
  <2> HIDE DEF Rest
  <2>1. QED
    BY <1>1, HasLeast
<1>3. PICK i \in S : x = d - i
  OBVIOUS
<1>4. \A j \in S : d - i <= d - j
  BY <1>2, <1>3
<1>5. QED
  BY <1>4

\* A fraction of naturals stays one when it is brought to its lowest terms.
LEMMA FractionType ==
  ASSUME NEW n \in Nat, NEW d \in Nat \ {0}
  PROVE  Fraction(n, d) \in Nat \X (Nat \ {0})
<1> DEFINE S == {f \in 1..d : d % f = 0 /\ n % f = 0}
<1>1. S \in SUBSET (0..d) /\ 1 \in S
  OBVIOUS
<1>2. PICK g \in S : \A j \in S : j <= g
  <2> HIDE DEF S
  <2>1. QED
    BY <1>1, BoundedHasGreatest
<1>3. Max(S) = g
  <2> HIDE DEF S
  <2>1. S \in SUBSET Int
    BY <1>1
  <2>2. QED
    BY <1>2, <2>1, GreatestIsMax
<1>4. g \in Nat \ {0} /\ g <= d /\ d % g = 0
  OBVIOUS
<1>5. n \div g \in Nat
  BY <1>4
<1>6. d \div g \in Nat /\ d \div g # 0
  BY <1>4
<1>7. Fraction(n, d) = <<n \div g, d \div g>>
  BY <1>3 DEF Fraction
<1>8. QED
  BY <1>5, <1>6, <1>7
-----------------------------------------------------------------------------
(* Types, and the counters.                                                 *)

Entries == Nat \X (Nat \ {0})
Positions == [qty : Int, entry : Entries]

\* Products of naturals are naturals, and are not zero when no factor is.
LEMMA Products ==
  ASSUME NEW a \in Nat, NEW b \in Nat
  PROVE  a * b \in Nat /\ (a # 0 /\ b # 0 => a * b # 0)
  OBVIOUS

\* The weighted average of two prices is a fraction of naturals.
LEMMA AverageType ==
  ASSUME NEW p \in Positions, NEW signed \in Int, signed # 0, NEW price \in Nat
  PROVE  AverageEntry(p, signed, price) \in Entries
<1> DEFINE m == Magnitude(p.qty)
           k == Magnitude(signed)
           e == p.entry[1]
           d == p.entry[2]
<1>1. m \in Nat /\ k \in Nat \ {0} /\ e \in Nat /\ d \in Nat \ {0}
  BY DEF Positions, Entries, Magnitude
<1>2. AverageEntry(p, signed, price) = Fraction(m * e + k * price * d, d * (m + k))
  BY DEF AverageEntry
<1> HIDE DEF m, k, e, d
<1>3. m * e \in Nat /\ k * price \in Nat
  BY <1>1, Products
<1>4. (k * price) * d \in Nat
  BY <1>1, <1>3, Products
<1>5. m + k \in Nat /\ m + k # 0
  BY <1>1
<1>6. d * (m + k) \in Nat /\ d * (m + k) # 0
  BY <1>1, <1>5, Products
<1>7. PICK x, y \in Nat : x = m * e + k * price * d /\ y = d * (m + k) /\ y # 0
  BY <1>3, <1>4, <1>6
<1>8. Fraction(x, y) \in Entries
  BY <1>7, FractionType DEF Entries
<1>9. QED
  BY <1>2, <1>7, <1>8

\* A fill makes a position of a position.
LEMMA PositionType ==
  ASSUME NEW p \in Positions, NEW signed \in Int, signed # 0, NEW price \in Nat
  PROVE  PositionAfter(p, signed, price) \in Positions
<1>1. AverageEntry(p, signed, price) \in Entries
  BY AverageType
<1>2. Zero \in Entries /\ <<price, 1>> \in Entries /\ p.entry \in Entries
  BY DEF Zero, Entries, Positions
<1>3. EntryAfter(p, signed, price) \in Entries
  BY <1>1, <1>2 DEF EntryAfter
<1>4. QtyAfter(p, signed) \in Int
  BY DEF QtyAfter, Positions
<1>5. QED
  BY <1>3, <1>4 DEF PositionAfter, Positions

\* A raised strategy has ended its run; there is an accepted tick to decide about.
RunInv ==
  /\ raised => status = "failed"
  /\ CountsAreRight

Statuses == {"ready", "ticking", "deciding", "failed", "done"}
Fills == [symbol : RawSymbols, signed : Int, price : Nat]
DeclaredOK ==
  /\ inputs \subseteq Keys /\ targets \subseteq UNION {OrderTargets(s) : s \in Declaring}
RunOK ==
  /\ status \in Statuses /\ bars \in Nat /\ orders \in Nat
  /\ runs \in 0..MaxRuns /\ met \in 0..MaxTicks
  /\ before \in [accepted : Nat, fills : Nat] /\ raised \in BOOLEAN
WalletOK ==
  /\ marks \in [RawSymbols -> Nat \cup {NoPrice}] /\ positions \in [RawSymbols -> Positions]
  /\ fills \in Seq(Fills)
ViewOK == view \in [Keys -> Ticks \cup {NoTick}] /\ accepted \in Seq(Ticks)

LEMMA TypeParts == TypeOK <=> DeclaredOK /\ RunOK /\ WalletOK /\ ViewOK
  BY Zenon DEF TypeOK, DeclaredOK, RunOK, WalletOK, ViewOK, Statuses, Fills, Positions, Entries

\* An order that is well formed has a quantity, and is filled at a price.
LEMMA FillType ==
  ASSUME TypeOK, RunInv, status = "deciding", NEW d \in Decisions, WellFormed(d)
  PROVE  /\ d.symbol \in RawSymbols /\ FillPrice(d) \in Nat
         /\ SignedQty(d.side, d.qty) \in Int /\ SignedQty(d.side, d.qty) # 0
<1>1. d.symbol \in RawSymbols /\ d.qty \in Int /\ d.price \in Nat \cup {NoPrice}
  BY TickAssumption
<1>2. SignedQty(d.side, d.qty) \in Int /\ SignedQty(d.side, d.qty) # 0
  BY <1>1 DEF SignedQty, WellFormed
<1>3. Len(accepted) \in 1..Len(accepted)
  <2>1. /\ bars + 1 = Len(accepted) - before.accepted
        /\ bars \in Nat /\ before.accepted \in Nat /\ Len(accepted) \in Nat
    BY TypeParts DEF RunInv, CountsAreRight, RunOK, ViewOK
  <2>2. QED
    BY <2>1
<1>4. accepted[Len(accepted)] \in Ticks
  BY <1>3, TypeParts DEF ViewOK
<1>5. accepted[Len(accepted)].price \in Nat
  BY <1>4, TickAssumption
<1>6. FillPrice(d) \in Nat
  BY <1>1, <1>5 DEF FillPrice
<1>7. QED
  BY <1>1, <1>2, <1>6

\* What appending does to a sequence's length and elements.
LEMMA Appended ==
  ASSUME NEW S, NEW q \in Seq(S), NEW x \in S
  PROVE  /\ Len(q) \in Nat /\ Append(q, x) \in Seq(S) /\ Len(Append(q, x)) = Len(q) + 1
         /\ \A i \in 1..Len(q) : Append(q, x)[i] = q[i] /\ q[i] \in S
         /\ Append(q, x)[Len(q) + 1] = x
  OBVIOUS

\* Every step keeps the types, and counts what it does.
LEMMA RunNext == TypeOK /\ RunInv /\ [Next]_vars => TypeOK' /\ RunInv'
<1> SUFFICES ASSUME TypeOK, RunInv, [Next]_vars PROVE TypeOK' /\ RunInv'
  OBVIOUS
<1> DeclaredOK /\ RunOK /\ WalletOK /\ ViewOK
  BY TypeParts
<1> SUFFICES DeclaredOK' /\ RunOK' /\ WalletOK' /\ ViewOK' /\ RunInv'
  BY DEF TypeOK, DeclaredOK, RunOK, WalletOK, ViewOK, Statuses, Fills, Positions, Entries
<1> Len(fills) \in Nat /\ Len(accepted) \in Nat
  BY DEF WalletOK, ViewOK
<1>1. ASSUME NEW s \in Strategies, Run(s)
      PROVE  DeclaredOK' /\ RunOK' /\ WalletOK' /\ ViewOK' /\ RunInv'
  <2>1. s \in Declaring
    BY <1>1 DEF Run, Declaring
  <2>2. DeclaredOK'
    BY <1>1, <2>1 DEF Run, DeclaredOK, Keys
  <2>3. RunOK'
    <3>1. runs' \in 0..MaxRuns /\ met' \in 0..MaxTicks
      BY <1>1, ReplayBounds DEF Run, Begins, RunOK
    <3>2. before' \in [accepted : Nat, fills : Nat]
      BY <1>1 DEF Run
    <3>3. status' \in Statuses /\ bars' \in Nat /\ orders' \in Nat /\ raised' \in BOOLEAN
      BY <1>1 DEF Run, Statuses
    <3>4. QED
      BY <3>1, <3>2, <3>3 DEF RunOK
  <2>4. WalletOK' /\ ViewOK'
    BY <1>1 DEF Run, account, WalletOK, ViewOK, EmptyView
  <2>5. RunInv'
    BY <1>1 DEF Run, RunInv, CountsAreRight
  <2>6. QED
    BY <2>2, <2>3, <2>4, <2>5
<1>2. CASE RunRaises \/ Finish \/ StrategyRaises \/ \E t \in Ticks : TickRaises(t)
  <2>1. DeclaredOK' /\ WalletOK' /\ ViewOK'
    BY <1>2 DEF RunRaises, Finish, StrategyRaises, TickRaises, declared, account, DeclaredOK,
                WalletOK, ViewOK
  <2>2. RunOK'
    <3>1. runs' \in 0..MaxRuns /\ met' \in 0..MaxTicks
      BY <1>2, ReplayBounds DEF RunRaises, Begins, Finish, StrategyRaises, TickRaises, Meets, RunOK
    <3>2. UNCHANGED <<bars, orders, before>>
      BY <1>2 DEF RunRaises, Finish, StrategyRaises, TickRaises, counters
    <3>3. status' \in Statuses /\ raised' \in BOOLEAN
      BY <1>2 DEF RunRaises, Finish, StrategyRaises, TickRaises, RunOK, Statuses
    <3>4. QED
      BY <3>1, <3>2, <3>3 DEF RunOK
  <2>3. UNCHANGED <<bars, orders, accepted, fills, before>>
    BY <1>2 DEF RunRaises, Finish, StrategyRaises, TickRaises, counters
  <2>4. /\ raised' => status' = "failed"
        /\ (status' = "deciding" \/ raised') <=> (status = "deciding" \/ raised)
    BY <1>2 DEF RunRaises, Begins, Finish, StrategyRaises, TickRaises, Meets, RunInv
  <2>5. RunInv'
    BY <2>3, <2>4 DEF RunInv, CountsAreRight
  <2>6. QED
    BY <2>1, <2>2, <2>5
<1>3. ASSUME NEW t \in Ticks, TickSkipped(t)
      PROVE  DeclaredOK' /\ RunOK' /\ WalletOK' /\ ViewOK' /\ RunInv'
  <2>1. DeclaredOK' /\ WalletOK' /\ ViewOK'
    BY <1>3 DEF TickSkipped, MarksAfterSkip, declared, DeclaredOK, WalletOK, ViewOK
  <2>2. RunOK'
    BY <1>3, ReplayBounds DEF TickSkipped, BarsAfterSkip, Meets, RunOK
  <2>3. RunInv'
    BY <1>3 DEF TickSkipped, BarsAfterSkip, RunInv, CountsAreRight
  <2>4. QED
    BY <2>1, <2>2, <2>3
<1>4. ASSUME NEW t \in Ticks, TickAccepted(t)
      PROVE  DeclaredOK' /\ RunOK' /\ WalletOK' /\ ViewOK' /\ RunInv'
  <2>1. t.symbol \in RawSymbols /\ t.price \in Nat
    BY TickAssumption
  <2>2. accepted' = Append(accepted, t)
    BY <1>4 DEF TickAccepted
  <2>3. accepted' \in Seq(Ticks) /\ Len(accepted') = Len(accepted) + 1
    BY <2>2, Appended DEF ViewOK
  <2>4. DeclaredOK' /\ WalletOK'
    BY <1>4, <2>1 DEF TickAccepted, MarksAfter, declared, DeclaredOK, WalletOK
  <2>5. ViewOK'
    BY <1>4, <2>3 DEF TickAccepted, ViewAfter, ViewOK
  <2>6. RunOK'
    BY <1>4, ReplayBounds DEF TickAccepted, Meets, counters, RunOK, Statuses
  <2>7. RunInv'
    BY <1>4, <2>3 DEF TickAccepted, Meets, counters, RunInv, CountsAreRight, RunOK
  <2>8. QED
    BY <2>4, <2>5, <2>6, <2>7
<1>5. CASE NoOrder \/ \E d \in Decisions : OrderRejected(d)
  <2>1. DeclaredOK' /\ WalletOK' /\ ViewOK'
    BY <1>5 DEF NoOrder, OrderRejected, PositionsAfterReject, declared, account, DeclaredOK, WalletOK,
                ViewOK
  <2>2. RunOK'
    BY <1>5 DEF NoOrder, OrderRejected, RunOK, Statuses
  <2>3. RunInv'
    BY <1>5 DEF NoOrder, OrderRejected, RunInv, CountsAreRight, RunOK
  <2>4. QED
    BY <2>1, <2>2, <2>3
<1>6. ASSUME NEW d \in Decisions, OrderFilled(d)
      PROVE  DeclaredOK' /\ RunOK' /\ WalletOK' /\ ViewOK' /\ RunInv'
  <2> DEFINE x == [symbol |-> d.symbol, signed |-> SignedQty(d.side, d.qty), price |-> FillPrice(d)]
  <2>1. /\ d.symbol \in RawSymbols /\ FillPrice(d) \in Nat
        /\ SignedQty(d.side, d.qty) \in Int /\ SignedQty(d.side, d.qty) # 0
    BY <1>6, FillType DEF OrderFilled
  <2>2. x \in Fills /\ fills' = Append(fills, x)
    BY <1>6, <2>1 DEF OrderFilled, Fills
  <2>3. fills' \in Seq(Fills) /\ Len(fills') = Len(fills) + 1
    BY <2>2, Appended DEF WalletOK
  <2>4. positions' \in [RawSymbols -> Positions]
    <3>1. PositionAfter(positions[d.symbol], SignedQty(d.side, d.qty), FillPrice(d)) \in Positions
      BY <2>1, PositionType DEF WalletOK
    <3>2. QED
      BY <1>6, <3>1 DEF OrderFilled, PositionsAfter, WalletOK
  <2>5. DeclaredOK' /\ WalletOK' /\ ViewOK'
    BY <1>6, <2>3, <2>4 DEF OrderFilled, declared, DeclaredOK, WalletOK, ViewOK
  <2>6. RunOK'
    BY <1>6 DEF OrderFilled, RunOK, Statuses
  <2>7. RunInv'
    BY <1>6, <2>3 DEF OrderFilled, RunInv, CountsAreRight, RunOK
  <2>8. QED
    BY <2>5, <2>6, <2>7
<1>7. CASE UNCHANGED vars
  <2>1. UNCHANGED <<status, inputs, targets, view, bars, orders, marks, positions, runs, met,
                    accepted, fills, before, raised>>
    BY <1>7 DEF vars, declared, counters, account
  <2>2. QED
    BY <2>1 DEF DeclaredOK, RunOK, WalletOK, ViewOK, RunInv, CountsAreRight
<1>8. QED
  BY <1>1, <1>2, <1>3, <1>4, <1>5, <1>6, <1>7 DEF Next

LEMMA RunInit == Init => TypeOK /\ RunInv
<1> SUFFICES ASSUME Init PROVE DeclaredOK /\ RunOK /\ WalletOK /\ ViewOK /\ RunInv
  BY TypeParts
<1>1. DeclaredOK /\ RunOK
  <2>1. runs \in 0..MaxRuns /\ met \in 0..MaxTicks
    BY ReplayBounds DEF Init
  <2>2. before \in [accepted : Nat, fills : Nat]
    BY DEF Init
  <2>3. status \in Statuses /\ bars \in Nat /\ orders \in Nat /\ raised \in BOOLEAN
    BY DEF Init, Statuses
  <2>4. DeclaredOK
    BY DEF Init, DeclaredOK
  <2>5. QED
    BY <2>1, <2>2, <2>3, <2>4 DEF RunOK
<1>2. WalletOK
  BY DEF Init, WalletOK, Flat, Zero, Positions, Entries
<1>3. ViewOK
  BY DEF Init, ViewOK
<1>4. RunInv
  BY DEF Init, RunInv, CountsAreRight
<1>5. QED
  BY <1>1, <1>2, <1>3, <1>4

\* Type correctness of a replay: prices, entry prices and positions among it.
THEOREM TypeCorrect == Spec => []TypeOK
  BY RunInit, RunNext, PTL DEF Spec

\* The counters of a result count its run's accepted bars and its fills, whatever
\* ended the run or the runs before it.
THEOREM CountersRight == Spec => []CountsAreRight
<1>1. TypeOK /\ RunInv => CountsAreRight
  BY DEF RunInv
<1>2. QED
  BY <1>1, RunInit, RunNext, PTL DEF Spec
-----------------------------------------------------------------------------
(* What the strategy sees, and the mark prices.                             *)

\* Where this run accepted a tick of an input, and where any run accepted one of a
\* symbol.
SeenAt(k) == {i \in (before.accepted + 1)..Len(accepted) : InputKey(accepted[i]) = k}
MarkedAt(s) == {i \in (0 + 1)..Len(accepted) : accepted[i].symbol = s}
ViewInv == \A k \in Keys :
  \/ SeenAt(k) = {} /\ view[k] = NoTick
  \/ \E i \in SeenAt(k) : (\A j \in SeenAt(k) : j <= i) /\ view[k] = accepted[i]
MarksInv == \A s \in RawSymbols :
  \/ MarkedAt(s) = {} /\ marks[s] = NoPrice
  \/ \E i \in MarkedAt(s) : (\A j \in MarkedAt(s) : j <= i) /\ marks[s] = accepted[i].price

\* The latest is the last.
LEMMA LatestFromInv == TypeOK /\ ViewInv /\ MarksInv => LatestIsSeen
<1> SUFFICES ASSUME TypeOK, ViewInv, MarksInv PROVE LatestIsSeen
  OBVIOUS
<1>1. Len(accepted) \in Nat /\ before.accepted \in Nat
  BY TypeParts DEF ViewOK, RunOK
<1>2. ASSUME NEW k \in Keys
      PROVE  LET i == IF SeenAt(k) = {} THEN 0 ELSE Max(SeenAt(k))
             IN  view[k] = IF i = 0 THEN NoTick ELSE accepted[i]
  <2>1. CASE SeenAt(k) = {} /\ view[k] = NoTick
    BY <2>1
  <2>2. ASSUME NEW i \in SeenAt(k), \A j \in SeenAt(k) : j <= i, view[k] = accepted[i]
        PROVE  /\ SeenAt(k) # {} /\ Max(SeenAt(k)) = i /\ i # 0
    <3>1. SeenAt(k) \in SUBSET Int /\ i # 0
      BY <1>1 DEF SeenAt
    <3>2. QED
      BY <2>2, <3>1, GreatestIsMax
  <2>3. QED
    BY <2>1, <2>2 DEF ViewInv
<1>3. ASSUME NEW s \in RawSymbols
      PROVE  LET i == IF MarkedAt(s) = {} THEN 0 ELSE Max(MarkedAt(s))
             IN  marks[s] = IF i = 0 THEN NoPrice ELSE accepted[i].price
  <2>1. CASE MarkedAt(s) = {} /\ marks[s] = NoPrice
    BY <2>1
  <2>2. ASSUME NEW i \in MarkedAt(s), \A j \in MarkedAt(s) : j <= i, marks[s] = accepted[i].price
        PROVE  /\ MarkedAt(s) # {} /\ Max(MarkedAt(s)) = i /\ i # 0
    <3>1. MarkedAt(s) \in SUBSET Int /\ i # 0
      BY <1>1 DEF MarkedAt
    <3>2. QED
      BY <2>2, <3>1, GreatestIsMax
  <2>3. QED
    BY <2>1, <2>2 DEF MarksInv
<1>4. QED
  BY <1>2, <1>3, Zenon DEF LatestIsSeen, LastWhere, SeenAt, MarkedAt

\* Every step keeps the view and the mark prices at the latest tick.
LEMMA LatestNext == TypeOK /\ RunInv /\ ViewInv /\ MarksInv /\ [Next]_vars => ViewInv' /\ MarksInv'
<1> SUFFICES ASSUME TypeOK, RunInv, ViewInv, MarksInv, [Next]_vars PROVE ViewInv' /\ MarksInv'
  OBVIOUS
<1> DEFINE n == Len(accepted)
<1>1. /\ n \in Nat /\ before.accepted \in Nat /\ before.accepted <= n /\ accepted \in Seq(Ticks)
      /\ inputs \subseteq Keys /\ view \in [Keys -> Ticks \cup {NoTick}]
      /\ marks \in [RawSymbols -> Nat \cup {NoPrice}]
  <2>1. bars \in Nat /\ bars + (IF status = "deciding" \/ raised THEN 1 ELSE 0) = n - before.accepted
    BY TypeParts DEF RunOK, RunInv, CountsAreRight
  <2>2. QED
    BY <2>1, TypeParts DEF RunOK, ViewOK, WalletOK, DeclaredOK
<1>2. ASSUME NEW t \in Ticks, TickAccepted(t) PROVE ViewInv' /\ MarksInv'
  <2>1. /\ accepted' = Append(accepted, t) /\ before' = before /\ InputKey(t) \in Keys
        /\ view' = [view EXCEPT ![InputKey(t)] = t] /\ marks' = [marks EXCEPT ![t.symbol] = t.price]
        /\ t.symbol \in RawSymbols
    BY <1>1, <1>2, TickAssumption DEF TickAccepted, ViewAfter, MarksAfter
  <2>2. /\ Len(accepted') = n + 1 /\ accepted'[n + 1] = t
        /\ \A i \in 1..n : accepted'[i] = accepted[i]
    BY <1>1, <2>1, Appended
  <2> HIDE DEF n
  <2>3. ASSUME NEW k \in Keys
        PROVE  SeenAt(k)' = IF InputKey(t) = k THEN SeenAt(k) \cup {n + 1} ELSE SeenAt(k)
    <3>1. SeenAt(k)' = {i \in (before.accepted + 1)..(n + 1) : InputKey(accepted'[i]) = k}
      BY <2>1, <2>2 DEF SeenAt, InputKey
    <3>2. SeenAt(k) = {i \in (before.accepted + 1)..n : InputKey(accepted[i]) = k}
      BY DEF SeenAt, n
    <3>3. \A i : i \in (before.accepted + 1)..(n + 1) <=>
                   i \in (before.accepted + 1)..n \/ i = n + 1
      BY <1>1
    <3>4. \A i \in (before.accepted + 1)..n : accepted'[i] = accepted[i] /\ i # n + 1
      BY <1>1, <2>2
    <3>5. QED
      BY <2>2, <3>1, <3>2, <3>3, <3>4
  <2>4. ASSUME NEW s \in RawSymbols
        PROVE  MarkedAt(s)' = IF t.symbol = s THEN MarkedAt(s) \cup {n + 1} ELSE MarkedAt(s)
    <3>1. MarkedAt(s)' = {i \in 1..(n + 1) : accepted'[i].symbol = s}
      BY <2>1, <2>2 DEF MarkedAt
    <3>2. MarkedAt(s) = {i \in 1..n : accepted[i].symbol = s}
      BY DEF MarkedAt, n
    <3>3. \A i : i \in 1..(n + 1) <=> i \in 1..n \/ i = n + 1
      BY <1>1
    <3>4. QED
      BY <1>1, <2>2, <3>1, <3>2, <3>3
  <2>5. ASSUME NEW k \in Keys
        PROVE  SeenAt(k) \subseteq 1..n /\ \A i \in SeenAt(k) : accepted'[i] = accepted[i] /\ i <= n + 1
    BY <1>1, <2>2 DEF SeenAt, n
  <2>6. ASSUME NEW s \in RawSymbols
        PROVE  MarkedAt(s) \subseteq 1..n /\ \A i \in MarkedAt(s) : accepted'[i] = accepted[i] /\ i <= n + 1
    BY <1>1, <2>2 DEF MarkedAt, n
  <2>7. ASSUME NEW k \in Keys
        PROVE  \/ SeenAt(k)' = {} /\ view'[k] = NoTick
               \/ \E i \in SeenAt(k)' : (\A j \in SeenAt(k)' : j <= i) /\ view'[k] = accepted'[i]
    <3>1. CASE InputKey(t) = k
      <4>1. n + 1 \in SeenAt(k)' /\ view'[k] = accepted'[n + 1]
        BY <1>1, <2>1, <2>2, <2>3, <3>1
      <4>2. \A j \in SeenAt(k)' : j <= n + 1
        BY <1>1, <2>3, <2>5, <3>1
      <4>3. QED
        BY <4>1, <4>2
    <3>2. CASE InputKey(t) # k
      <4>1. SeenAt(k)' = SeenAt(k) /\ view'[k] = view[k]
        BY <1>1, <2>1, <2>3, <3>2
      <4>2. QED
        BY <2>5, <4>1 DEF ViewInv
    <3>3. QED
      BY <3>1, <3>2
  <2>8. ASSUME NEW s \in RawSymbols
        PROVE  \/ MarkedAt(s)' = {} /\ marks'[s] = NoPrice
               \/ \E i \in MarkedAt(s)' : (\A j \in MarkedAt(s)' : j <= i) /\ marks'[s] = accepted'[i].price
    <3>1. CASE t.symbol = s
      <4>1. n + 1 \in MarkedAt(s)' /\ marks'[s] = accepted'[n + 1].price
        BY <1>1, <2>1, <2>2, <2>4, <3>1
      <4>2. \A j \in MarkedAt(s)' : j <= n + 1
        BY <1>1, <2>4, <2>6, <3>1
      <4>3. QED
        BY <4>1, <4>2
    <3>2. CASE t.symbol # s
      <4>1. MarkedAt(s)' = MarkedAt(s) /\ marks'[s] = marks[s]
        BY <1>1, <2>1, <2>4, <3>2
      <4>2. QED
        BY <2>6, <4>1 DEF MarksInv
    <3>3. QED
      BY <3>1, <3>2
  <2>9. QED
    BY <2>7, <2>8 DEF ViewInv, MarksInv
<1>3. ASSUME NEW s \in Strategies, Run(s) PROVE ViewInv' /\ MarksInv'
  <2>1. UNCHANGED <<accepted, marks>> /\ before'.accepted = n /\ view' = [k \in Keys |-> NoTick]
    BY <1>3 DEF Run, account, EmptyView
  <2>2. \A k \in Keys : SeenAt(k)' = {}
    BY <1>1, <2>1 DEF SeenAt
  <2>3. MarksInv'
    BY <2>1 DEF MarksInv, MarkedAt
  <2>4. QED
    BY <2>1, <2>2, <2>3 DEF ViewInv
<1>4. CASE UNCHANGED <<accepted, before, view, marks>>
  <2>1. /\ \A k : SeenAt(k)' = SeenAt(k)
        /\ \A s : MarkedAt(s)' = MarkedAt(s)
    BY <1>4 DEF SeenAt, MarkedAt
  <2>2. QED
    BY <1>4, <2>1 DEF ViewInv, MarksInv
<1>5. CASE \/ RunRaises \/ StrategyRaises \/ NoOrder \/ Finish
           \/ (\E t \in Ticks : TickRaises(t) \/ TickSkipped(t))
           \/ (\E d \in Decisions : OrderRejected(d) \/ OrderFilled(d)) \/ UNCHANGED vars
  BY <1>4, <1>5 DEF RunRaises, StrategyRaises, NoOrder, Finish, TickRaises, TickSkipped, MarksAfterSkip,
                    OrderRejected, OrderFilled, account, vars
<1>6. QED
  BY <1>2, <1>3, <1>5 DEF Next

\* The strategy sees of each declared input the latest tick of its run, and the mark
\* price of a symbol is that of its latest declared tick: no tick that is to come, that
\* was skipped or that an earlier run left behind is seen.
THEOREM LatestSeen == Spec => []LatestIsSeen
<1> DEFINE Inv == TypeOK /\ RunInv /\ ViewInv /\ MarksInv
<1>1. Init => Inv
  <2>1. Init => ViewInv /\ MarksInv
    BY DEF Init, ViewInv, MarksInv, SeenAt, MarkedAt
  <2>2. QED
    BY <2>1, RunInit
<1>2. Inv /\ [Next]_vars => Inv'
  BY RunNext, LatestNext
<1>3. Inv => LatestIsSeen
  BY LatestFromInv
<1> HIDE DEF Inv
<1>4. QED
  BY <1>1, <1>2, <1>3, PTL DEF Spec
-----------------------------------------------------------------------------
(* Sums.                                                                    *)

\* g has the sums of f up to n.
At(f, m) == IF m \in DOMAIN f THEN f[m] ELSE 0
IsSum(f, n, g) == g = [m \in 0..n |-> IF m = 0 THEN 0 ELSE g[m - 1] + At(f, m)]

\* A function that is so defined has these values.
LEMMA SumValues ==
  ASSUME NEW f, NEW n \in Nat, NEW g, IsSum(f, n, g)
  PROVE  g[0] = 0 /\ \A m \in 1..n : g[m] = g[m - 1] + At(f, m)
<1>1. g = [m \in 0..n |-> IF m = 0 THEN 0 ELSE g[m - 1] + At(f, m)]
  BY DEF IsSum
<1>2. \A m \in 0..n : g[m] = IF m = 0 THEN 0 ELSE g[m - 1] + At(f, m)
  BY <1>1
<1>3. QED
  BY <1>2

\* There are sums up to any number: from the least one without, one could go back.
LEMMA SumsExist ==
  ASSUME NEW f, NEW n \in Nat
  PROVE  \E g : IsSum(f, n, g)
<1>1. \E g : IsSum(f, 0, g)
  <2>1. IsSum(f, 0, [m \in 0..0 |-> 0])
    BY DEF IsSum
  <2>2. QED
    BY <2>1
<1>2. ASSUME NEW k \in Nat, NEW g, IsSum(f, k, g) PROVE \E h : IsSum(f, k + 1, h)
  <2> DEFINE h == [m \in 0..(k + 1) |-> IF m = k + 1 THEN g[k] + At(f, k + 1) ELSE g[m]]
  <2>1. g[0] = 0 /\ \A m \in 1..k : g[m] = g[m - 1] + At(f, m)
    BY <1>2, SumValues
  <2>2. \A m \in 0..k : h[m] = g[m]
    OBVIOUS
  <2>3. h[k + 1] = g[k] + At(f, k + 1)
    OBVIOUS
  <2>4. ASSUME NEW m \in 0..(k + 1) PROVE h[m] = IF m = 0 THEN 0 ELSE h[m - 1] + At(f, m)
    <3>1. CASE m = k + 1
      <4>1. m # 0 /\ m - 1 = k /\ k \in 0..k
        BY <3>1
      <4>2. QED
        BY <2>2, <2>3, <3>1, <4>1
    <3>2. CASE m # k + 1 /\ m # 0
      <4>1. m \in 1..k /\ m \in 0..k /\ m - 1 \in 0..k
        BY <3>2
      <4>2. QED
        BY <2>1, <2>2, <3>2, <4>1
    <3>3. CASE m = 0
      <4>1. 0 \in 0..k
        OBVIOUS
      <4>2. QED
        BY <2>1, <2>2, <3>3, <4>1
    <3>4. QED
      BY <3>1, <3>2, <3>3
  <2>5. h = [m \in 0..(k + 1) |-> IF m = 0 THEN 0 ELSE h[m - 1] + At(f, m)]
    BY <2>4
  <2> HIDE DEF h
  <2>6. QED
    BY <2>5 DEF IsSum
<1> DEFINE Without == {k \in Nat : ~\E g : IsSum(f, k, g)}
<1>3. Without = {}
  <2> SUFFICES ASSUME Without # {} PROVE FALSE
    OBVIOUS
  <2>1. PICK k \in Without : \A j \in Without : k <= j
    <3>1. Without \in SUBSET Nat
      OBVIOUS
    <3> HIDE DEF Without
    <3>2. QED
      BY <3>1, HasLeast
  <2>2. k \in Nat /\ k # 0 /\ ~\E g : IsSum(f, k, g)
    BY <1>1
  <2>3. k - 1 \in Nat /\ (k - 1) + 1 = k /\ k - 1 \notin Without
    BY <2>1, <2>2
  <2>4. \E g : IsSum(f, k - 1, g)
    BY <2>3
  <2>5. \E g : IsSum(f, (k - 1) + 1, g)
    BY <1>2, <2>3, <2>4
  <2>6. QED
    BY <2>2, <2>3, <2>5
<1>4. QED
  BY <1>3

\* Two functions that are alike up to n have the same sum there, whatever follows.
LEMMA SumsAgree ==
  ASSUME NEW f, NEW h, NEW n \in Nat, \A m \in 1..n : At(f, m) = At(h, m),
         NEW i \in Nat, NEW g, IsSum(f, i, g), NEW j \in Nat, NEW k, IsSum(h, j, k), n <= i, n <= j
  PROVE  g[n] = k[n]
<1> DEFINE Apart == {m \in 0..n : g[m] # k[m]}
<1>1. Apart = {}
  <2> SUFFICES ASSUME Apart # {} PROVE FALSE
    OBVIOUS
  <2>1. PICK m \in Apart : \A l \in Apart : m <= l
    <3>1. Apart \in SUBSET Nat
      OBVIOUS
    <3> HIDE DEF Apart
    <3>2. QED
      BY <3>1, HasLeast
  <2>2. m \in 0..n /\ g[m] # k[m]
    OBVIOUS
  <2>3. g[0] = 0 /\ \A l \in 1..i : g[l] = g[l - 1] + At(f, l)
    BY SumValues
  <2>4. k[0] = 0 /\ \A l \in 1..j : k[l] = k[l - 1] + At(h, l)
    BY SumValues
  <2>5. m # 0
    BY <2>2, <2>3, <2>4
  <2>6. m \in 1..n /\ m \in 1..i /\ m \in 1..j /\ m - 1 \in 0..n /\ ~(m <= m - 1)
    BY <2>2, <2>5
  <2>7. g[m - 1] = k[m - 1]
    BY <2>1, <2>6
  <2>8. QED
    BY <2>2, <2>3, <2>4, <2>6, <2>7
<1>2. n \in 0..n
  OBVIOUS
<1>3. QED
  BY <1>1, <1>2

\* SumUpTo() is what the name says.
LEMMA SumIsSum ==
  ASSUME NEW f, NEW n \in Nat
  PROVE  \E g : IsSum(f, n, g) /\ SumUpTo(f, n) = g[n]
<1> DEFINE g == CHOOSE k : IsSum(f, n, k)
<1>1. SumUpTo(f, n) = g[n]
  BY Zenon DEF SumUpTo, IsSum, At
<1>2. IsSum(f, n, g)
  BY SumsExist
<1>3. QED
  BY <1>1, <1>2

\* The sum up to n depends on what there is up to n.
LEMMA SumSame ==
  ASSUME NEW f, NEW h, NEW n \in Nat, \A m \in 1..n : At(f, m) = At(h, m)
  PROVE  SumUpTo(f, n) = SumUpTo(h, n)
<1>1. PICK g : IsSum(f, n, g) /\ SumUpTo(f, n) = g[n]
  BY SumIsSum
<1>2. PICK k : IsSum(h, n, k) /\ SumUpTo(h, n) = k[n]
  BY SumIsSum
<1>3. g[n] = k[n]
  BY <1>1, <1>2, SumsAgree
<1>4. QED
  BY <1>1, <1>2, <1>3

\* The sum up to n + 1 is one element more.
LEMMA SumNext ==
  ASSUME NEW f, NEW n \in Nat
  PROVE  SumUpTo(f, 0) = 0 /\ SumUpTo(f, n + 1) = SumUpTo(f, n) + At(f, n + 1)
<1>1. SumUpTo(f, 0) = 0
  <2>1. PICK g : IsSum(f, 0, g) /\ SumUpTo(f, 0) = g[0]
    BY SumIsSum
  <2>2. g[0] = 0
    BY <2>1, SumValues
  <2>3. QED
    BY <2>1, <2>2
<1>2. PICK g : IsSum(f, n, g) /\ SumUpTo(f, n) = g[n]
  BY SumIsSum
<1>3. PICK k : IsSum(f, n + 1, k) /\ SumUpTo(f, n + 1) = k[n + 1]
  BY SumIsSum
<1>4. g[n] = k[n]
  <2>1. n + 1 \in Nat /\ n <= n + 1 /\ n <= n
    OBVIOUS
  <2>2. QED
    BY <1>2, <1>3, <2>1, SumsAgree
<1>5. k[n + 1] = k[n] + At(f, n + 1)
  <2>1. n + 1 \in Nat /\ n + 1 \in 1..(n + 1) /\ (n + 1) - 1 = n
    OBVIOUS
  <2>2. k[n + 1] = k[(n + 1) - 1] + At(f, n + 1)
    BY <1>3, <2>1, SumValues
  <2>3. QED
    BY <2>1, <2>2
<1>6. QED
  BY <1>1, <1>2, <1>3, <1>4, <1>5

\* A sum of integers is one, one of naturals too, and one of zeros is zero.
LEMMA SumType ==
  ASSUME NEW S, S = Int \/ S = Nat \/ S = {0}, NEW f, NEW n \in Nat,
         \A m \in 1..n : At(f, m) \in S
  PROVE  SumUpTo(f, n) \in S
<1> DEFINE Not == {m \in 0..n : SumUpTo(f, m) \notin S}
<1>1. Not = {}
  <2> SUFFICES ASSUME Not # {} PROVE FALSE
    OBVIOUS
  <2>1. PICK m \in Not : \A l \in Not : m <= l
    <3>1. Not \in SUBSET Nat
      OBVIOUS
    <3> HIDE DEF Not
    <3>2. QED
      BY <3>1, HasLeast
  <2>2. m \in 0..n /\ SumUpTo(f, m) \notin S
    OBVIOUS
  <2>3. m # 0
    BY <2>2, SumNext
  <2>4. m - 1 \in Nat /\ m - 1 \in 0..n /\ m \in 1..n /\ (m - 1) + 1 = m /\ ~(m <= m - 1)
    BY <2>2, <2>3
  <2>5. SumUpTo(f, m - 1) \in S
    BY <2>1, <2>4
  <2>6. SumUpTo(f, m) = SumUpTo(f, m - 1) + At(f, m)
    <3>1. SumUpTo(f, (m - 1) + 1) = SumUpTo(f, m - 1) + At(f, (m - 1) + 1)
      BY <2>4, SumNext
    <3>2. QED
      BY <2>4, <3>1
  <2>7. QED
    BY <2>2, <2>4, <2>5, <2>6
<1>2. n \in 0..n
  OBVIOUS
<1>3. QED
  BY <1>1, <1>2
-----------------------------------------------------------------------------
(* What a position is made of.                                              *)

\* A fill leaves the nets before it, and adds to that of its symbol.
LEMMA FillAdds ==
  ASSUME WalletOK, NEW x \in Fills, fills' = Append(fills, x), NEW s \in RawSymbols
  PROVE  /\ Len(fills) \in Nat /\ Len(fills') = Len(fills) + 1 /\ fills'[Len(fills) + 1] = x
         /\ FillsOf(s) \subseteq 1..Len(fills)
         /\ \A m \in 1..Len(fills) : fills'[m] = fills[m] /\ fills[m] \in Fills
         /\ FillsOf(s)' = IF x.symbol = s THEN FillsOf(s) \cup {Len(fills) + 1} ELSE FillsOf(s)
         /\ \A n \in 0..Len(fills) : NetAfter(s, n)' = NetAfter(s, n) /\ NetAfter(s, n) \in Int
         /\ NetAfter(s, Len(fills))' =
              NetAfter(s, Len(fills)) + (IF x.symbol = s THEN x.signed ELSE 0)
<1> DEFINE n == Len(fills)
<1>1. /\ n \in Nat /\ Len(fills') = n + 1 /\ fills'[n + 1] = x
      /\ \A m \in 1..n : fills'[m] = fills[m] /\ fills[m] \in Fills
      /\ DOMAIN fills = 1..n /\ DOMAIN fills' = 1..(n + 1)
  <2>1. fills \in Seq(Fills) /\ fills' \in Seq(Fills)
    BY Appended DEF WalletOK
  <2>2. QED
    BY <2>1, Appended
<1> HIDE DEF n
<1>2. FillsOf(s) = {i \in 1..n : fills[i].symbol = s}
  BY <1>1 DEF FillsOf
<1>3. FillsOf(s)' = {i \in 1..(n + 1) : fills'[i].symbol = s}
  BY <1>1 DEF FillsOf
<1>4. FillsOf(s)' = IF x.symbol = s THEN FillsOf(s) \cup {n + 1} ELSE FillsOf(s)
  <2>1. \A m : m \in 1..(n + 1) <=> m \in 1..n \/ m = n + 1
    BY <1>1
  <2>2. QED
    BY <1>1, <1>2, <1>3, <2>1
<1>5. PICK f : f = [i \in FillsOf(s) |-> fills[i].signed]
  OBVIOUS
<1>6. PICK h : h = [i \in FillsOf(s)' |-> fills'[i].signed]
  OBVIOUS
<1>7. /\ \A m : NetAfter(s, m) = SumUpTo(f, m) /\ NetAfter(s, m)' = SumUpTo(h, m)
      /\ NetAfter(s, n) = SumUpTo(f, n) /\ NetAfter(s, Len(fills))' = SumUpTo(h, n + 1)
  BY <1>1, <1>5, <1>6, Zenon DEF NetAfter
<1>8. \A m \in 1..n : At(f, m) = At(h, m) /\ At(f, m) \in Int
  BY <1>1, <1>2, <1>4, <1>5, <1>6 DEF At, Fills
<1>9. At(h, n + 1) = IF x.symbol = s THEN x.signed ELSE 0
  BY <1>1, <1>2, <1>4, <1>6 DEF At
<1>10. ASSUME NEW m \in 0..n PROVE SumUpTo(h, m) = SumUpTo(f, m) /\ SumUpTo(f, m) \in Int
  <2>1. m \in Nat /\ \A l \in 1..m : l \in 1..n
    BY <1>1
  <2>2. QED
    BY <1>8, <2>1, SumSame, SumType
<1>11. SumUpTo(h, n + 1) = SumUpTo(f, n) + (IF x.symbol = s THEN x.signed ELSE 0)
  <2>1. n \in 0..n
    BY <1>1
  <2>2. QED
    BY <1>1, <1>9, <1>10, <2>1, SumNext
<1>12. QED
  BY <1>1, <1>2, <1>4, <1>7, <1>10, <1>11 DEF n

\* What an order that is filled makes of the position it is for, and of the others.
LEMMA FillEffect ==
  ASSUME TypeOK, RunInv, NEW d \in Decisions, OrderFilled(d)
  PROVE  \E x \in Fills :
           /\ fills' = Append(fills, x) /\ x.signed # 0
           /\ \A s \in RawSymbols :
                positions'[s] = IF x.symbol = s THEN PositionAfter(positions[s], x.signed, x.price)
                                ELSE positions[s]
<1> DEFINE q == SignedQty(d.side, d.qty)
           x == [symbol |-> d.symbol, signed |-> q, price |-> FillPrice(d)]
<1> WalletOK
  BY TypeParts
<1>1. d.symbol \in RawSymbols /\ FillPrice(d) \in Nat /\ q \in Int /\ q # 0
  BY FillType DEF OrderFilled
<1>2. x \in Fills /\ fills' = Append(fills, x)
  BY <1>1 DEF OrderFilled, Fills
<1>3. x.symbol = d.symbol /\ x.signed = q /\ x.price = FillPrice(d)
  OBVIOUS
<1>4. positions' = [positions EXCEPT ![d.symbol] = PositionAfter(positions[d.symbol], q, FillPrice(d))]
  BY DEF OrderFilled, PositionsAfter
<1> HIDE DEF x, q
<1>5. QED
  BY <1>1, <1>2, <1>3, <1>4 DEF WalletOK

\* Every other step leaves the positions and the fills as they are.
LEMMA OnlyFills ==
  ASSUME [Next]_vars, \A d \in Decisions : ~OrderFilled(d)
  PROVE  UNCHANGED <<positions, fills>>
<1>1. \/ RunRaises \/ StrategyRaises \/ NoOrder \/ Finish \/ (\E s \in Strategies : Run(s))
      \/ (\E t \in Ticks : TickRaises(t) \/ TickSkipped(t) \/ TickAccepted(t))
      \/ (\E d \in Decisions : OrderRejected(d)) \/ UNCHANGED vars
  BY DEF Next
<1>2. QED
  BY <1>1 DEF RunRaises, StrategyRaises, NoOrder, Finish, Run, TickRaises, TickSkipped, TickAccepted,
              OrderRejected, PositionsAfterReject, account, vars

\* Every step keeps each position the sum of its fills.
LEMMA NetNext == TypeOK /\ RunInv /\ PositionIsNet /\ [Next]_vars => PositionIsNet'
<1> SUFFICES ASSUME TypeOK, RunInv, PositionIsNet, [Next]_vars PROVE PositionIsNet'
  OBVIOUS
<1> WalletOK
  BY TypeParts
<1>1. ASSUME NEW d \in Decisions, OrderFilled(d) PROVE PositionIsNet'
  <2>1. PICK x \in Fills :
           /\ fills' = Append(fills, x)
           /\ \A s \in RawSymbols :
                positions'[s] = IF x.symbol = s THEN PositionAfter(positions[s], x.signed, x.price)
                                ELSE positions[s]
    BY <1>1, FillEffect
  <2>2. ASSUME NEW s \in RawSymbols PROVE positions'[s].qty = NetAfter(s, Len(fills))'
    <3>1. positions[s].qty = NetAfter(s, Len(fills)) /\ positions[s].qty \in Int
      BY DEF PositionIsNet, WalletOK, Positions
    <3>2. PositionAfter(positions[s], x.signed, x.price).qty = positions[s].qty + x.signed
      BY DEF PositionAfter, QtyAfter
    <3>3. /\ Len(fills') = Len(fills) + 1
          /\ NetAfter(s, Len(fills))' =
               NetAfter(s, Len(fills)) + (IF x.symbol = s THEN x.signed ELSE 0)
      BY <2>1, FillAdds
    <3>4. QED
      BY <2>1, <3>1, <3>2, <3>3
  <2>3. QED
    BY <2>2 DEF PositionIsNet
<1>2. CASE UNCHANGED <<positions, fills>>
  BY <1>2 DEF PositionIsNet, NetAfter, FillsOf
<1>3. QED
  BY <1>1, <1>2, OnlyFills

\* A position is the sum of its fills, over all runs and failures: an order that is
\* refused, a strategy that raises and a tick that is refused leave it as it was.
THEOREM PositionNet == Spec => []PositionIsNet
<1>1. Init => PositionIsNet
  <2> SUFFICES ASSUME Init, NEW s \in RawSymbols PROVE positions[s].qty = NetAfter(s, Len(fills))
    BY DEF PositionIsNet
  <2>1. Len(fills) = 0 /\ positions[s].qty = 0
    BY DEF Init, Flat
  <2>2. NetAfter(s, 0) = 0
    BY SumNext DEF NetAfter
  <2>3. QED
    BY <2>1, <2>2
<1>2. QED
  BY <1>1, RunInit, RunNext, NetNext, PTL DEF Spec
-----------------------------------------------------------------------------
(* Averages.                                                                *)

\* Products keep order and equality.
LEMMA Cancel ==
  ASSUME NEW g \in Nat, NEW a \in Int, NEW b \in Int
  PROVE  /\ g * a \in Int /\ a * g = g * a
         /\ a <= b => g * a <= g * b
         /\ g # 0 /\ g * a <= g * b => a <= b
         /\ g # 0 /\ g * a = g * b => a = b
  OBVIOUS

\* Products associate and distribute.
LEMMA Ring ==
  ASSUME NEW a \in Int, NEW b \in Int, NEW c \in Int
  PROVE  a * (b * c) = (a * b) * c /\ a * (b + c) = a * b + a * c
         /\ (a + b) * c = a * c + b * c
  OBVIOUS

\* A fraction in its lowest terms has the value it had.
LEMMA FractionValue ==
  ASSUME NEW n \in Nat, NEW d \in Nat \ {0}
  PROVE  \E g \in Nat \ {0}, x, y \in Nat :
           Fraction(n, d) = <<x, y>> /\ n = g * x /\ d = g * y
<1> DEFINE S == {f \in 1..d : d % f = 0 /\ n % f = 0}
<1>1. S \in SUBSET (0..d) /\ 1 \in S
  OBVIOUS
<1>2. PICK g \in S : \A j \in S : j <= g
  <2> HIDE DEF S
  <2>1. QED
    BY <1>1, BoundedHasGreatest
<1>3. Max(S) = g
  <2> HIDE DEF S
  <2>1. S \in SUBSET Int
    BY <1>1
  <2>2. QED
    BY <1>2, <2>1, GreatestIsMax
<1>4. g \in Nat \ {0} /\ g <= d /\ d % g = 0 /\ n % g = 0
  OBVIOUS
<1>5. PICK x, y \in Nat : x = n \div g /\ y = d \div g
  BY <1>4
<1>6. n = g * x /\ d = g * y
  BY <1>4, <1>5
<1>7. Fraction(n, d) = <<x, y>>
  BY <1>3, <1>5 DEF Fraction
<1>8. QED
  BY <1>4, <1>5, <1>6, <1>7

\* What the average of a position and a fill is the quotient of.
Averaged(p, signed, price) ==
  \E m, k, e, f, g, x, y \in Nat :
    /\ m = Magnitude(p.qty) /\ k = Magnitude(signed) /\ p.entry = <<e, f>> /\ g # 0
    /\ AverageEntry(p, signed, price) = <<x, y>>
    /\ m * e + k * (price * f) = g * x /\ f * (m + k) = g * y

\* The average is that quotient in its lowest terms, which leaves its value.
LEMMA AverageValue ==
  ASSUME NEW p \in Positions, NEW signed \in Int, signed # 0, NEW price \in Nat
  PROVE  Averaged(p, signed, price)
<1>1. PICK m, k \in Nat : m = Magnitude(p.qty) /\ k = Magnitude(signed)
  BY DEF Positions, Magnitude
<1>2. PICK e, f \in Nat : p.entry = <<e, f>>
  BY DEF Positions, Entries
<1>3. k # 0 /\ f # 0
  BY <1>1, <1>2 DEF Positions, Entries, Magnitude
<1>4. price * f \in Nat /\ m * e \in Nat
  BY Products
<1>5. k * (price * f) \in Nat /\ (k * price) * f = k * (price * f)
  BY <1>4, Products, Ring
<1>6. m + k \in Nat /\ m + k # 0
  BY <1>3
<1>7. f * (m + k) \in Nat /\ f * (m + k) # 0
  BY <1>3, <1>6, Products
<1>8. PICK a, b \in Nat : a = m * e + k * (price * f) /\ b = f * (m + k) /\ b # 0
  BY <1>4, <1>5, <1>7
<1>9. AverageEntry(p, signed, price) = Fraction(a, b)
  BY <1>1, <1>2, <1>5, <1>8 DEF AverageEntry
<1>10. PICK g \in Nat \ {0}, x, y \in Nat : Fraction(a, b) = <<x, y>> /\ a = g * x /\ b = g * y
  <2>1. b \in Nat \ {0}
    BY <1>8
  <2>2. QED
    BY <2>1, FractionValue, Zenon
<1>11. QED
  BY <1>1, <1>2, <1>8, <1>9, <1>10 DEF Averaged

\* It is not below what neither the entry nor the price is below, and not above what
\* neither is above.
LEMMA AverageBetween ==
  ASSUME NEW p \in Positions, NEW signed \in Int, signed # 0, NEW price \in Nat, NEW l \in Nat
  PROVE  LET a == AverageEntry(p, signed, price) IN
         /\ l <= price /\ (p.qty = 0 \/ AtMost(<<l, 1>>, p.entry)) => AtMost(<<l, 1>>, a)
         /\ price <= l /\ (p.qty = 0 \/ AtMost(p.entry, <<l, 1>>)) => AtMost(a, <<l, 1>>)
<1>1. PICK m, k, e, f, g, x, y \in Nat :
           /\ m = Magnitude(p.qty) /\ k = Magnitude(signed) /\ p.entry = <<e, f>> /\ g # 0
           /\ AverageEntry(p, signed, price) = <<x, y>>
           /\ m * e + k * (price * f) = g * x /\ f * (m + k) = g * y
  <2>1. Averaged(p, signed, price)
    BY AverageValue
  <2>2. QED
    BY <2>1, Zenon DEF Averaged
<1>2. PICK P, R, X, Y \in Int : P = l * f /\ R = price * f /\ X = l * y /\ Y = m * P + k * P
  BY Cancel
<1>3. g * X = Y
  <2>1. g * X = l * (g * y)
    BY <1>2, Ring, Cancel
  <2>2. l * (f * (m + k)) = P * (m + k)
    BY <1>2, Ring
  <2>3. P * (m + k) = Y
    BY <1>2
  <2>4. QED
    BY <1>1, <2>1, <2>2, <2>3
<1>4. m = 0 <=> p.qty = 0
  BY <1>1 DEF Positions, Magnitude
<1>5. PICK A, B, C, D, U, V \in Int :
        A = m * e /\ B = k * R /\ C = m * P /\ D = k * P /\ U = g * x /\ V = g * X
  BY Cancel
<1>6. A + B = U /\ C + D = V
  BY <1>1, <1>2, <1>3, <1>5
<1>7. g # 0
  BY <1>1
<1>8. ASSUME l <= price, p.qty = 0 \/ AtMost(<<l, 1>>, p.entry) PROVE X <= x
  <2>1. m * P <= m * e
    <3>1. CASE m = 0
      BY <1>2, <3>1
    <3>2. CASE m # 0
      <4>1. P <= e
        BY <1>1, <1>2, <1>4, <1>8, <3>2 DEF AtMost
      <4>2. QED
        BY <1>2, <4>1, Cancel
    <3>3. QED
      BY <3>1, <3>2
  <2>2. P <= R
    BY <1>2, <1>8, Cancel
  <2>3. k * P <= k * R
    BY <1>2, <2>2, Cancel
  <2>4. V <= U
    <3>1. C <= A /\ D <= B
      BY <1>5, <2>1, <2>3
    <3>2. QED
      BY <1>6, <3>1
  <2>5. g * X <= g * x
    BY <1>5, <2>4
  <2>6. QED
    BY <1>7, <2>5, Cancel
<1>9. ASSUME price <= l, p.qty = 0 \/ AtMost(p.entry, <<l, 1>>) PROVE x <= X
  <2>1. m * e <= m * P
    <3>1. CASE m = 0
      BY <1>2, <3>1
    <3>2. CASE m # 0
      <4>1. e <= P
        BY <1>1, <1>2, <1>4, <1>9, <3>2 DEF AtMost
      <4>2. QED
        BY <1>2, <4>1, Cancel
    <3>3. QED
      BY <3>1, <3>2
  <2>2. R <= P
    BY <1>2, <1>9, Cancel
  <2>3. k * R <= k * P
    BY <1>2, <2>2, Cancel
  <2>4. U <= V
    <3>1. A <= C /\ B <= D
      BY <1>5, <2>1, <2>3
    <3>2. QED
      BY <1>6, <3>1
  <2>5. g * x <= g * X
    BY <1>5, <2>4
  <2>6. QED
    BY <1>7, <2>5, Cancel
<1>10. QED
  BY <1>1, <1>2, <1>8, <1>9 DEF AtMost

\* Of a position with a cost, it is the cost of both over the size of both.
LEMMA AverageIsQuotient ==
  ASSUME NEW p \in Positions, NEW signed \in Int, signed # 0, NEW price \in Nat, NEW c \in Nat,
         Equal(p.entry, <<c, Magnitude(p.qty)>>)
  PROVE  Equal(AverageEntry(p, signed, price),
               <<c + Magnitude(signed) * price, Magnitude(p.qty) + Magnitude(signed)>>)
<1>1. PICK m, k, e, f, g, x, y \in Nat :
           /\ m = Magnitude(p.qty) /\ k = Magnitude(signed) /\ p.entry = <<e, f>> /\ g # 0
           /\ AverageEntry(p, signed, price) = <<x, y>>
           /\ m * e + k * (price * f) = g * x /\ f * (m + k) = g * y
  <2>1. Averaged(p, signed, price)
    BY AverageValue
  <2>2. QED
    BY <2>1, Zenon DEF Averaged
<1>2. PICK s, t \in Int : s = m + k /\ t = c + k * price
  BY Cancel
<1>3. m * e = c * f
  BY <1>1, Cancel DEF Equal
<1>4. g * x = t * f
  <2>1. k * (price * f) = (k * price) * f /\ k * price \in Int
    BY Ring, Cancel
  <2>2. c * f + (k * price) * f = t * f
    BY <1>2, <2>1, Ring
  <2>3. QED
    BY <1>1, <1>3, <2>1, <2>2
<1>5. g * (x * s) = g * (t * y)
  <2>1. g * (x * s) = (t * f) * s
    BY <1>2, <1>4, Ring
  <2>2. (t * f) * s = t * (f * s)
    BY <1>2, Ring
  <2>3. f * s = g * y
    BY <1>1, <1>2
  <2>4. t * (g * y) = g * (t * y)
    BY <1>2
  <2>5. QED
    BY <2>1, <2>2, <2>3, <2>4
<1>6. x * s \in Int /\ t * y \in Int
  BY <1>2
<1>7. x * s = t * y
  <2>1. g # 0
    BY <1>1
  <2>2. PICK a, b \in Int : a = x * s /\ b = t * y
    BY <1>6
  <2>3. QED
    BY <1>5, <2>1, <2>2, Cancel
<1>8. AverageEntry(p, signed, price) = <<x, y>> /\ s = Magnitude(p.qty) + Magnitude(signed)
      /\ t = c + Magnitude(signed) * price
  BY <1>1, <1>2
<1>9. Equal(<<x, y>>, <<t, s>>)
  BY <1>7 DEF Equal
<1>10. QED
  BY <1>8, <1>9, Zenon
-----------------------------------------------------------------------------
(* What holds and builds a position.                                        *)

\* The side of a position.
LEMMA Sided ==
  ASSUME NEW q \in Int, NEW r \in Int, NEW n \in Int
  PROVE  /\ SameSide(q, q) <=> q # 0
         /\ SameSide(q, r) => (SameSide(n, q) <=> SameSide(n, r))
         /\ Magnitude(q) \in Nat /\ (Magnitude(q) = 0 <=> q = 0)
  BY DEF SameSide, Magnitude

\* Two quantities on the side of their sum have its size between them.
LEMMA SizesAdd ==
  ASSUME NEW q \in Int, NEW n \in Int, NEW r \in Int, r = q + n, SameSide(q, r), SameSide(n, r)
  PROVE  Magnitude(r) = Magnitude(q) + Magnitude(n)
  BY DEF SameSide, Magnitude

\* A fill holds its position, and so do the fills that did, unless it takes the position
\* to the other side.
LEMMA HeldAfter ==
  ASSUME WalletOK, PositionIsNet, PositionIsNet', NEW x \in Fills, fills' = Append(fills, x),
         NEW s \in RawSymbols, NEW q, q = positions[s].qty, NEW r, r = positions'[s].qty, r # 0
  PROVE  /\ x.symbol # s => Held(s)' = Held(s)
         /\ x.symbol = s /\ SameSide(q, r) => Held(s)' = Held(s) \cup {Len(fills) + 1}
         /\ x.symbol = s /\ ~SameSide(q, r) => Held(s)' = {Len(fills) + 1}
<1>1. PICK N \in Nat : N = Len(fills) /\ Len(fills') = N + 1
  BY FillAdds
<1>2. PICK F : F = FillsOf(s) /\ F \subseteq 1..N
              /\ FillsOf(s)' = IF x.symbol = s THEN F \cup {N + 1} ELSE F
  BY <1>1, FillAdds
<1>3. PICK net : net = [m \in 0..N |-> NetAfter(s, m)]
  OBVIOUS
<1>4. \A m \in 0..N : net[m] = NetAfter(s, m) /\ net[m] = NetAfter(s, m)' /\ net[m] \in Int
  BY <1>1, <1>3, FillAdds
<1>5. NetAfter(s, N + 1)' = r
  <2>1. NetAfter(s, Len(fills))' = r
    BY DEF PositionIsNet
  <2>2. NetAfter(s, N + 1)' = NetAfter(s, Len(fills))'
    BY <1>1, Zenon DEF NetAfter
  <2>3. QED
    BY <2>1, <2>2
<1>6. /\ q = net[N] /\ q \in Int /\ r \in Int /\ (x.symbol # s => r = q)
  <2>1. q = NetAfter(s, N)
    BY <1>1 DEF PositionIsNet
  <2>2. N \in 0..N
    BY <1>1
  <2>3. NetAfter(s, Len(fills))' = NetAfter(s, Len(fills)) + (IF x.symbol = s THEN x.signed ELSE 0)
    BY FillAdds
  <2>4. r = NetAfter(s, Len(fills))'
    BY DEF PositionIsNet
  <2>5. QED
    BY <1>1, <1>4, <2>1, <2>2, <2>3, <2>4 DEF Fills
<1>7. Held(s) = {n \in F : \A m \in n..N : SameSide(net[m], q)}
  <2>1. Held(s) = {n \in F : \A m \in n..N : SameSide(NetAfter(s, m), q)}
    BY <1>1, <1>2 DEF Held
  <2>2. \A n \in F : \A m \in n..N : m \in 0..N
    BY <1>2
  <2>3. QED
    BY <1>4, <2>1, <2>2
<1>8. Held(s)' = {n \in FillsOf(s)' : (\A m \in n..N : SameSide(net[m], r)) /\ SameSide(r, r)}
  <2>1. Held(s)' = {n \in FillsOf(s)' : \A m \in n..(N + 1) : SameSide(NetAfter(s, m)', r)}
    BY <1>1 DEF Held
  <2>2. ASSUME NEW n \in FillsOf(s)' PROVE n \in 1..(N + 1)
    BY <1>2
  <2>3. ASSUME NEW n \in FillsOf(s)'
        PROVE  (\A m \in n..(N + 1) : SameSide(NetAfter(s, m)', r))
                 <=> (\A m \in n..N : SameSide(net[m], r)) /\ SameSide(r, r)
    <3>1. \A m : m \in n..(N + 1) <=> m \in n..N \/ m = N + 1
      BY <2>2
    <3>2. \A m \in n..N : m \in 0..N
      BY <2>2
    <3>3. QED
      BY <1>4, <1>5, <3>1, <3>2
  <2>4. QED
    BY <2>1, <2>3
<1>9. SameSide(r, r)
  BY <1>6, Sided
<1>10. N + 1 \in FillsOf(s)' => N + 1 \in Held(s)'
  <2>1. \A m \in (N + 1)..N : FALSE
    OBVIOUS
  <2>2. QED
    BY <1>8, <1>9, <2>1
<1>11. \A n \in F : (\A m \in n..N : SameSide(net[m], r)) => SameSide(q, r)
  BY <1>2, <1>6
<1>12. SameSide(q, r) => \A m \in 0..N : SameSide(net[m], r) <=> SameSide(net[m], q)
  <2> SUFFICES ASSUME SameSide(q, r), NEW m \in 0..N
               PROVE  SameSide(net[m], r) <=> SameSide(net[m], q)
    OBVIOUS
  <2>1. net[m] \in Int
    BY <1>4
  <2>2. QED
    BY <1>6, <2>1 DEF SameSide
<1>13. \A n \in F : \A m \in n..N : m \in 0..N
  BY <1>2
<1>14. SameSide(q, r) => \A n \in F : n \in Held(s)' <=> n \in Held(s)
  <2>1. F \subseteq FillsOf(s)'
    BY <1>2
  <2>2. ASSUME SameSide(q, r), NEW n \in F
        PROVE  (\A m \in n..N : SameSide(net[m], r)) <=> (\A m \in n..N : SameSide(net[m], q))
    BY <1>12, <1>13, <2>2
  <2>3. QED
    BY <1>7, <1>8, <1>9, <2>1, <2>2
<1>15. ~SameSide(q, r) => \A n \in F : n \notin Held(s)'
  BY <1>8, <1>11
<1>16. Held(s) \subseteq F /\ Held(s)' \subseteq FillsOf(s)'
  BY <1>7, <1>8
<1>17. QED
  BY <1>1, <1>2, <1>6, <1>9, <1>10, <1>14, <1>15, <1>16
\* What has built a position is among what holds it, and counts for a size.
LEMMA BuiltType ==
  ASSUME WalletOK, NEW s \in RawSymbols
  PROVE  /\ Held(s) \subseteq 1..Len(fills) /\ Len(fills) \in Nat
         /\ DOMAIN Built(s) \subseteq Held(s)
         /\ Built(s) = [n \in DOMAIN Built(s) |-> Built(s)[n]]
         /\ \A n \in 1..Len(fills) : fills[n] \in Fills
         /\ (\A m \in 0..Len(fills) : NetAfter(s, m) \in Int)
              => \A n \in DOMAIN Built(s) : Built(s)[n] \in Nat
<1>1. Len(fills) \in Nat /\ DOMAIN fills = 1..Len(fills) /\ \A n \in 1..Len(fills) : fills[n] \in Fills
  BY DEF WalletOK
<1>2. Held(s) \subseteq 1..Len(fills)
  BY <1>1 DEF Held, FillsOf
<1>3. PICK H, first : H = Held(s) /\ first = Min(H)
  OBVIOUS
<1>4. Built(s) = [n \in {m \in H : m = first \/ SameSide(fills[m].signed, positions[s].qty)} |->
                    Magnitude(IF n = first THEN NetAfter(s, n) ELSE fills[n].signed)]
  BY <1>3, Zenon DEF Built
<1>5. DOMAIN Built(s) \subseteq H /\ Built(s) = [n \in DOMAIN Built(s) |-> Built(s)[n]]
  BY <1>4
<1>6. ASSUME \A m \in 0..Len(fills) : NetAfter(s, m) \in Int, NEW n \in DOMAIN Built(s)
      PROVE  Built(s)[n] \in Nat
  <2>1. n \in 1..Len(fills) /\ n \in 0..Len(fills)
    BY <1>1, <1>2, <1>3, <1>5, <1>6
  <2>2. fills[n].signed \in Int /\ NetAfter(s, n) \in Int
    BY <1>1, <1>6, <2>1 DEF Fills
  <2>3. Built(s)[n] = Magnitude(IF n = first THEN NetAfter(s, n) ELSE fills[n].signed)
    BY <1>4, <1>6
  <2>4. PICK v \in Int : v = IF n = first THEN NetAfter(s, n) ELSE fills[n].signed
    BY <2>2
  <2>5. QED
    BY <2>3, <2>4 DEF Magnitude
<1>7. QED
  BY <1>1, <1>2, <1>3, <1>5, <1>6

\* A fill that takes the position to another side, or opens it, builds it alone; one on
\* its side is added to those that built it; one against it leaves them.
LEMMA BuiltAfter ==
  ASSUME WalletOK, PositionIsNet, PositionIsNet', NEW x \in Fills, fills' = Append(fills, x),
         NEW s \in RawSymbols, NEW q, q = positions[s].qty, NEW r, r = positions'[s].qty, r # 0,
         q # 0 => Held(s) # {}
  PROVE  /\ x.symbol # s => Built(s)' = Built(s)
         /\ x.symbol = s /\ ~SameSide(q, r) => Built(s)' = [n \in {Len(fills) + 1} |-> Magnitude(r)]
         /\ x.symbol = s /\ SameSide(q, r) =>
              Built(s)' =
                [n \in DOMAIN Built(s)
                         \cup (IF SameSide(x.signed, r) THEN {Len(fills) + 1} ELSE {}) |->
                   IF n = Len(fills) + 1 THEN Magnitude(x.signed) ELSE Built(s)[n]]
<1>1. PICK N \in Nat : N = Len(fills) /\ Len(fills') = N + 1
  BY FillAdds
<1>2. PICK H, first : H = Held(s) /\ first = Min(H)
  OBVIOUS
<1>3. PICK I, last : I = Held(s)' /\ last = Min(I)
  OBVIOUS
<1>4. Built(s) = [n \in {m \in H : m = first \/ SameSide(fills[m].signed, q)} |->
                    Magnitude(IF n = first THEN NetAfter(s, n) ELSE fills[n].signed)]
  BY <1>2, Zenon DEF Built
<1>5. Built(s)' = [n \in {m \in I : m = last \/ SameSide(fills'[m].signed, r)} |->
                     Magnitude(IF n = last THEN NetAfter(s, n)' ELSE fills'[n].signed)]
  BY <1>3, Zenon DEF Built
<1>6. H \subseteq 1..N
  BY <1>1, <1>2, BuiltType
<1>7. \A n \in 1..N : fills'[n] = fills[n] /\ NetAfter(s, n)' = NetAfter(s, n)
  BY <1>1, FillAdds
<1>8. fills'[N + 1] = x
  BY <1>1, FillAdds
<1>9. /\ x.symbol # s => I = H
      /\ x.symbol = s /\ SameSide(q, r) => I = H \cup {N + 1}
      /\ x.symbol = s /\ ~SameSide(q, r) => I = {N + 1}
  BY <1>1, <1>2, <1>3, HeldAfter
<1>10. q \in Int /\ r \in Int
  <2>1. q = NetAfter(s, Len(fills)) /\ r = NetAfter(s, Len(fills))'
    BY DEF PositionIsNet
  <2>2. QED
    BY <1>1, <2>1, FillAdds DEF Fills
<1>11. CASE x.symbol # s
  <2>1. r = q
    <3>1. q = NetAfter(s, Len(fills)) /\ r = NetAfter(s, Len(fills))'
      BY DEF PositionIsNet
    <3>2. NetAfter(s, Len(fills))' = NetAfter(s, Len(fills)) + 0 /\ NetAfter(s, Len(fills)) \in Int
      BY <1>1, <1>11, FillAdds
    <3>3. QED
      BY <3>1, <3>2
  <2>2. I = H /\ last = first
    BY <1>2, <1>3, <1>9, <1>11
  <2>3. \A m \in H : fills'[m] = fills[m] /\ NetAfter(s, m)' = NetAfter(s, m)
    BY <1>6, <1>7
  <2>4. DOMAIN Built(s)' = DOMAIN Built(s) /\ DOMAIN Built(s) \subseteq H
    BY <1>4, <1>5, <2>1, <2>2, <2>3
  <2>5. ASSUME NEW n \in DOMAIN Built(s) PROVE Built(s)'[n] = Built(s)[n]
    BY <1>4, <1>5, <2>2, <2>3, <2>4, <2>5
  <2>6. Built(s)' = Built(s)
    BY <1>4, <1>5, <2>4, <2>5
  <2>7. QED
    BY <1>11, <2>6
<1>12. CASE x.symbol = s /\ ~SameSide(q, r)
  <2>1. I = {N + 1} /\ last = N + 1
    <3>1. I = {N + 1}
      BY <1>9, <1>12
    <3>2. I \in SUBSET Int /\ N + 1 \in I /\ \A j \in I : N + 1 <= j
      BY <3>1
    <3>3. QED
      BY <1>3, <3>1, <3>2, LeastIsMin
  <2>2. NetAfter(s, N + 1)' = r
    <3>1. NetAfter(s, Len(fills))' = r
      BY DEF PositionIsNet
    <3>2. NetAfter(s, N + 1)' = NetAfter(s, Len(fills))'
      BY <1>1, Zenon DEF NetAfter
    <3>3. QED
      BY <3>1, <3>2
  <2>3. QED
    BY <1>1, <1>5, <1>12, <2>1, <2>2
<1>13. CASE x.symbol = s /\ SameSide(q, r)
  <2>1. I = H \cup {N + 1}
    BY <1>9, <1>13
  <2>2. q # 0
    BY <1>13 DEF SameSide
  <2>3. PICK i \in H : \A j \in H : i <= j
    <3>1. H \in SUBSET Nat /\ H # {}
      BY <1>2, <1>6, <2>2
    <3>2. QED
      BY <3>1, HasLeast
  <2>4. first = i
    <3>1. H \in SUBSET Int
      BY <1>6
    <3>2. QED
      BY <1>2, <2>3, <3>1, LeastIsMin
  <2>5. last = i
    <3>1. I \in SUBSET Int /\ i \in I /\ \A j \in I : i <= j
      BY <1>6, <2>1, <2>3
    <3>2. QED
      BY <1>3, <3>1, LeastIsMin
  <2>6. i \in 1..N /\ i # N + 1 /\ N + 1 \notin H
    BY <1>6
  <2>7. \A n \in H : SameSide(fills[n].signed, q) <=> SameSide(fills'[n].signed, r)
    <3> SUFFICES ASSUME NEW n \in H
                 PROVE  SameSide(fills[n].signed, q) <=> SameSide(fills'[n].signed, r)
      OBVIOUS
    <3>1. n \in 1..N /\ fills'[n] = fills[n]
      BY <1>6, <1>7
    <3>2. q \in Int /\ r \in Int
      BY <1>10
    <3>3. QED
      BY <1>13, <3>1, <3>2 DEF SameSide
  <2>8. DOMAIN Built(s)' = DOMAIN Built(s) \cup (IF SameSide(x.signed, r) THEN {N + 1} ELSE {})
    BY <1>4, <1>5, <1>8, <2>1, <2>4, <2>5, <2>6, <2>7
  <2>9. ASSUME NEW n \in DOMAIN Built(s)'
        PROVE  Built(s)'[n] = IF n = N + 1 THEN Magnitude(x.signed) ELSE Built(s)[n]
    <3>1. CASE n = N + 1
      <4>1. n # last
        BY <2>5, <2>6, <3>1
      <4>2. QED
        BY <1>5, <1>8, <3>1, <4>1
    <3>2. CASE n # N + 1
      <4>1. n \in DOMAIN Built(s) /\ n \in H /\ n \in 1..N
        BY <1>4, <1>6, <2>8, <3>2
      <4>2. fills'[n] = fills[n] /\ NetAfter(s, n)' = NetAfter(s, n)
        BY <1>7, <4>1
      <4>3. PICK v : v = IF n = i THEN NetAfter(s, n) ELSE fills[n].signed
        OBVIOUS
      <4>4. v = IF n = i THEN NetAfter(s, n)' ELSE fills'[n].signed
        BY <4>2, <4>3
      <4>5. Built(s)[n] = Magnitude(v)
        BY <1>4, <2>4, <4>1, <4>3
      <4>6. Built(s)'[n] = Magnitude(v)
        BY <1>5, <2>5, <2>9, <4>4
      <4>7. QED
        BY <3>2, <4>5, <4>6
    <3>3. QED
      BY <3>1, <3>2
  <2>10. QED
    BY <1>1, <1>5, <1>13, <2>8, <2>9
<1>14. QED
  BY <1>1, <1>11, <1>12, <1>13
\* b with v for the next fill, or with nothing more; and what that adds to its totals.
Grown(b, E, v) == [n \in DOMAIN b \cup E |-> IF n = Len(fills) + 1 THEN v ELSE b[n]]
TotalCost(b) == Total(Cost(b))
Adds(b, d, more, x) ==
  /\ Total(b) \in Nat /\ TotalCost(b) \in Nat
  /\ DOMAIN b = {} => Total(b) = 0 /\ TotalCost(b) = 0
  /\ Total(d)' = Total(b) + more
  /\ TotalCost(d)' = TotalCost(b) + more * x.price

\* What a fill adds to the size and the cost of what builds a position.
LEMMA TotalsAfter ==
  ASSUME WalletOK, NEW x \in Fills, fills' = Append(fills, x),
         NEW b, DOMAIN b \subseteq 1..Len(fills), \A n \in DOMAIN b : b[n] \in Nat,
         NEW E, E = {} \/ E = {Len(fills) + 1}, NEW v \in Nat,
         NEW d, d = Grown(b, E, v),
         NEW more, more = IF E = {} THEN 0 ELSE v
  PROVE  Adds(b, d, more, x)
<1> x.symbol \in RawSymbols
  BY DEF Fills
<1> d = [n \in DOMAIN b \cup E |-> IF n = Len(fills) + 1 THEN v ELSE b[n]]
  BY DEF Grown
<1>1. PICK N \in Nat : N = Len(fills) /\ Len(fills') = N + 1
  BY FillAdds
<1>2. \A m \in 1..N : fills'[m] = fills[m] /\ fills[m] \in Fills
  BY <1>1, FillAdds
<1>3. fills'[N + 1] = x
  BY <1>1, FillAdds
<1>4. PICK c : c = [n \in DOMAIN b |-> b[n] * fills[n].price]
  OBVIOUS
<1>5. PICK e : e = [n \in DOMAIN d |-> d[n] * fills'[n].price]
  OBVIOUS
<1>6. /\ Total(b) = SumUpTo(b, N) /\ Total(d)' = SumUpTo(d, N + 1)
      /\ TotalCost(b) = SumUpTo(c, N) /\ TotalCost(d)' = SumUpTo(e, N + 1)
  BY <1>1, <1>4, <1>5, Zenon DEF Total, Cost, TotalCost
<1>7. DOMAIN d = DOMAIN b \cup E /\ N + 1 \notin DOMAIN b
  BY <1>1
<1>8. \A m \in 1..N : At(d, m) = At(b, m) /\ At(b, m) \in Nat
  BY <1>1, <1>7 DEF At
<1>9. At(d, N + 1) = more
  BY <1>1, <1>7 DEF At
<1>10. \A m \in 1..N : At(e, m) = At(c, m) /\ At(c, m) \in Nat
  <2> SUFFICES ASSUME NEW m \in 1..N PROVE At(e, m) = At(c, m) /\ At(c, m) \in Nat
    OBVIOUS
  <2>1. m \in DOMAIN d <=> m \in DOMAIN b
    BY <1>1, <1>7
  <2>2. CASE m \in DOMAIN b
    <3>1. d[m] = b[m] /\ b[m] \in Nat /\ fills'[m].price = fills[m].price /\ fills[m].price \in Nat
      BY <1>1, <1>2, <2>2 DEF Fills
    <3>2. c[m] = b[m] * fills[m].price /\ e[m] = c[m]
      BY <1>4, <1>5, <2>1, <2>2, <3>1
    <3>3. c[m] \in Nat
      BY <3>1, <3>2, Products
    <3>4. QED
      BY <1>4, <1>5, <2>1, <2>2, <3>2, <3>3 DEF At
  <2>3. CASE m \notin DOMAIN b
    BY <1>4, <1>5, <2>1, <2>3 DEF At
  <2>4. QED
    BY <2>2, <2>3
<1>11. At(e, N + 1) = more * x.price
  <2>1. x.price \in Nat
    BY DEF Fills
  <2>2. CASE E = {}
    BY <1>5, <1>7, <2>1, <2>2 DEF At
  <2>3. CASE E # {}
    <3>1. N + 1 \in DOMAIN d /\ d[N + 1] = v
      BY <1>1, <1>7, <2>3
    <3>2. QED
      BY <1>3, <1>5, <2>3, <3>1 DEF At
  <2>4. QED
    BY <2>2, <2>3
<1>12. SumUpTo(d, N + 1) = SumUpTo(b, N) + more /\ SumUpTo(b, N) \in Nat
  <2>1. SumUpTo(d, N) = SumUpTo(b, N)
    BY <1>8, SumSame
  <2>2. SumUpTo(d, N + 1) = SumUpTo(d, N) + At(d, N + 1)
    BY SumNext
  <2>3. SumUpTo(b, N) \in Nat
    BY <1>8, SumType
  <2>4. QED
    BY <1>9, <2>1, <2>2, <2>3
<1>13. SumUpTo(e, N + 1) = SumUpTo(c, N) + more * x.price /\ SumUpTo(c, N) \in Nat
  <2>1. SumUpTo(e, N) = SumUpTo(c, N)
    BY <1>10, SumSame
  <2>2. SumUpTo(e, N + 1) = SumUpTo(e, N) + At(e, N + 1)
    BY SumNext
  <2>3. SumUpTo(c, N) \in Nat
    BY <1>10, SumType
  <2>4. QED
    BY <1>11, <2>1, <2>2, <2>3
<1>14. DOMAIN b = {} => SumUpTo(b, N) = 0 /\ SumUpTo(c, N) = 0
  <2> SUFFICES ASSUME DOMAIN b = {} PROVE SumUpTo(b, N) = 0 /\ SumUpTo(c, N) = 0
    OBVIOUS
  <2>1. \A m \in 1..N : At(b, m) \in {0} /\ At(c, m) \in {0}
    BY <1>4 DEF At
  <2>2. SumUpTo(b, N) \in {0} /\ SumUpTo(c, N) \in {0}
    BY <2>1, SumType
  <2>3. QED
    BY <2>2
<1>15. QED
  BY <1>6, <1>12, <1>13, <1>14 DEF Adds

\* What is lower than something not above an entry is not above it either; and higher, below.
LEMMA Farther ==
  ASSUME NEW l \in Nat, NEW h \in Nat, l <= h, NEW r \in Entries
  PROVE  /\ AtMost(<<h, 1>>, r) => AtMost(<<l, 1>>, r)
         /\ AtMost(r, <<l, 1>>) => AtMost(r, <<h, 1>>)
<1>1. PICK e, f \in Nat : r = <<e, f>>
  BY DEF Entries
<1>2. PICK L, H \in Int : L = l * f /\ H = h * f
  BY Cancel
<1>3. L <= H
  BY <1>2, Cancel
<1>4. /\ AtMost(<<h, 1>>, r) <=> H <= e
      /\ AtMost(<<l, 1>>, r) <=> L <= e
      /\ AtMost(r, <<h, 1>>) <=> e <= H
      /\ AtMost(r, <<l, 1>>) <=> e <= L
  BY <1>1, <1>2 DEF AtMost
<1>5. QED
  BY <1>3, <1>4
-----------------------------------------------------------------------------
(* The entry price.                                                         *)

\* The entry price of s is what the fills that built the position explain.
Explained(s) ==
  LET entry == positions[s].entry
      qty == positions[s].qty
      built == Built(s)
  IN  IF qty = 0 THEN entry = Zero
      ELSE /\ \E low, high \in DOMAIN built :
                /\ AtMost(<<fills[low].price, 1>>, entry)
                /\ AtMost(entry, <<fills[high].price, 1>>)
           /\ DOMAIN built = Held(s) =>
                /\ Total(built) = Magnitude(qty)
                /\ Equal(entry, <<Total(Cost(built)), Total(built)>>)
EntryInv == \A s \in RawSymbols : Explained(s)

\* What a fill makes of the entry price.
LEMMA EntryCases ==
  ASSUME NEW p \in Positions, NEW k \in Int, k # 0, NEW price \in Nat, NEW a,
         a = PositionAfter(p, k, price)
  PROVE  /\ a.qty = p.qty + k
         /\ a.qty = 0 => a.entry = Zero
         /\ p.qty = 0 => a.entry = AverageEntry(p, k, price)
         /\ p.qty # 0 /\ a.qty # 0 /\ ~SameSide(p.qty, a.qty) => a.entry = <<price, 1>>
         /\ SameSide(p.qty, a.qty) /\ SameSide(k, a.qty) => a.entry = AverageEntry(p, k, price)
         /\ SameSide(p.qty, a.qty) /\ ~SameSide(k, a.qty) => a.entry = p.entry
<1>1. p.qty \in Int
  BY DEF Positions
<1>2. a.qty = p.qty + k /\ a.entry = EntryAfter(p, k, price)
  BY DEF PositionAfter, QtyAfter
<1>3. EntryAfter(p, k, price) =
        IF p.qty = 0 \/ (p.qty > 0) = (k > 0) THEN AverageEntry(p, k, price)
        ELSE IF p.qty + k = 0 THEN Zero
        ELSE IF (p.qty > 0) # (p.qty + k > 0) THEN <<price, 1>>
        ELSE p.entry
  BY Zenon DEF EntryAfter
<1>4. QED
  BY <1>1, <1>2, <1>3 DEF SameSide

\* A fill keeps every entry price explained.
LEMMA FillExplained ==
  ASSUME WalletOK, PositionIsNet, PositionIsNet', NEW x \in Fills, x.signed # 0,
         fills' = Append(fills, x), NEW s \in RawSymbols, Explained(s),
         positions'[s] = IF x.symbol = s THEN PositionAfter(positions[s], x.signed, x.price)
                         ELSE positions[s]
  PROVE  Explained(s)'
<1>1. PICK N \in Nat : N = Len(fills) /\ Len(fills') = N + 1
  BY FillAdds
<1>2. \A m \in 1..N : fills'[m] = fills[m] /\ fills[m] \in Fills
  BY <1>1, FillAdds
<1>3. fills'[N + 1] = x
  BY <1>1, FillAdds
<1>4. PICK p \in Positions : p = positions[s]
  BY DEF WalletOK
<1>5. PICK a : a = positions'[s]
  OBVIOUS
<1>6. PICK b, d, H, I : b = Built(s) /\ d = Built(s)' /\ H = Held(s) /\ I = Held(s)'
  OBVIOUS
<1>7. PICK S, C : S = Total(b) /\ C = TotalCost(b)
  OBVIOUS
<1>8. PICK T, D : T = Total(d)' /\ D = TotalCost(d)'
  OBVIOUS
<1>9. IF p.qty = 0 THEN p.entry = Zero
      ELSE /\ \E low, high \in DOMAIN b :
                /\ AtMost(<<fills[low].price, 1>>, p.entry)
                /\ AtMost(p.entry, <<fills[high].price, 1>>)
           /\ DOMAIN b = H => S = Magnitude(p.qty) /\ Equal(p.entry, <<C, S>>)
  BY <1>4, <1>6, <1>7, Zenon DEF Explained, TotalCost
<1>10. SUFFICES IF a.qty = 0 THEN a.entry = Zero
                ELSE /\ \E low, high \in DOMAIN d :
                          /\ AtMost(<<fills'[low].price, 1>>, a.entry)
                          /\ AtMost(a.entry, <<fills'[high].price, 1>>)
                     /\ DOMAIN d = I => T = Magnitude(a.qty) /\ Equal(a.entry, <<D, T>>)
  BY <1>5, <1>6, <1>8, Zenon DEF Explained, Total, Cost, TotalCost
<1>11. /\ H \subseteq 1..N /\ DOMAIN b \subseteq H /\ b = [n \in DOMAIN b |-> b[n]]
       /\ \A n \in DOMAIN b : b[n] \in Nat
  <2>1. \A m \in 0..N : NetAfter(s, m) \in Int
    BY <1>1, FillAdds
  <2>2. QED
    BY <1>1, <1>6, <2>1, BuiltType
<1>12. p.qty # 0 => H # {}
  BY <1>9, <1>11
<1>13. a.qty # 0 =>
         /\ x.symbol # s => d = b /\ I = H
         /\ x.symbol = s /\ ~SameSide(p.qty, a.qty) =>
              d = [n \in {N + 1} |-> Magnitude(a.qty)] /\ I = {N + 1}
         /\ x.symbol = s /\ SameSide(p.qty, a.qty) =>
              /\ d = [n \in DOMAIN b \cup (IF SameSide(x.signed, a.qty) THEN {N + 1} ELSE {}) |->
                        IF n = N + 1 THEN Magnitude(x.signed) ELSE b[n]]
              /\ I = H \cup {N + 1}
  <2>1. p.qty = positions[s].qty /\ a.qty = positions'[s].qty
    BY <1>4, <1>5
  <2>2. SUFFICES ASSUME a.qty # 0
                 PROVE  /\ x.symbol # s => d = b /\ I = H
                        /\ x.symbol = s /\ ~SameSide(p.qty, a.qty) =>
                             d = [n \in {N + 1} |-> Magnitude(a.qty)] /\ I = {N + 1}
                        /\ x.symbol = s /\ SameSide(p.qty, a.qty) =>
                             /\ d = [n \in DOMAIN b \cup
                                       (IF SameSide(x.signed, a.qty) THEN {N + 1} ELSE {}) |->
                                       IF n = N + 1 THEN Magnitude(x.signed) ELSE b[n]]
                             /\ I = H \cup {N + 1}
    OBVIOUS
  <2>3. p.qty # 0 => Held(s) # {}
    BY <1>6, <1>12
  <2>4. /\ x.symbol # s => Held(s)' = Held(s)
        /\ x.symbol = s /\ SameSide(p.qty, a.qty) => Held(s)' = Held(s) \cup {Len(fills) + 1}
        /\ x.symbol = s /\ ~SameSide(p.qty, a.qty) => Held(s)' = {Len(fills) + 1}
    BY <2>1, <2>2, HeldAfter
  <2>5. /\ x.symbol # s => Built(s)' = Built(s)
        /\ x.symbol = s /\ ~SameSide(p.qty, a.qty) =>
             Built(s)' = [n \in {Len(fills) + 1} |-> Magnitude(a.qty)]
        /\ x.symbol = s /\ SameSide(p.qty, a.qty) =>
             Built(s)' =
               [n \in DOMAIN Built(s)
                        \cup (IF SameSide(x.signed, a.qty) THEN {Len(fills) + 1} ELSE {}) |->
                  IF n = Len(fills) + 1 THEN Magnitude(x.signed) ELSE Built(s)[n]]
    BY <2>1, <2>2, <2>3, BuiltAfter, Zenon
  <2>6. QED
    BY <1>1, <1>6, <2>4, <2>5, Zenon
<1>14. x.symbol = s => a = PositionAfter(p, x.signed, x.price)
  BY <1>4, <1>5
<1>15. x.signed \in Int /\ x.price \in Nat
  BY DEF Fills
<1>16. CASE a.qty = 0
  <2>1. CASE x.symbol = s
    BY <1>14, <1>15, <1>16, <2>1, EntryCases
  <2>2. CASE x.symbol # s
    BY <1>4, <1>5, <1>9, <1>16, <2>2
  <2>3. QED
    BY <1>16, <2>1, <2>2
<1>17. CASE a.qty # 0 /\ x.symbol # s
  <2>1. a = p /\ d = b /\ I = H
    BY <1>4, <1>5, <1>13, <1>17
  <2>2. d = [n \in DOMAIN b \cup {} |-> IF n = N + 1 THEN 0 ELSE b[n]]
    <3>1. N + 1 \notin DOMAIN b
      BY <1>11
    <3>2. QED
      BY <1>11, <2>1, <3>1
  <2>3. T = S /\ D = C
    <3>1. PICK E, more : E = {} /\ more = IF E = {} THEN 0 ELSE 0
      OBVIOUS
    <3>2. /\ DOMAIN b \subseteq 1..Len(fills) /\ d = Grown(b, E, 0) /\ 0 \in Nat
          /\ (E = {} \/ E = {Len(fills) + 1})
      BY <1>1, <1>11, <2>2, <3>1 DEF Grown
    <3>3. Adds(b, d, more, x)
      BY <1>11, <3>1, <3>2, TotalsAfter
    <3>4. more = 0
      BY <3>1
    <3>5. QED
      BY <1>7, <1>8, <1>15, <3>3, <3>4 DEF Adds
  <2>4. PICK low, high \in DOMAIN b : /\ AtMost(<<fills[low].price, 1>>, p.entry)
                                      /\ AtMost(p.entry, <<fills[high].price, 1>>)
    BY <1>9, <1>17, <2>1
  <2>5. fills'[low] = fills[low] /\ fills'[high] = fills[high]
    BY <1>2, <1>11
  <2>6. DOMAIN d = I => T = Magnitude(a.qty) /\ Equal(a.entry, <<D, T>>)
    BY <1>9, <1>17, <2>1, <2>3
  <2>7. QED
    BY <1>17, <2>1, <2>4, <2>5, <2>6
<1>18. CASE a.qty # 0 /\ x.symbol = s /\ ~SameSide(p.qty, a.qty)
  <2>1. PICK v \in Nat : v = Magnitude(a.qty)
    BY <1>14, <1>15, <1>18, EntryCases DEF Positions, Magnitude
  <2>2. d = [n \in {N + 1} |-> v] /\ I = {N + 1}
    BY <1>13, <1>18, <2>1
  <2>3. T = v /\ D = v * x.price
    <3>1. PICK none, E, more : /\ none = [n \in {} |-> 0] /\ E = {Len(fills) + 1}
                               /\ more = IF E = {} THEN 0 ELSE v
      OBVIOUS
    <3>2. /\ DOMAIN none = {} /\ DOMAIN none \subseteq 1..Len(fills)
          /\ \A n \in DOMAIN none : none[n] \in Nat
          /\ d = Grown(none, E, v) /\ (E = {} \/ E = {Len(fills) + 1})
      BY <1>1, <2>2, <3>1 DEF Grown
    <3>3. Adds(none, d, more, x)
      BY <3>1, <3>2, TotalsAfter
    <3>4. more = v
      BY <3>1
    <3>5. v * x.price \in Nat
      BY <1>15, Products
    <3>6. QED
      BY <1>8, <3>2, <3>3, <3>4, <3>5 DEF Adds
  <2>4. /\ AtMost(<<x.price, 1>>, a.entry) /\ AtMost(a.entry, <<x.price, 1>>)
        /\ Equal(a.entry, <<D, T>>)
    <3>1. CASE p.qty = 0
      <4>1. a.entry = AverageEntry(p, x.signed, x.price) /\ a.qty = x.signed
        BY <1>14, <1>15, <1>18, <3>1, EntryCases
      <4>2. AtMost(<<x.price, 1>>, a.entry) /\ AtMost(a.entry, <<x.price, 1>>)
        BY <1>15, <3>1, <4>1, AverageBetween
      <4>3. Equal(p.entry, <<0, Magnitude(p.qty)>>)
        BY <3>1 DEF Positions, Entries, Equal, Magnitude
      <4>4. Equal(a.entry, <<0 + Magnitude(x.signed) * x.price,
                             Magnitude(p.qty) + Magnitude(x.signed)>>)
        BY <1>15, <4>1, <4>3, AverageIsQuotient
      <4>5. Magnitude(x.signed) = v /\ Magnitude(p.qty) = 0
        BY <2>1, <3>1, <4>1 DEF Magnitude
      <4>6. 0 + v * x.price = D /\ 0 + v = T
        BY <1>15, <2>3, Products
      <4>7. QED
        BY <4>2, <4>4, <4>5, <4>6
    <3>2. CASE p.qty # 0
      <4>1. a.entry = <<x.price, 1>>
        BY <1>14, <1>15, <1>18, <3>2, EntryCases
      <4>2. x.price * v = v * x.price
        BY <1>15, Products
      <4>3. QED
        BY <1>15, <2>3, <4>1, <4>2 DEF AtMost, Equal
    <3>3. QED
      BY <3>1, <3>2
  <2>5. N + 1 \in DOMAIN d /\ fills'[N + 1].price = x.price
    BY <1>3, <2>2
  <2>6. QED
    BY <1>18, <2>1, <2>3, <2>4, <2>5
<1>19. CASE a.qty # 0 /\ x.symbol = s /\ SameSide(p.qty, a.qty) /\ SameSide(x.signed, a.qty)
  <2>1. PICK k, v \in Nat : k = Magnitude(x.signed) /\ v = Magnitude(p.qty)
    BY <1>15 DEF Positions, Magnitude
  <2>2. /\ d = [n \in DOMAIN b \cup {N + 1} |-> IF n = N + 1 THEN k ELSE b[n]]
        /\ I = H \cup {N + 1}
    BY <1>13, <1>19, <2>1
  <2>3. S \in Nat /\ C \in Nat /\ T = S + k /\ D = C + k * x.price
    <3>1. PICK E, more : E = {Len(fills) + 1} /\ more = IF E = {} THEN 0 ELSE k
      OBVIOUS
    <3>2. /\ DOMAIN b \subseteq 1..Len(fills) /\ d = Grown(b, E, k)
          /\ (E = {} \/ E = {Len(fills) + 1})
      BY <1>1, <1>11, <2>2, <3>1 DEF Grown
    <3>3. Adds(b, d, more, x)
      BY <1>11, <3>1, <3>2, TotalsAfter
    <3>4. more = k
      BY <3>1
    <3>5. QED
      BY <1>7, <1>8, <3>3, <3>4 DEF Adds
  <2>4. a.entry = AverageEntry(p, x.signed, x.price) /\ p.qty # 0 /\ Magnitude(a.qty) = v + k
    <3>1. a.qty = p.qty + x.signed /\ a.entry = AverageEntry(p, x.signed, x.price)
      BY <1>14, <1>15, <1>19, EntryCases
    <3>2. p.qty \in Int
      BY DEF Positions
    <3>3. p.qty # 0 /\ Magnitude(a.qty) = v + k
      <4>1. a.qty \in Int /\ a.qty = p.qty + x.signed
        BY <1>15, <3>1, <3>2
      <4>2. SameSide(p.qty, a.qty) /\ SameSide(x.signed, a.qty)
        BY <1>19
      <4>3. p.qty # 0
        BY <4>2 DEF SameSide
      <4>4. Magnitude(a.qty) = Magnitude(p.qty) + Magnitude(x.signed)
        BY <1>15, <3>2, <4>1, <4>2, SizesAdd
      <4>5. QED
        BY <2>1, <4>3, <4>4
    <3>4. QED
      BY <3>1, <3>3
  <2>5. PICK low, high \in DOMAIN b : /\ AtMost(<<fills[low].price, 1>>, p.entry)
                                      /\ AtMost(p.entry, <<fills[high].price, 1>>)
    BY <1>9, <2>4
  <2>6. /\ fills'[low] = fills[low] /\ fills'[high] = fills[high]
        /\ fills[low].price \in Nat /\ fills[high].price \in Nat
        /\ {low, high, N + 1} \subseteq DOMAIN d
    BY <1>2, <1>11, <2>2 DEF Fills
  <2>7. \E l \in DOMAIN d : AtMost(<<fills'[l].price, 1>>, a.entry)
    <3>1. CASE x.price <= fills[low].price
      <4>1. AtMost(<<x.price, 1>>, p.entry)
        BY <1>15, <2>5, <2>6, <3>1, Farther DEF Positions
      <4>2. AtMost(<<x.price, 1>>, a.entry)
        BY <1>15, <2>4, <4>1, AverageBetween
      <4>3. QED
        BY <1>3, <2>6, <4>2
    <3>2. CASE fills[low].price <= x.price
      <4>1. AtMost(<<fills[low].price, 1>>, a.entry)
        BY <1>15, <2>4, <2>5, <2>6, <3>2, AverageBetween
      <4>2. QED
        BY <2>6, <4>1
    <3>3. x.price <= fills[low].price \/ fills[low].price <= x.price
      BY <1>15, <2>6
    <3>4. QED
      BY <3>1, <3>2, <3>3
  <2>8. \E h \in DOMAIN d : AtMost(a.entry, <<fills'[h].price, 1>>)
    <3>1. CASE fills[high].price <= x.price
      <4>1. AtMost(p.entry, <<x.price, 1>>)
        BY <1>15, <2>5, <2>6, <3>1, Farther DEF Positions
      <4>2. AtMost(a.entry, <<x.price, 1>>)
        BY <1>15, <2>4, <4>1, AverageBetween
      <4>3. QED
        BY <1>3, <2>6, <4>2
    <3>2. CASE x.price <= fills[high].price
      <4>1. AtMost(a.entry, <<fills[high].price, 1>>)
        BY <1>15, <2>4, <2>5, <2>6, <3>2, AverageBetween
      <4>2. QED
        BY <2>6, <4>1
    <3>3. x.price <= fills[high].price \/ fills[high].price <= x.price
      BY <1>15, <2>6
    <3>4. QED
      BY <3>1, <3>2, <3>3
  <2>9. ASSUME DOMAIN d = I PROVE T = Magnitude(a.qty) /\ Equal(a.entry, <<D, T>>)
    <3>1. DOMAIN b = H
      <4>1. N + 1 \notin H /\ DOMAIN b \subseteq H
        BY <1>11
      <4>2. QED
        BY <2>2, <2>9, <4>1
    <3>2. S = v /\ Equal(p.entry, <<C, v>>)
      BY <1>9, <2>1, <2>4, <3>1
    <3>3. Equal(a.entry, <<C + k * x.price, v + k>>)
      BY <1>15, <2>1, <2>3, <2>4, <3>2, AverageIsQuotient
    <3>4. QED
      BY <2>3, <2>4, <3>2, <3>3
  <2>10. QED
    BY <1>19, <2>7, <2>8, <2>9
<1>20. CASE a.qty # 0 /\ x.symbol = s /\ SameSide(p.qty, a.qty) /\ ~SameSide(x.signed, a.qty)
  <2>1. a.entry = p.entry /\ p.qty # 0
    BY <1>14, <1>15, <1>20, EntryCases DEF SameSide, Positions
  <2>2. DOMAIN d = DOMAIN b /\ I = H \cup {N + 1}
    BY <1>13, <1>20
  <2>3. PICK low, high \in DOMAIN b : /\ AtMost(<<fills[low].price, 1>>, p.entry)
                                      /\ AtMost(p.entry, <<fills[high].price, 1>>)
    BY <1>9, <2>1
  <2>4. fills'[low] = fills[low] /\ fills'[high] = fills[high]
    BY <1>2, <1>11
  <2>5. DOMAIN d # I
    BY <1>11, <2>2
  <2>6. QED
    BY <1>20, <2>1, <2>2, <2>3, <2>4, <2>5
<1>21. QED
  BY <1>16, <1>17, <1>18, <1>19, <1>20

\* Every step keeps the entry prices explained.
LEMMA EntryNext ==
  TypeOK /\ RunInv /\ PositionIsNet /\ PositionIsNet' /\ EntryInv /\ [Next]_vars => EntryInv'
<1> SUFFICES ASSUME TypeOK, RunInv, PositionIsNet, PositionIsNet', EntryInv, [Next]_vars
             PROVE  EntryInv'
  OBVIOUS
<1> WalletOK
  BY TypeParts
<1>1. ASSUME NEW d \in Decisions, OrderFilled(d) PROVE EntryInv'
  <2>1. PICK x \in Fills :
           /\ fills' = Append(fills, x) /\ x.signed # 0
           /\ \A s \in RawSymbols :
                positions'[s] = IF x.symbol = s THEN PositionAfter(positions[s], x.signed, x.price)
                                ELSE positions[s]
    BY <1>1, FillEffect
  <2>2. ASSUME NEW s \in RawSymbols PROVE Explained(s)'
    BY <2>1, FillExplained DEF EntryInv
  <2>3. QED
    BY <2>2 DEF EntryInv
<1>2. CASE UNCHANGED <<positions, fills>>
  <2> SUFFICES ASSUME NEW s \in RawSymbols PROVE Explained(s)'
    BY DEF EntryInv
  <2>1. Explained(s)
    BY DEF EntryInv
  <2>2. FillsOf(s)' = FillsOf(s)
    BY <1>2 DEF FillsOf
  <2>3. \A m : NetAfter(s, m)' = NetAfter(s, m)
    BY <1>2, <2>2 DEF NetAfter
  <2>4. Held(s)' = Held(s)
    BY <1>2, <2>2, <2>3 DEF Held
  <2>5. Built(s)' = Built(s)
    BY <1>2, <2>3, <2>4 DEF Built
  <2>6. Cost(Built(s))' = Cost(Built(s))
    BY <1>2, <2>5 DEF Cost
  <2>7. Total(Built(s))' = Total(Built(s)) /\ Total(Cost(Built(s)))' = Total(Cost(Built(s)))
    BY <1>2, <2>5, <2>6 DEF Total
  <2>8. QED
    BY <1>2, <2>1, <2>4, <2>5, <2>7 DEF Explained
<1>3. QED
  BY <1>1, <1>2, OnlyFills

\* The entry price of a position is the average of what built it, and stays between two
\* of the prices paid once it was reduced: a fill that closes a position or turns it over
\* leaves nothing of it in the next one's price.
THEOREM EntryExplained == Spec => []EntryIsExplained
<1>1. Init => EntryInv
  <2> SUFFICES ASSUME Init, NEW s \in RawSymbols PROVE Explained(s)
    BY DEF EntryInv
  <2>1. positions[s].qty = 0 /\ positions[s].entry = Zero
    BY DEF Init, Flat
  <2>2. QED
    BY <2>1 DEF Explained
<1>2. EntryInv => EntryIsExplained
  BY Zenon DEF EntryInv, Explained, EntryIsExplained
<1>3. QED
  BY <1>1, <1>2, RunInit, RunNext, PositionNet, EntryNext, PTL DEF Spec
=============================================================================
