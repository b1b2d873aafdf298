---------------------------- MODULE Backtest_proof ----------------------------
(***************************************************************************)
(* Theorems about Backtest, for any years, windows, generators and bounds.  *)
(***************************************************************************)
EXTENDS Backtest, FiniteSetTheorems, TLAPS

-----------------------------------------------------------------------------
(* Minima, multiples and years.                                             *)

\* A set of naturals that is not empty has a minimum.
LEMMA MinFacts ==
  ASSUME NEW S \in SUBSET Nat, S # {}
  PROVE  Min(S) \in S /\ \A t \in S : Min(S) <= t
<1> DEFINE R == {p \in Nat \X Nat : p[1] < p[2]}
<1>1. IsWellFoundedOn(R, Nat)
  BY NatLessThanWellFounded DEF OpToRel
<1> HIDE DEF R
<1>2. \E x \in S : \A y \in S : ~(<<y, x>> \in R)
  BY <1>1, WFMin
<1>3. \A x, y \in S : <<y, x>> \in R \/ x <= y
  BY DEF R
<1>4. \E x \in S : \A y \in S : x <= y
  BY <1>2, <1>3
<1>5. QED
  BY <1>4 DEF Min

\* Products of naturals grow with their factors.
LEMMA Multiples ==
  ASSUME NEW d \in Nat \ {0}, NEW a \in Int, NEW b \in Int
  PROVE  /\ d * a \in Int /\ a * d = d * a /\ d * (a + 1) = d * a + d /\ d * (a - b) = d * a - d * b
         /\ a < b <=> d * a < d * b
         /\ a <= b <=> d * a <= d * b
         /\ a < b <=> d * a + d <= d * b
  OBVIOUS

\* The quotient and the remainder, and that they are the only ones.
LEMMA Quotient ==
  ASSUME NEW d \in Nat \ {0}, NEW n \in Int
  PROVE  \E q \in Int, r \in 0..(d - 1) : q = n \div d /\ r = n % d /\ n = d * q + r
<1>1. n \div d \in Int
  OBVIOUS
<1>2. n % d \in 0..(d - 1)
  OBVIOUS
<1>3. \A q, r \in Int : q = n \div d /\ r = n % d => n = d * q + r
  OBVIOUS
<1>4. QED
  BY <1>1, <1>2, <1>3

LEMMA QuotientUnique ==
  ASSUME NEW d \in Nat \ {0}, NEW n \in Int, NEW q \in Int, d * q <= n, n < d * q + d
  PROVE  n \div d = q /\ n % d = n - d * q
  OBVIOUS
\* The year of a time is the one it lies in.
LEMMA YearFacts ==
  ASSUME NEW t \in Times
  PROVE  /\ t \in Nat /\ Year(t) \in Years
         /\ YearLength * Year(t) <= t /\ t < YearLength * Year(t) + YearLength
         /\ \A y \in Int : YearLength * y <= t /\ t < YearLength * y + YearLength => Year(t) = y
<1>1. YearLength \in Nat \ {0} /\ NumYears \in Nat \ {0} /\ YearLength * NumYears \in Nat
  BY BacktestBounds
<1>2. t \in Nat /\ t < YearLength * NumYears
  BY <1>1 DEF Times
<1>3. PICK q \in Int : q = Year(t) /\ YearLength * q <= t /\ t < YearLength * q + YearLength
  <2>1. PICK q \in Int, r \in 0..(YearLength - 1) : q = t \div YearLength /\ t = YearLength * q + r
    BY <1>1, <1>2, Quotient
  <2>2. YearLength * q \in Int
    BY <1>1
  <2>3. YearLength * q <= t /\ t < YearLength * q + YearLength
    BY <1>1, <1>2, <2>1, <2>2
  <2>4. QED
    BY <2>1, <2>3 DEF Year
<1>4. q \in Years
  <2>1. YearLength * 0 = 0
    BY <1>1
  <2>2. YearLength * 0 < YearLength * q + YearLength /\ YearLength * q < YearLength * NumYears
    BY <1>1, <1>2, <1>3, <2>1
  <2>3. YearLength * q + YearLength = YearLength * (q + 1)
    BY <1>1, Multiples
  <2>4. 0 < q + 1 /\ q < NumYears
    BY <1>1, <2>2, <2>3, Multiples
  <2>5. QED
    BY <1>1, <2>4 DEF Years
<1>5. \A y \in Int : YearLength * y <= t /\ t < YearLength * y + YearLength => Year(t) = y
  BY <1>1, <1>2, QuotientUnique DEF Year
<1>6. QED
  BY <1>2, <1>3, <1>4, <1>5

\* Later times are not of earlier years.
LEMMA YearOrder ==
  ASSUME NEW t \in Times, NEW u \in Times, t <= u
  PROVE  Year(t) <= Year(u)
<1> DEFINE a == Year(t)
           b == Year(u)
<1>1. YearLength \in Nat \ {0} /\ t \in Nat /\ u \in Nat /\ a \in Int /\ b \in Int
  BY YearFacts, BacktestBounds DEF Years
<1>2. YearLength * a <= t /\ u < YearLength * b + YearLength
  BY YearFacts
<1> HIDE DEF a, b
<1>3. YearLength * b + YearLength = YearLength * (b + 1) /\ YearLength * a \in Int /\ YearLength * (b + 1) \in Int
  BY <1>1, Multiples
<1>4. YearLength * a < YearLength * (b + 1)
  BY <1>1, <1>2, <1>3
<1>5. a < b + 1
  BY <1>1, <1>4, Multiples
<1>6. a <= b
  BY <1>1, <1>5
<1>7. QED
  BY <1>6 DEF a, b

\* The years of a window, and the times in it.
LEMMA WindowFacts ==
  ASSUME NEW w \in Windows
  PROVE  /\ w.start \in Times /\ w.start \in Nat /\ w.end \in Nat /\ w.end <= YearLength * NumYears
         /\ YearsInRange(w) \subseteq Years
         /\ w.start < w.end => w.end - 1 \in Times /\ YearsInRange(w) = Year(w.start)..Year(w.end - 1)
         /\ ~(w.start < w.end) => YearsInRange(w) = {}
         /\ \A t \in Times : Within(w, t) => Year(t) \in YearsInRange(w)
<1>1. YearLength \in Nat \ {0} /\ NumYears \in Nat \ {0} /\ YearLength * NumYears \in Nat
  BY BacktestBounds
<1>2. w.start \in Times /\ w.start \in Nat /\ w.end \in Nat /\ w.end <= YearLength * NumYears
  BY <1>1, WindowAssumption DEF Times
<1>3. CASE ~(w.start < w.end)
  <2>1. w.end <= w.start
    BY <1>2, <1>3
  <2>2. \A t \in Times : ~Within(w, t)
    BY <1>2, <2>1 DEF Within, Times
  <2>3. QED
    BY <1>2, <1>3, <2>1, <2>2 DEF YearsInRange
<1>4. CASE w.start < w.end
  <2>1. ~(w.end <= w.start) /\ w.end - 1 \in Times
    BY <1>1, <1>2, <1>4 DEF Times
  <2>2. YearsInRange(w) = Year(w.start)..Year(w.end - 1)
    BY <2>1 DEF YearsInRange
  <2>3. Year(w.start) \in Years /\ Year(w.end - 1) \in Years
    BY <1>2, <2>1, YearFacts
  <2>4. YearsInRange(w) \subseteq Years
    BY <1>1, <2>2, <2>3 DEF Years
  <2>5. ASSUME NEW t \in Times, Within(w, t) PROVE Year(t) \in YearsInRange(w)
    <3>1. w.start <= t /\ t <= w.end - 1
      BY <1>2, <2>5, YearFacts DEF Within
    <3>2. Year(w.start) <= Year(t) /\ Year(t) <= Year(w.end - 1)
      BY <1>2, <2>1, <3>1, YearOrder
    <3>3. Year(t) \in Years
      BY YearFacts
    <3>4. QED
      BY <1>1, <2>2, <2>3, <3>2, <3>3 DEF Years
  <2>6. QED
    BY <1>2, <1>4, <2>1, <2>2, <2>4, <2>5
<1>5. QED
  BY <1>3, <1>4

\* The years and databases that are still to come.
LEMMA NextFacts ==
  ASSUME NEW Y \in SUBSET Years, Y # {}
  PROVE  Min(Y) \in Y /\ (\A y \in Y : Min(Y) <= y) /\ DatabaseForYear(Min(Y)) \in Databases
<1>1. Y \in SUBSET Nat
  BY BacktestBounds DEF Years
<1>2. QED
  BY <1>1, MinFacts DEF Databases

-----------------------------------------------------------------------------
(* Types, and the cache of connections.                                     *)

Health == {"unborn", "open", "aborted", "broken", "closed"}
NetworkOK ==
  /\ conns \in [Databases -> Connections \cup {None}]
  /\ health \in [Connections -> Health]
  /\ made \in 0..MaxConnections

\* _get_connection() gives a connection and keeps it in the cache.
LEMMA ConnectedFacts ==
  ASSUME NetworkOK, OpenIsCached, NEW d \in Databases, NEW h \in Health, Connected(d, h)
  PROVE  NetworkOK' /\ OpenIsCached' /\ Connection(d) \in Connections
<1> DEFINE c == Connection(d)
<1>1. c \in Connections
  <2>1. CASE Reusable(d)
    BY <2>1 DEF NetworkOK, Connection, Reusable
  <2>2. CASE ~Reusable(d)
    BY <2>2, BacktestBounds DEF NetworkOK, Connection, Connected, Connections
  <2>3. QED
    BY <2>1, <2>2
<1>2. made' \in 0..MaxConnections
  BY BacktestBounds DEF NetworkOK, Connected
<1>3. conns' = [conns EXCEPT ![d] = c] /\ health' = [health EXCEPT ![c] = h]
  BY DEF Connected
<1>4. Reusable(d) => conns[d] = c
  BY DEF Connection
<1> HIDE DEF c
<1>5. NetworkOK'
  BY <1>1, <1>2, <1>3 DEF NetworkOK
<1>6. ASSUME NEW b \in Connections, health'[b] \in {"open", "aborted", "broken"}
      PROVE  \E e \in Databases : conns'[e] = b
  <2>1. CASE b = c
    BY <1>3, <2>1 DEF NetworkOK
  <2>2. CASE b # c
    <3>1. health[b] \in {"open", "aborted", "broken"}
      BY <1>3, <1>6, <2>2 DEF NetworkOK
    <3>2. PICK e \in Databases : conns[e] = b
      BY <3>1 DEF OpenIsCached
    <3>3. e # d
      <4>1. ASSUME e = d PROVE Reusable(d)
        BY <3>1, <3>2, <4>1 DEF Reusable, Connections, None
      <4>2. QED
        BY <1>4, <2>2, <3>2, <4>1
    <3>4. QED
      BY <1>3, <3>2, <3>3 DEF NetworkOK
  <2>3. QED
    BY <2>1, <2>2
<1>7. QED
  BY <1>1, <1>5, <1>6 DEF OpenIsCached, c

\* A query, whether it answers or raises, keeps the cache.
LEMMA ExecuteFacts ==
  ASSUME NetworkOK, OpenIsCached, NEW d \in Databases,
         Executed(d) \/ ExecuteRaises(d) \/ ConnectRaises(d)
  PROVE  NetworkOK' /\ OpenIsCached'
<1>1. CASE Connected(d, "open") \/ Connected(d, "closed") \/ Connected(d, "aborted")
  BY <1>1, ConnectedFacts DEF Health
<1>2. CASE UNCHANGED network
  BY <1>2 DEF network, NetworkOK, OpenIsCached
<1>3. QED
  BY <1>1, <1>2 DEF Executed, ExecuteRaises, ConnectRaises
Phases == {"idle", "between", "reading", "done", "failed", "dropped"}
ReadingOK ==
  /\ phase \in [Generators -> Phases] /\ want \in [Generators -> Queries]
  /\ todo \in [Generators -> SUBSET Years] /\ cursor \in [Generators -> Connections \cup {None}]
  /\ left \in [Generators -> SUBSET Times] /\ got \in [Generators -> Seq(Times)]
  /\ there \in [Generators -> SUBSET Times]
CheckingOK ==
  /\ cphase \in {"idle", "years"} /\ cwindow \in Windows /\ ctodo \subseteq Years
  /\ verdict \in {"none", "yes", "no", "raised"} /\ still \in BOOLEAN
RowsOK == rows \in [Databases -> SUBSET Times]
CacheOK == NetworkOK /\ OpenIsCached

LEMMA TypeParts == TypeOK <=> RowsOK /\ NetworkOK /\ ReadingOK /\ CheckingOK
  BY Zenon DEF TypeOK, RowsOK, NetworkOK, ReadingOK, CheckingOK, Health, Phases

\* The rows that are left are naturals.
LEMMA EarliestIsLeft ==
  ASSUME ReadingOK, NEW g \in Generators, left[g] # {}
  PROVE  /\ EarliestFirst(left[g]) \in left[g] /\ EarliestFirst(left[g]) \in Times
         /\ \A t \in left[g] : EarliestFirst(left[g]) <= t
<1>1. left[g] \in SUBSET Nat /\ left[g] \subseteq Times
  BY YearFacts DEF ReadingOK
<1>2. QED
  BY <1>1, MinFacts DEF EarliestFirst

\* What a step of a generator does to its own variables.
LEMMA ReadingNext ==
  ASSUME RowsOK, ReadingOK, NetworkOK, OpenIsCached, NEW g \in Generators,
         \/ \E q \in Queries : Call(g, q)
         \/ Query(g) \/ QueryRaises(g) \/ Yield(g) \/ FetchRaises(g) \/ YearDone(g)
         \/ Exhausted(g) \/ Drop(g)
  PROVE  ReadingOK' /\ CacheOK'
<1>1. CASE \E q \in Queries : Call(g, q)
  <2>1. PICK q \in Queries : Call(g, q)
    BY <1>1
  <2>2. YearsInRange(q.window) \subseteq Years
    BY WindowFacts DEF Queries
  <2>3. {t \in UNION {rows[d] : d \in Databases} : Selects(q, t)} \subseteq Times
    BY DEF RowsOK
  <2>4. ReadingOK'
    BY <2>1, <2>2, <2>3 DEF Call, ReadingOK, Phases
  <2>5. QED
    BY <2>1, <2>4 DEF Call, network, CacheOK, NetworkOK, OpenIsCached
<1>2. CASE Yield(g)
  <2>1. Append(got[g], EarliestFirst(left[g])) \in Seq(Times)
    BY <1>2, EarliestIsLeft DEF Yield, ReadingOK
  <2>2. ReadingOK'
    BY <1>2, <2>1 DEF Yield, ReadingOK
  <2>3. QED
    BY <1>2, <2>2 DEF Yield, network, CacheOK, NetworkOK, OpenIsCached
<1>3. CASE FetchRaises(g) \/ YearDone(g) \/ Exhausted(g) \/ Drop(g)
  <2>1. ReadingOK'
    BY <1>3 DEF FetchRaises, YearDone, Exhausted, Drop, Stops, FetchFails, ReadingOK, Phases
  <2>2. UNCHANGED network
    BY <1>3 DEF FetchRaises, YearDone, Exhausted, Drop
  <2>3. QED
    BY <2>1, <2>2 DEF network, CacheOK, NetworkOK, OpenIsCached
<1>4. CASE Query(g) \/ QueryRaises(g)
  <2>1. todo[g] \in SUBSET Years /\ todo[g] # {}
    BY <1>4 DEF Query, QueryRaises, ReadingOK
  <2>2. NextDatabase(g) \in Databases
    BY <2>1, NextFacts DEF NextDatabase
  <2>3. CacheOK'
    BY <1>4, <2>2, ExecuteFacts DEF Query, QueryRaises, CacheOK
  <2>4. CASE QueryRaises(g)
    <3>1. ReadingOK'
      BY <2>4 DEF QueryRaises, Stops, ReadingOK, Phases
    <3>2. QED
      BY <2>3, <3>1
  <2>5. CASE Query(g)
    <3>1. Connection(NextDatabase(g)) \in Connections
      BY <2>2, <2>5, ConnectedFacts DEF Query, Executed, Health
    <3>2. Selected(want[g], NextDatabase(g)) \subseteq Times
      BY <2>2 DEF Selected, RowsOK
    <3>3. ReadingOK'
      BY <2>5, <3>1, <3>2 DEF Query, Stops, ReadingOK, Phases
    <3>4. QED
      BY <2>3, <3>3
  <2>6. QED
    BY <1>4, <2>4, <2>5
<1>5. QED
  BY <1>1, <1>2, <1>3, <1>4

\* What a step of the coverage check does to its own variables.
LEMMA CheckingNext ==
  ASSUME CheckingOK, NetworkOK, OpenIsCached,
         \/ \E w \in Windows : CoverageCall(w)
         \/ CoverageYear \/ CoverageYes \/ CoverageRaises
  PROVE  CheckingOK' /\ CacheOK'
<1>1. CASE \E w \in Windows : CoverageCall(w)
  <2>1. PICK w \in Windows : CoverageCall(w)
    BY <1>1
  <2>2. YearsInRange(w) \subseteq Years
    BY WindowFacts
  <2>3. QED
    BY <2>1, <2>2 DEF CoverageCall, CheckingOK, network, CacheOK, NetworkOK, OpenIsCached
<1>2. CASE CoverageYes
  BY <1>2 DEF CoverageYes, CoverageAnswers, CheckingOK, network, CacheOK, NetworkOK, OpenIsCached
<1>3. CASE CoverageYear \/ CoverageRaises
  <2> DEFINE d == DatabaseForYear(Min(ctodo))
  <2>1. d \in Databases
    BY <1>3, NextFacts DEF CheckingOK, CoverageYear, CoverageRaises
  <2>2. \/ \E h \in Health : Connected(d, h)
        \/ Executed(d) \/ ExecuteRaises(d) \/ ConnectRaises(d)
    <3>1. CASE CoverageRaises
      BY <3>1 DEF CoverageRaises
    <3>2. CASE CoverageYear
      <4>1. \/ Connected(d, IF Reusable(d) THEN health[conns[d]] ELSE "open")
            \/ Executed(d)
        BY <3>2 DEF CoverageYear
      <4>2. (IF Reusable(d) THEN health[conns[d]] ELSE "open") \in Health
        BY <2>1 DEF Reusable, NetworkOK, Health
      <4>3. QED
        BY <4>1, <4>2
    <3>3. QED
      BY <1>3, <3>1, <3>2
  <2> HIDE DEF d
  <2>3. CacheOK'
    BY <2>1, <2>2, ConnectedFacts, ExecuteFacts DEF CacheOK
  <2>4. CheckingOK'
    <3>1. CASE CoverageRaises
      BY <3>1 DEF CoverageRaises, CoverageAnswers, CheckingOK
    <3>2. CASE CoverageYear
      <4>1. \/ CoverageAnswers("no")
            \/ /\ ctodo' \subseteq ctodo
               /\ UNCHANGED <<rows, reading, cphase, cwindow, verdict, still>>
        BY <3>2 DEF CoverageYear
      <4>2. QED
        BY <4>1 DEF CoverageAnswers, CheckingOK
    <3>3. QED
      BY <1>3, <3>1, <3>2
  <2>5. QED
    BY <2>3, <2>4
<1>4. QED
  BY <1>1, <1>2, <1>3

LEMMA TypeNext == TypeOK /\ OpenIsCached /\ [Next]_vars => TypeOK' /\ OpenIsCached'
<1> SUFFICES ASSUME TypeOK, OpenIsCached, [Next]_vars PROVE TypeOK' /\ OpenIsCached'
  OBVIOUS
<1> RowsOK /\ NetworkOK /\ ReadingOK /\ CheckingOK
  BY TypeParts
<1> SUFFICES RowsOK' /\ ReadingOK' /\ CheckingOK' /\ CacheOK'
  BY DEF TypeOK, RowsOK, CacheOK, NetworkOK, ReadingOK, CheckingOK, Health, Phases
<1>1. ASSUME NEW g \in Generators,
             \/ \E q \in Queries : Call(g, q)
             \/ Query(g) \/ QueryRaises(g) \/ Yield(g) \/ FetchRaises(g) \/ YearDone(g)
             \/ Exhausted(g) \/ Drop(g)
      PROVE  RowsOK' /\ ReadingOK' /\ CheckingOK' /\ CacheOK'
  <2>1. UNCHANGED rows /\ UNCHANGED checking
    BY <1>1 DEF Call, Query, QueryRaises, Yield, FetchRaises, YearDone, Exhausted, Drop
  <2>2. RowsOK' /\ CheckingOK'
    BY <2>1 DEF RowsOK, checking, CheckingOK
  <2>3. ReadingOK' /\ CacheOK'
    BY <1>1, ReadingNext
  <2>4. QED
    BY <2>2, <2>3
<1>2. CASE \/ \E w \in Windows : CoverageCall(w)
           \/ CoverageYear \/ CoverageYes \/ CoverageRaises
  <2>1. UNCHANGED rows /\ UNCHANGED reading
    BY <1>2 DEF CoverageCall, CoverageYear, CoverageYes, CoverageRaises, CoverageAnswers
  <2>2. RowsOK' /\ ReadingOK'
    BY <2>1 DEF RowsOK, reading, ReadingOK
  <2>3. CheckingOK' /\ CacheOK'
    BY <1>2, CheckingNext
  <2>4. QED
    BY <2>2, <2>3
<1>3. CASE Close \/ \E c \in Connections : ServerDrops(c)
  <2>1. RowsOK' /\ ReadingOK' /\ CheckingOK'
    BY <1>3 DEF Close, ServerDrops, RowsOK, reading, ReadingOK, checking, CheckingOK
  <2>2. NetworkOK'
    BY <1>3 DEF Close, ServerDrops, NetworkOK, Health
  <2>3. OpenIsCached'
    <3>1. CASE Close
      BY <3>1 DEF Close, OpenIsCached, NetworkOK
    <3>2. ASSUME NEW c \in Connections, ServerDrops(c) PROVE OpenIsCached'
      BY <3>2 DEF ServerDrops, OpenIsCached, NetworkOK
    <3>3. QED
      BY <1>3, <3>1, <3>2
  <2>4. QED
    BY <2>1, <2>2, <2>3 DEF CacheOK
<1>4. ASSUME NEW d \in Databases, NEW t \in Arrivals, Ingest(d, t)
      PROVE  RowsOK' /\ ReadingOK' /\ CheckingOK' /\ CacheOK'
  <2>1. t \in Times
    BY WindowAssumption
  <2>2. RowsOK'
    BY <1>4, <2>1 DEF Ingest, RowsOK
  <2>3. ReadingOK' /\ CheckingOK'
    BY <1>4 DEF Ingest, reading, ReadingOK, CheckingOK
  <2>4. CacheOK'
    BY <1>4 DEF Ingest, network, CacheOK, NetworkOK, OpenIsCached
  <2>5. QED
    BY <2>2, <2>3, <2>4
<1>5. CASE UNCHANGED vars
  BY <1>5 DEF vars, network, reading, checking, RowsOK, ReadingOK, CheckingOK, CacheOK,
              NetworkOK, OpenIsCached
<1>6. QED
  BY <1>1, <1>2, <1>3, <1>4, <1>5 DEF Next

LEMMA TypeInit == Init => TypeOK /\ OpenIsCached
<1> SUFFICES ASSUME Init PROVE TypeOK /\ OpenIsCached
  OBVIOUS
<1>1. rows \in [Databases -> SUBSET Times]
  BY WindowAssumption DEF Init
<1>2. (CHOOSE w \in Windows : TRUE) \in Windows
  BY WindowAssumption
<1>3. (CHOOSE q \in Queries : TRUE) \in Queries
  <2>1. [kind |-> "klines", window |-> CHOOSE w \in Windows : TRUE] \in Queries
    BY <1>2 DEF Queries, Kinds
  <2>2. QED
    BY <2>1
<1>4. NetworkOK /\ OpenIsCached
  BY BacktestBounds DEF Init, NetworkOK, OpenIsCached, Health
<1>5. ReadingOK
  BY <1>3 DEF Init, ReadingOK, Phases
<1>6. CheckingOK
  BY <1>2 DEF Init, CheckingOK
<1>7. QED
  BY <1>1, <1>4, <1>5, <1>6, TypeParts DEF RowsOK

\* Type correctness of the backtest data source.
THEOREM TypeCorrect == Spec => []TypeOK
  BY TypeInit, TypeNext, PTL DEF Spec

\* Every connection that is not closed is one the cache has, and close() finds.
THEOREM NoConnectionLost == Spec => []OpenIsCached
  BY TypeInit, TypeNext, PTL DEF Spec
-----------------------------------------------------------------------------
(* What a generator yields.                                                 *)

\* A row is in the database of its year.
RowsInv == \A d \in Databases : \A t \in rows[d] : Holds(d, t)

InWindow(g, t) ==
  Within(want[g].window, t) \/ (want[g].kind = "other" /\ t = want[g].window.end)

\* Only a generator that reads has rows left, and one that was not called has none.
LeftOK(g) ==
  /\ phase[g] # "reading" => left[g] = {}
  /\ phase[g] = "idle" => got[g] = <<>>
  /\ phase[g] = "done" => todo[g] = {}

\* What was yielded comes before what is left of the year, and both before the
\* years to come.
Ordered(g) ==
  /\ \A i, j \in DOMAIN got[g] : i < j => got[g][i] < got[g][j]
  /\ \A s \in ToSet(got[g]) : \A t \in left[g] : s < t
  /\ \A t \in ToSet(got[g]) \cup left[g] : InWindow(g, t) /\ \A y \in todo[g] : Year(t) < y

\* A row that was there at the call was yielded, is left, or is in a database
\* that is still to be asked, or never.
Unlost(g) == phase[g] \in {"between", "reading", "done"} =>
  \A t \in there[g] :
    /\ Selects(want[g], t) /\ t \in rows[DatabaseForYear(Year(t))]
    /\ \/ t \in ToSet(got[g]) \/ t \in left[g] \/ NeverAsked(want[g].window, t)
       \/ \E y \in todo[g] : DatabaseForYear(y) = DatabaseForYear(Year(t))

LeftInv == \A g \in Generators : LeftOK(g)
OrderInv == \A g \in Generators : Ordered(g)
CompleteInv == \A g \in Generators : Unlost(g)

\* The elements of a sequence that one is appended to.
LEMMA ToSetAppend ==
  ASSUME NEW S, NEW s \in Seq(S), NEW x \in S
  PROVE  /\ ToSet(Append(s, x)) = ToSet(s) \cup {x} /\ ToSet(s) \subseteq S
         /\ DOMAIN s = 1..Len(s) /\ DOMAIN Append(s, x) = 1..(Len(s) + 1)
         /\ \A i \in 1..Len(s) : Append(s, x)[i] = s[i] /\ s[i] \in ToSet(s)
         /\ Append(s, x)[Len(s) + 1] = x /\ Len(s) \in Nat
<1> DEFINE n == Len(s)
           u == Append(s, x)
<1>1. n \in Nat /\ DOMAIN s = 1..n /\ \A i \in 1..n : s[i] \in S
  OBVIOUS
<1>2. DOMAIN u = 1..(n + 1) /\ (\A i \in 1..n : u[i] = s[i]) /\ u[n + 1] = x
  OBVIOUS
<1> HIDE DEF n, u
<1>3. 1..(n + 1) = (1..n) \cup {n + 1}
  BY <1>1
<1>4. ToSet(u) = ToSet(s) \cup {x}
  BY <1>1, <1>2, <1>3 DEF ToSet
<1>5. ToSet(s) \subseteq S /\ \A i \in 1..n : s[i] \in ToSet(s)
  BY <1>1 DEF ToSet
<1>6. QED
  BY <1>1, <1>2, <1>4, <1>5 DEF n, u

\* The database that has a row is that of its year.
LEMMA HomeOfRow ==
  ASSUME RowsOK, RowsInv, NEW d \in Databases, NEW t \in rows[d]
  PROVE  t \in Times /\ d = DatabaseForYear(Year(t))
<1>1. t \in Times
  BY DEF RowsOK
<1>2. CASE Sharded
  BY <1>1, <1>2 DEF RowsInv, Holds, DatabaseForYear
<1>3. CASE ~Sharded
  BY <1>1, <1>3 DEF Databases, DatabaseForYear
<1>4. QED
  BY <1>1, <1>2, <1>3

\* A row that a query selects is of a year that is asked, but for the end of the
\* window.
LEMMA SelectedIsAsked ==
  ASSUME NEW q \in Queries, NEW t \in Times, Selects(q, t)
  PROVE  Year(t) \in YearsInRange(q.window) \/ NeverAsked(q.window, t)
<1> DEFINE w == q.window
<1>1. w \in Windows /\ w.start \in Nat /\ w.end \in Nat /\ t \in Nat
  BY WindowFacts, YearFacts DEF Queries
<1>2. w.start <= t /\ t <= w.end
  BY <1>1 DEF Selects
<1> HIDE DEF w
<1>3. CASE t < w.end
  BY <1>1, <1>2, <1>3, WindowFacts DEF Within, w
<1>4. CASE t = w.end /\ t # w.start /\ t % YearLength # 0
  <2>1. w.start < w.end /\ t - 1 \in Times /\ w.start <= t - 1
    BY <1>1, <1>2, <1>4, WindowFacts
  <2>2. Within(w, t - 1)
    BY <1>1, <1>4, <2>1 DEF Within
  <2>3. Year(t - 1) \in YearsInRange(w)
    BY <1>1, <2>1, <2>2, WindowFacts
  <2>4. PICK a \in Int : /\ a = YearLength * Year(t) /\ a <= t /\ t < a + YearLength
                         /\ (a <= t - 1 /\ t - 1 < a + YearLength => Year(t - 1) = Year(t))
    <3>1. Year(t) \in Int /\ YearLength \in Nat \ {0}
      BY YearFacts, BacktestBounds DEF Years
    <3>2. YearLength * Year(t) \in Int
      BY <3>1
    <3>3. YearLength * Year(t) <= t - 1 /\ t - 1 < YearLength * Year(t) + YearLength
            => Year(t - 1) = Year(t)
      BY <2>1, <3>1, YearFacts
    <3>4. QED
      BY <3>2, <3>3, YearFacts
  <2>5. a # t
    <3>1. SUFFICES ASSUME a = t PROVE FALSE
      OBVIOUS
    <3>2. Year(t) \in Int /\ YearLength \in Nat \ {0} /\ YearLength * Year(t) = t
      BY <2>4, <3>1, YearFacts, BacktestBounds DEF Years
    <3>3. YearLength * Year(t) <= t /\ t < YearLength * Year(t) + YearLength
      BY YearFacts
    <3>4. t % YearLength = t - YearLength * Year(t)
      BY <1>1, <3>2, <3>3, QuotientUnique
    <3>5. QED
      BY <1>1, <1>4, <3>2, <3>4
  <2>6. YearLength \in Nat
    BY BacktestBounds
  <2>7. Year(t - 1) = Year(t)
    BY <1>1, <2>4, <2>5, <2>6
  <2>8. QED
    BY <2>3, <2>7 DEF w
<1>5. QED
  BY <1>1, <1>2, <1>3, <1>4 DEF NeverAsked, w

\* A step of one generator.
LEMMA GeneratorStep ==
  ASSUME RowsOK, ReadingOK, RowsInv, LeftInv, CompleteInv, NEW g \in Generators,
         \/ \E q \in Queries : Call(g, q)
         \/ Query(g) \/ QueryRaises(g) \/ Yield(g) \/ FetchRaises(g) \/ YearDone(g)
         \/ Exhausted(g) \/ Drop(g)
  PROVE  /\ LeftOK(g)' /\ Unlost(g)'
         /\ Sharded /\ Ordered(g) => Ordered(g)'
         /\ rows' = rows
         /\ \A h \in Generators \ {g} :
              /\ phase'[h] = phase[h] /\ want'[h] = want[h] /\ todo'[h] = todo[h]
              /\ left'[h] = left[h] /\ got'[h] = got[h] /\ there'[h] = there[h]
<1> LeftOK(g) /\ Unlost(g)
  BY DEF LeftInv, CompleteInv
<1> got[g] \in Seq(Times) /\ left[g] \in SUBSET Times /\ todo[g] \in SUBSET Years
  BY DEF ReadingOK
<1>1. CASE \E q \in Queries : Call(g, q)
  <2>1. PICK q \in Queries : Call(g, q)
    BY <1>1
  <2>2. /\ phase'[g] = "between" /\ want'[g] = q /\ todo'[g] = YearsInRange(q.window)
        /\ there'[g] = {t \in UNION {rows[d] : d \in Databases} : Selects(q, t)}
        /\ left'[g] = {} /\ got'[g] = <<>> /\ rows' = rows
        /\ \A h \in Generators \ {g} :
             /\ phase'[h] = phase[h] /\ want'[h] = want[h] /\ todo'[h] = todo[h]
             /\ left'[h] = left[h] /\ got'[h] = got[h] /\ there'[h] = there[h]
    BY <2>1 DEF Call, ReadingOK, LeftOK
  <2>3. ToSet(got'[g]) = {} /\ DOMAIN got'[g] = {}
    BY <2>2 DEF ToSet
  <2>4. LeftOK(g)' /\ Ordered(g)'
    BY <2>2, <2>3 DEF LeftOK, Ordered
  <2>5. ASSUME NEW t \in there'[g]
        PROVE  /\ Selects(want'[g], t) /\ t \in rows'[DatabaseForYear(Year(t))]
               /\ \/ NeverAsked(want'[g].window, t)
                  \/ \E y \in todo'[g] : DatabaseForYear(y) = DatabaseForYear(Year(t))
    <3>1. PICK d \in Databases : t \in rows[d] /\ Selects(q, t)
      BY <2>2
    <3>2. t \in Times /\ d = DatabaseForYear(Year(t))
      BY <3>1, HomeOfRow
    <3>3. Year(t) \in YearsInRange(q.window) \/ NeverAsked(q.window, t)
      BY <3>1, <3>2, SelectedIsAsked
    <3>4. QED
      BY <2>2, <3>1, <3>2, <3>3
  <2>6. Unlost(g)'
    BY <2>5 DEF Unlost
  <2>7. QED
    BY <2>2, <2>4, <2>6
<1>2. CASE Query(g)
  <2> DEFINE y == Min(todo[g])
             d == NextDatabase(g)
  <2>1. /\ phase[g] = "between" /\ todo[g] # {} /\ phase'[g] = "reading" /\ want' = want
        /\ left'[g] = Selected(want[g], d) /\ todo'[g] = todo[g] \ {y}
        /\ got' = got /\ there' = there /\ rows' = rows
        /\ \A h \in Generators \ {g} :
             phase'[h] = phase[h] /\ todo'[h] = todo[h] /\ left'[h] = left[h]
    BY <1>2 DEF Query, Stops, ReadingOK
  <2>2. y \in todo[g] /\ (\A z \in todo[g] : y <= z) /\ d = DatabaseForYear(y) /\ d \in Databases
    BY <2>1, NextFacts DEF NextDatabase
  <2>3. y \in Nat /\ \A z \in todo[g] : z \in Nat
    BY <2>2, BacktestBounds DEF Years
  <2> HIDE DEF y, d
  <2>4. left[g] = {} /\ LeftOK(g)'
    BY <2>1 DEF LeftOK
  <2>5. ASSUME NEW t \in there[g]
        PROVE  /\ Selects(want[g], t) /\ t \in rows[DatabaseForYear(Year(t))]
               /\ \/ t \in ToSet(got[g]) \/ t \in left'[g] \/ NeverAsked(want[g].window, t)
                  \/ \E z \in todo'[g] : DatabaseForYear(z) = DatabaseForYear(Year(t))
    <3>1. /\ Selects(want[g], t) /\ t \in rows[DatabaseForYear(Year(t))]
          /\ \/ t \in ToSet(got[g]) \/ NeverAsked(want[g].window, t)
             \/ \E z \in todo[g] : DatabaseForYear(z) = DatabaseForYear(Year(t))
      BY <2>1, <2>4 DEF Unlost
    <3>2. CASE DatabaseForYear(y) = DatabaseForYear(Year(t))
      <4>1. t \in left'[g]
        BY <2>1, <2>2, <3>1, <3>2 DEF Selected
      <4>2. QED
        BY <3>1, <4>1
    <3>3. CASE DatabaseForYear(y) # DatabaseForYear(Year(t))
      BY <2>1, <3>1, <3>3
    <3>4. QED
      BY <3>2, <3>3
  <2>6. Unlost(g)'
    BY <2>1, <2>5 DEF Unlost
  <2>7. ASSUME Sharded, Ordered(g) PROVE Ordered(g)'
    <3>1. ASSUME NEW t \in left'[g] PROVE t \in Times /\ Year(t) = y /\ InWindow(g, t)
      <4>1. t \in rows[d] /\ t \in Times
        BY <2>1, <2>2 DEF Selected, RowsOK
      <4>2. Year(t) = y
        BY <2>2, <2>7, <4>1 DEF RowsInv, Holds, DatabaseForYear
      <4>3. want[g].kind \in {"klines", "other"} /\ want[g].window \in Windows
        BY DEF ReadingOK, Queries, Kinds
      <4>4. want[g].window.end \in Nat /\ t \in Nat
        BY <4>1, <4>3, WindowFacts, YearFacts
      <4>5. /\ want[g].window.start <= t
            /\ IF want[g].kind = "klines" THEN t < want[g].window.end ELSE t <= want[g].window.end
        BY <2>1 DEF Selected, Selects
      <4>6. InWindow(g, t)
        BY <4>3, <4>4, <4>5 DEF InWindow, Within
      <4>7. QED
        BY <4>1, <4>2, <4>6
    <3>2. ASSUME NEW s \in ToSet(got[g]) PROVE s \in Times /\ Year(s) < y
      BY <2>2, <2>7 DEF Ordered, ToSet
    <3>3. ASSUME NEW s \in ToSet(got[g]), NEW t \in left'[g] PROVE s < t
      <4>1. s \in Times /\ t \in Times /\ Year(s) < Year(t) /\ s \in Nat /\ t \in Nat
        BY <3>1, <3>2, YearFacts
      <4>2. Year(s) \in Nat /\ Year(t) \in Nat
        BY <4>1, YearFacts, BacktestBounds DEF Years
      <4>3. ~(t <= s)
        BY <4>1, <4>2, YearOrder
      <4>4. QED
        BY <4>1, <4>3
    <3>4. ASSUME NEW t \in left'[g], NEW z \in todo'[g] PROVE Year(t) < z
      BY <2>1, <2>2, <2>3, <3>1
    <3>5. \A t : InWindow(g, t)' <=> InWindow(g, t)
      BY <2>1 DEF InWindow
    <3>6. QED
      BY <2>1, <2>7, <3>1, <3>3, <3>4, <3>5 DEF Ordered
  <2>8. QED
    BY <2>1, <2>4, <2>6, <2>7
<1>3. CASE Yield(g)
  <2> DEFINE t == EarliestFirst(left[g])
  <2>1. t \in left[g] /\ t \in Times /\ \A s \in left[g] : t <= s
    BY <1>3, EarliestIsLeft DEF Yield
  <2>2. /\ left'[g] = left[g] \ {t} /\ got'[g] = Append(got[g], t)
        /\ phase[g] = "reading" /\ phase' = phase /\ want' = want /\ todo' = todo
        /\ there' = there /\ rows' = rows
        /\ \A h \in Generators \ {g} : left'[h] = left[h] /\ got'[h] = got[h]
    BY <1>3 DEF Yield, ReadingOK
  <2> HIDE DEF t
  <2> DEFINE n == Len(got[g])
  <2>3. /\ ToSet(got'[g]) = ToSet(got[g]) \cup {t} /\ ToSet(got[g]) \subseteq Times
        /\ DOMAIN got[g] = 1..n /\ DOMAIN got'[g] = 1..(n + 1)
        /\ \A i \in 1..n : got'[g][i] = got[g][i] /\ got[g][i] \in ToSet(got[g])
        /\ got'[g][n + 1] = t /\ n \in Nat
    BY <2>1, <2>2, ToSetAppend
  <2> HIDE DEF n
  <2>4. LeftOK(g)'
    BY <2>2 DEF LeftOK
  <2>5. Unlost(g)'
    BY <2>1, <2>2, <2>3 DEF Unlost
  <2>6. ASSUME Ordered(g) PROVE Ordered(g)'
    <3>1. ASSUME NEW i \in 1..(n + 1), NEW j \in 1..(n + 1), i < j PROVE got'[g][i] < got'[g][j]
      <4>1. i \in 1..n /\ (j \in 1..n \/ j = n + 1)
        BY <2>3, <3>1
      <4>2. QED
        BY <2>1, <2>3, <2>6, <3>1, <4>1 DEF Ordered
    <3>2. ASSUME NEW s \in ToSet(got'[g]), NEW u \in left'[g] PROVE s < u
      <4>1. s \in ToSet(got[g]) \/ s = t
        BY <2>3
      <4>2. u \in left[g] /\ u # t /\ t <= u /\ u \in Nat /\ t \in Nat
        BY <2>1, <2>2, YearFacts
      <4>3. QED
        BY <2>6, <4>1, <4>2 DEF Ordered
    <3>3. \A s : InWindow(g, s)' <=> InWindow(g, s)
      BY <2>2 DEF InWindow
    <3>4. ToSet(got'[g]) \cup left'[g] \subseteq ToSet(got[g]) \cup left[g]
      BY <2>1, <2>2, <2>3
    <3>5. QED
      BY <2>2, <2>3, <2>6, <3>1, <3>2, <3>3, <3>4 DEF Ordered
  <2>7. QED
    BY <2>2, <2>4, <2>5, <2>6
<1>4. CASE QueryRaises(g) \/ FetchRaises(g) \/ YearDone(g) \/ Exhausted(g) \/ Drop(g)
  <2>1. /\ want' = want /\ todo' = todo /\ got' = got /\ there' = there /\ rows' = rows
        /\ left'[g] \subseteq left[g] /\ \A h \in Generators \ {g} : phase'[h] = phase[h] /\ left'[h] = left[h]
    BY <1>4 DEF QueryRaises, FetchRaises, YearDone, Exhausted, Drop, Stops, ReadingOK
  <2>2. /\ LeftOK(g)'
        /\ phase'[g] \in {"between", "reading", "done"} =>
             phase[g] \in {"between", "reading", "done"} /\ left'[g] = left[g]
    BY <1>4 DEF QueryRaises, FetchRaises, YearDone, Exhausted, Drop, Stops, FetchFails, ReadingOK, LeftOK
  <2>3. Unlost(g)'
    BY <2>1, <2>2 DEF Unlost
  <2>4. Ordered(g) => Ordered(g)'
    BY <2>1 DEF Ordered, InWindow
  <2>5. QED
    BY <2>1, <2>2, <2>3, <2>4
<1>5. QED
  BY <1>1, <1>2, <1>3, <1>4

\* Every step keeps what the generators have and have to come.
LEMMA GeneratorsNext ==
  ASSUME TypeOK, RowsInv, LeftInv, CompleteInv, [Next]_vars
  PROVE  RowsInv' /\ LeftInv' /\ CompleteInv' /\ (Sharded /\ OrderInv => OrderInv')
<1> RowsOK /\ ReadingOK
  BY TypeParts
<1>1. ASSUME NEW g \in Generators,
             \/ \E q \in Queries : Call(g, q)
             \/ Query(g) \/ QueryRaises(g) \/ Yield(g) \/ FetchRaises(g) \/ YearDone(g)
             \/ Exhausted(g) \/ Drop(g)
      PROVE  RowsInv' /\ LeftInv' /\ CompleteInv' /\ (Sharded /\ OrderInv => OrderInv')
  <2>1. /\ LeftOK(g)' /\ Unlost(g)' /\ (Sharded /\ Ordered(g) => Ordered(g)') /\ rows' = rows
        /\ \A h \in Generators \ {g} :
             /\ phase'[h] = phase[h] /\ want'[h] = want[h] /\ todo'[h] = todo[h]
             /\ left'[h] = left[h] /\ got'[h] = got[h] /\ there'[h] = there[h]
    BY <1>1, GeneratorStep
  <2>2. RowsInv'
    BY <2>1 DEF RowsInv
  <2>3. ASSUME NEW h \in Generators \ {g} PROVE LeftOK(h)' /\ Unlost(h)' /\ (Ordered(h) => Ordered(h)')
    <3>1. LeftOK(h) /\ Unlost(h)
      BY DEF LeftInv, CompleteInv
    <3>2. LeftOK(h)'
      BY <2>1, <3>1 DEF LeftOK
    <3>3. Unlost(h)'
      BY <2>1, <3>1 DEF Unlost
    <3>4. Ordered(h) => Ordered(h)'
      BY <2>1 DEF Ordered, InWindow
    <3>5. QED
      BY <3>2, <3>3, <3>4
  <2>4. LeftInv' /\ CompleteInv'
    BY <2>1, <2>3 DEF LeftInv, CompleteInv
  <2>5. ASSUME Sharded, OrderInv PROVE OrderInv'
    BY <2>1, <2>3, <2>5 DEF OrderInv
  <2>6. QED
    BY <2>2, <2>4, <2>5
<1>2. CASE UNCHANGED <<rows, reading>>
  <2>1. RowsInv' /\ LeftInv'
    BY <1>2 DEF reading, RowsInv, LeftInv, LeftOK
  <2>2. CompleteInv'
    BY <1>2 DEF reading, CompleteInv, Unlost
  <2>3. OrderInv => OrderInv'
    BY <1>2 DEF reading, OrderInv, Ordered, InWindow
  <2>4. QED
    BY <2>1, <2>2, <2>3
<1>3. ASSUME NEW d \in Databases, NEW t \in Arrivals, Ingest(d, t)
      PROVE  RowsInv' /\ LeftInv' /\ CompleteInv' /\ (Sharded /\ OrderInv => OrderInv')
  <2>1. Holds(d, t) /\ rows' = [rows EXCEPT ![d] = @ \cup {t}] /\ UNCHANGED reading
    BY <1>3 DEF Ingest
  <2>2. \A e \in Databases : rows[e] \subseteq rows'[e] /\ rows'[e] \subseteq rows[e] \cup {t}
                             /\ (e # d => rows'[e] = rows[e])
    BY <2>1 DEF RowsOK
  <2>3. RowsInv'
    BY <2>1, <2>2 DEF RowsInv
  <2>4. LeftInv'
    BY <2>1 DEF reading, LeftInv, LeftOK
  <2>5. \A g \in Generators : \A s \in there[g] : DatabaseForYear(Year(s)) \in Databases
    BY YearFacts DEF ReadingOK, Databases
  <2>6. CompleteInv'
    BY <2>1, <2>2, <2>5 DEF reading, CompleteInv, Unlost
  <2>7. OrderInv => OrderInv'
    BY <2>1 DEF reading, OrderInv, Ordered, InWindow
  <2>8. QED
    BY <2>3, <2>4, <2>6, <2>7
<1>4. CASE \/ \E w \in Windows : CoverageCall(w)
           \/ CoverageYear \/ CoverageYes \/ CoverageRaises \/ Close
           \/ (\E c \in Connections : ServerDrops(c)) \/ UNCHANGED vars
  BY <1>2, <1>4 DEF CoverageCall, CoverageYear, CoverageYes, CoverageRaises, CoverageAnswers, Close,
                    ServerDrops, vars
<1>5. QED
  BY <1>1, <1>3, <1>4 DEF Next

LEMMA GeneratorsInit == Init => RowsInv /\ LeftInv /\ CompleteInv /\ OrderInv
<1> SUFFICES ASSUME Init PROVE RowsInv /\ LeftInv /\ CompleteInv /\ OrderInv
  OBVIOUS
<1>1. RowsInv
  BY DEF Init, RowsInv
<1>2. \A g \in Generators :
        /\ phase[g] = "idle" /\ left[g] = {} /\ got[g] = <<>> /\ todo[g] = {}
        /\ DOMAIN got[g] = {} /\ ToSet(got[g]) = {}
  BY DEF Init, ToSet
<1>3. QED
  BY <1>1, <1>2 DEF LeftInv, LeftOK, CompleteInv, Unlost, OrderInv, Ordered

\* In databases of a year each, a generator yields the rows of its window in the
\* order of their times, each once.  (In one database for all years it does not:
\* every year of the window reads all of it.)
THEOREM RowsInOrder ==
  ASSUME Sharded
  PROVE  Spec => []YieldedInOrder
<1> DEFINE Inv == TypeOK /\ OpenIsCached /\ RowsInv /\ LeftInv /\ CompleteInv /\ OrderInv
<1>1. Init => Inv
  BY TypeInit, GeneratorsInit
<1>2. Inv /\ [Next]_vars => Inv'
  BY TypeNext, GeneratorsNext
<1>3. Inv => YieldedInOrder
  BY DEF OrderInv, Ordered, InWindow, YieldedInOrder, ToSet
<1> HIDE DEF Inv
<1>4. QED
  BY <1>1, <1>2, <1>3, PTL DEF Spec

\* A generator that ends has yielded every row its WHERE clause selects that was
\* there when it was called, through whatever closed, failed or arrived in
\* between; but for one at the end of the window when that is the first moment of
\* a year, or the window's start (backtest.py:96).
THEOREM NothingMissing == Spec => []CompleteWhenDone
<1> DEFINE Inv == TypeOK /\ OpenIsCached /\ RowsInv /\ LeftInv /\ CompleteInv
<1>1. Init => Inv
  BY TypeInit, GeneratorsInit
<1>2. Inv /\ [Next]_vars => Inv'
  BY TypeNext, GeneratorsNext
<1>3. Inv => CompleteWhenDone
  BY DEF LeftInv, LeftOK, CompleteInv, Unlost, CompleteWhenDone
<1> HIDE DEF Inv
<1>4. QED
  BY <1>1, <1>2, <1>3, PTL DEF Spec

-----------------------------------------------------------------------------
(* Counting the bars of a segment.                                          *)

\* An arithmetic progression of n terms has n elements.
LEMMA ProgressionCount ==
  ASSUME NEW a \in Int, NEW n \in Nat, NEW d \in Nat \ {0}
  PROVE  /\ IsFiniteSet({a + d * k : k \in 0..(n - 1)})
         /\ Cardinality({a + d * k : k \in 0..(n - 1)}) = n
<1> DEFINE K == 0..(n - 1)
           T == {a + d * k : k \in K}
           f == [k \in K |-> a + d * k]
<1>1. IsFiniteSet(K) /\ Cardinality(K) = n
  BY FS_Interval
<1>2. ASSUME NEW i \in K, NEW j \in K, a + d * i = a + d * j PROVE i = j
  <2>1. i \in Int /\ j \in Int /\ d * i \in Int /\ d * j \in Int
    OBVIOUS
  <2>2. d * i = d * j
    BY <1>2, <2>1
  <2>3. ~(i < j) /\ ~(j < i)
    BY <2>1, <2>2, Multiples
  <2>4. QED
    BY <2>1, <2>3
<1> HIDE DEF K
<1>3. f \in Bijection(K, T)
  BY <1>2 DEF Bijection, Injection, Surjection, IsInjective
<1>4. ExistsBijection(K, T)
  BY <1>3 DEF ExistsBijection
<1> HIDE DEF T, f
<1>5. IsFiniteSet(T) /\ Cardinality(T) = n
  BY <1>1, <1>4, FS_Bijection
<1>6. QED
  BY <1>5 DEF T, K

\* A window between two bars.
BarWindow(w) ==
  /\ w.start \in Nat /\ w.end \in Nat /\ w.start <= w.end /\ w.end <= YearLength * NumYears
  /\ w.start % Interval = 0 /\ w.end % Interval = 0
BarsOf(w) == (w.end - w.start) \div Interval

\* A remainder is that of a sum whose other part has none.
LEMMA ModSum ==
  ASSUME NEW d \in Nat \ {0}, NEW m \in Int, NEW n \in Int, m % d = 0
  PROVE  (n - m) % d = 0 <=> n % d = 0
<1>1. PICK p \in Int, o \in 0..(d - 1) : o = m % d /\ m = d * p + o
  BY Quotient
<1>2. PICK q \in Int, r \in 0..(d - 1) : q = n \div d /\ r = n % d /\ n = d * q + r
  BY Quotient
<1> DEFINE a == d * p
           b == d * q
           c == d * (q - p)
<1>3. a \in Int /\ b \in Int /\ c \in Int /\ q - p \in Int /\ c = b - a
  BY Multiples
<1>4. m = a + o /\ n = b + r /\ o = 0
  BY <1>1, <1>2
<1> HIDE DEF a, b, c
<1>5. n - m = c + r /\ n - m \in Int
  BY <1>2, <1>3, <1>4
<1>6. PICK x \in Int : x = n - m
  BY <1>5
<1>7. c <= x /\ x < c + d
  BY <1>2, <1>3, <1>5, <1>6
<1>8. x % d = x - c
  BY <1>3, <1>7, QuotientUnique DEF c
<1>9. QED
  BY <1>2, <1>3, <1>5, <1>6, <1>8

\* The bars of such a window are those at its start and at every interval after it.
LEMMA GridIsProgression ==
  ASSUME NEW w, BarWindow(w)
  PROVE  /\ BarsOf(w) \in Nat
         /\ Grid(w) = {w.start + Interval * k : k \in 0..(BarsOf(w) - 1)}
<1> DEFINE I == Interval
           n == BarsOf(w)
<1>1. I \in Nat \ {0} /\ w.start \in Nat /\ w.end \in Nat /\ w.start <= w.end
  BY BacktestBounds DEF BarWindow
<1>2. PICK n0 \in Int : n0 = n /\ w.end = w.start + I * n0
  <2>1. PICK x \in Int : x = w.end - w.start
    BY <1>1
  <2>2. x % I = 0
    BY <1>1, <2>1, ModSum DEF BarWindow
  <2>3. PICK q \in Int, r \in 0..(I - 1) : q = x \div I /\ r = x % I /\ x = I * q + r
    BY <1>1, Quotient
  <2>4. I * q \in Int /\ x = I * q
    BY <1>1, <2>2, <2>3
  <2>5. w.end = w.start + I * q
    BY <1>1, <2>1, <2>4
  <2>6. QED
    BY <2>1, <2>3, <2>5 DEF BarsOf
<1>3. n0 \in Nat
  <2>1. I * 0 = 0 /\ I * n0 \in Int
    BY <1>1
  <2>2. I * 0 <= I * n0
    BY <1>1, <1>2, <2>1
  <2>3. 0 <= n0
    BY <1>1, <2>2, Multiples
  <2>4. QED
    BY <2>3
<1> HIDE DEF I, n
<1>4. ASSUME NEW t \in Grid(w) PROVE \E k \in 0..(n0 - 1) : t = w.start + I * k
  <2>1. t \in Nat /\ w.start <= t /\ t < w.end /\ t % I = 0
    BY YearFacts DEF Grid, Within, I
  <2>2. PICK x \in Int : x = t - w.start /\ x % I = 0
    BY <1>1, <2>1, ModSum DEF BarWindow, I
  <2>3. PICK k \in Int, r \in 0..(I - 1) : r = x % I /\ x = I * k + r
    BY <1>1, Quotient
  <2>4. I * k \in Int /\ I * n0 \in Int /\ I * 0 = 0
    BY <1>1
  <2>5. t = w.start + I * k
    BY <1>1, <2>1, <2>2, <2>3, <2>4
  <2>6. I * 0 <= I * k /\ I * k < I * n0
    BY <1>1, <1>2, <2>1, <2>4, <2>5
  <2>7. 0 <= k /\ k < n0
    BY <1>1, <2>6, Multiples
  <2>8. QED
    BY <2>5, <2>7
<1>5. ASSUME NEW k \in 0..(n0 - 1) PROVE w.start + I * k \in Grid(w)
  <2>1. I * k \in Int /\ I * n0 \in Int /\ I * 0 = 0 /\ I * 0 <= I * k /\ I * k < I * n0
    BY <1>1, Multiples
  <2>2. w.start <= w.start + I * k /\ w.start + I * k < w.end
    BY <1>1, <1>2, <2>1
  <2>3. w.start + I * k \in Times
    BY <1>1, <2>1, <2>2, BacktestBounds DEF BarWindow, Times
  <2>4. PICK x \in Int : x = I * k
    BY <2>1
  <2>5. x % I = 0
    <3>1. PICK q \in Int : q = k
      OBVIOUS
    <3>2. I * q <= x /\ x < I * q + I /\ x - I * q = 0
      BY <1>1, <2>1, <2>4, <3>1
    <3>3. x % I = x - I * q
      BY <1>1, <3>2, QuotientUnique
    <3>4. QED
      BY <3>2, <3>3
  <2>6. PICK t \in Int : t = w.start + x
    BY <1>1
  <2>7. t - w.start = x
    BY <1>1, <2>6
  <2>8. t % I = 0
    BY <1>1, <2>5, <2>6, <2>7, ModSum DEF BarWindow, I
  <2>9. QED
    BY <2>2, <2>3, <2>4, <2>6, <2>8 DEF Grid, Within, I
<1>6. Grid(w) = {w.start + I * k : k \in 0..(n0 - 1)}
  BY <1>4, <1>5
<1>7. QED
  BY <1>2, <1>3, <1>6 DEF I, n

\* The rows of a window between two bars pass the check of a year exactly when
\* they are its bars: counting them and their ranks misses nothing.
LEMMA ContinuousIsGrid ==
  ASSUME NEW w, BarWindow(w), NEW found \in SUBSET Times, \A t \in found : Within(w, t)
  PROVE  Continuous(w, found) <=> found = Grid(w)
<1> DEFINE I == Interval
           n == BarsOf(w)
           Below(t) == {u \in found : u < t}
<1>1. I \in Nat \ {0} /\ w.start \in Nat /\ n \in Nat /\ YearLength * NumYears \in Nat
  BY GridIsProgression, BacktestBounds DEF BarWindow
<1>2. Grid(w) = {w.start + I * k : k \in 0..(n - 1)}
  BY GridIsProgression
<1>3. Continuous(w, found) <=>
        Cardinality(found) = n /\ \A t \in found : t = w.start + Cardinality(Below(t)) * I
  BY DEF Continuous, StartsRight, BarsOf
<1>4. IsFiniteSet(found)
  <2>1. IsFiniteSet(Times)
    BY <1>1, FS_Interval DEF Times
  <2>2. QED
    BY <2>1, FS_Subset
<1> HIDE DEF I, n
<1>5. ASSUME Continuous(w, found) PROVE found = Grid(w)
  <2> DEFINE r == [t \in found |-> Cardinality(Below(t))]
  <2>1. ASSUME NEW t \in found PROVE Cardinality(Below(t)) \in 0..(n - 1)
    <3>1. Below(t) \in SUBSET found /\ Below(t) # found
      BY YearFacts
    <3>2. Cardinality(Below(t)) <= Cardinality(found) /\ Cardinality(Below(t)) # Cardinality(found)
          /\ IsFiniteSet(Below(t))
      BY <1>4, <3>1, FS_Subset
    <3>3. Cardinality(Below(t)) \in Nat
      BY <3>2, FS_CardinalityType
    <3>4. Cardinality(found) = n
      BY <1>3, <1>5
    <3> HIDE DEF Below
    <3>5. QED
      BY <1>1, <3>2, <3>3, <3>4
  <2>2. \A t \in found : t = w.start + r[t] * I
    BY <1>3, <1>5
  <2>3. r \in [found -> 0..(n - 1)]
    BY <2>1
  <2> HIDE DEF r, Below
  <2>4. r \in Injection(found, 0..(n - 1))
    <3>1. \A t, u \in found : r[t] = r[u] => t = u
      BY <2>2
    <3>2. QED
      BY <2>3, <3>1 DEF Injection, IsInjective
  <2>5. IsFiniteSet(0..(n - 1)) /\ Cardinality(0..(n - 1)) = n
    <3>1. PICK m \in Int : m = n - 1
      BY <1>1
    <3>2. IsFiniteSet(0..m) /\ Cardinality(0..m) = IF 0 > m THEN 0 ELSE m - 0 + 1
      BY FS_Interval
    <3>3. QED
      BY <1>1, <3>1, <3>2
  <2>6. r \in Surjection(found, 0..(n - 1))
    BY <1>3, <1>5, <2>4, <2>5, FS_Injection
  <2>7. ASSUME NEW t \in found PROVE t \in Grid(w)
    <3>1. r[t] \in 0..(n - 1) /\ r[t] \in Int /\ r[t] * I = I * r[t]
      BY <1>1, <2>3, Multiples
    <3>2. QED
      BY <1>2, <2>2, <3>1
  <2>8. ASSUME NEW k \in 0..(n - 1) PROVE w.start + I * k \in found
    <3>1. PICK t \in found : r[t] = k
      BY <2>6 DEF Surjection
    <3>2. k * I = I * k
      BY <1>1, Multiples
    <3>3. QED
      BY <2>2, <3>1, <3>2
  <2>9. QED
    BY <1>2, <2>7, <2>8
<1>6. ASSUME found = Grid(w) PROVE Continuous(w, found)
  <2>1. Cardinality(found) = n
    <3>1. PICK a \in Int : a = w.start
      BY <1>1
    <3>2. Cardinality({a + I * k : k \in 0..(n - 1)}) = n
      BY <1>1, ProgressionCount
    <3>3. QED
      BY <1>2, <1>6, <3>1, <3>2, Zenon
  <2>2. ASSUME NEW t \in found PROVE t = w.start + Cardinality(Below(t)) * I
    <3>1. PICK k \in 0..(n - 1) : t = w.start + I * k
      BY <1>2, <1>6
    <3>2. k \in Nat /\ I * k \in Int /\ I * k = k * I
      BY <1>1, <3>1, Multiples
    <3>3. ASSUME NEW j \in 0..(n - 1) PROVE j < k <=> w.start + I * j < t
      <4>1. I * j \in Int /\ (j < k <=> I * j < I * k)
        BY <1>1, <3>2, Multiples
      <4>2. QED
        BY <1>1, <3>1, <3>2, <4>1
    <3>4. Below(t) = {w.start + I * j : j \in 0..(k - 1)}
      <4>1. \A j : j \in 0..(k - 1) <=> j \in 0..(n - 1) /\ j < k
        BY <1>1, <3>1
      <4>2. QED
        BY <1>2, <1>6, <3>3, <4>1
    <3>5. Cardinality(Below(t)) = k
      <4>1. PICK a \in Int : a = w.start
        BY <1>1
      <4>2. Cardinality({a + I * j : j \in 0..(k - 1)}) = k
        BY <1>1, <3>2, ProgressionCount
      <4>3. QED
        BY <3>4, <4>1, <4>2, Zenon
    <3>6. QED
      BY <3>1, <3>2, <3>5
  <2>3. QED
    BY <1>3, <2>1, <2>2
<1>7. QED
  BY <1>5, <1>6
-----------------------------------------------------------------------------
(* What the coverage check has found.                                       *)

\* The larger and the smaller of two.
LEMMA OfTwo ==
  ASSUME NEW a \in Int, NEW b \in Int
  PROVE  /\ Max({a, b}) = IF a < b THEN b ELSE a
         /\ Min({a, b}) = IF a < b THEN a ELSE b
<1>1. \E x \in {a, b} : \A y \in {a, b} : x >= y
  OBVIOUS
<1>2. \E x \in {a, b} : \A y \in {a, b} : x <= y
  OBVIOUS
<1>3. Max({a, b}) \in {a, b} /\ \A y \in {a, b} : Max({a, b}) >= y
  BY <1>1 DEF Max
<1>4. Min({a, b}) \in {a, b} /\ \A y \in {a, b} : Min({a, b}) <= y
  BY <1>2 DEF Min
<1>5. QED
  BY <1>3, <1>4

\* The years of a window are those that begin before its end and end after its start.
LEMMA YearInRange ==
  ASSUME NEW w \in Windows, w.start < w.end, NEW y \in Int
  PROVE  /\ YearLength * y \in Int /\ y * YearLength = YearLength * y
         /\ (y + 1) * YearLength = YearLength * y + YearLength
         /\ YearLength * (y + 1) = YearLength * y + YearLength
         /\ y \in YearsInRange(w) <=> YearLength * y < w.end /\ w.start < YearLength * y + YearLength
<1>1. YearLength \in Nat \ {0} /\ w.start \in Times /\ w.end - 1 \in Times /\ w.start \in Nat /\ w.end \in Nat
  BY WindowFacts, BacktestBounds
<1>2. PICK p \in Int : p = Year(w.start) /\ YearLength * p <= w.start
                       /\ w.start < YearLength * p + YearLength
  BY <1>1, YearFacts DEF Years
<1>3. PICK q \in Int : q = Year(w.end - 1) /\ YearLength * q <= w.end - 1
                       /\ w.end - 1 < YearLength * q + YearLength
  BY <1>1, YearFacts DEF Years
<1>4. y \in YearsInRange(w) <=> p <= y /\ y <= q
  BY <1>2, <1>3, WindowFacts
<1>5. PICK P, Q, Y \in Int : P = YearLength * p /\ Q = YearLength * q /\ Y = YearLength * y
  BY <1>1, Multiples
<1>6. /\ y * YearLength = Y /\ (y + 1) * YearLength = Y + YearLength
      /\ YearLength * (y + 1) = Y + YearLength
  <2>1. PICK z \in Int : z = y + 1
    OBVIOUS
  <2>2. z * YearLength = YearLength * z /\ YearLength * z = Y + YearLength
    BY <1>1, <1>5, <2>1, Multiples
  <2>3. QED
    BY <1>1, <1>5, <2>1, <2>2, Multiples
<1>7. p <= y <=> P <= Y
  BY <1>1, <1>5, Multiples
<1>8. P <= Y <=> P < Y + YearLength
  <2>1. ~(y < p) \/ Y + YearLength <= P
    BY <1>1, <1>5, Multiples
  <2>2. QED
    BY <1>1, <1>5, <1>7, <2>1
<1>9. y <= q <=> Y <= Q
  BY <1>1, <1>5, Multiples
<1>10. Y <= Q <=> Y < Q + YearLength
  <2>1. ~(q < y) \/ Q + YearLength <= Y
    BY <1>1, <1>5, Multiples
  <2>2. QED
    BY <1>1, <1>5, <1>9, <2>1
<1>11. P <= Y <=> w.start < Y + YearLength
  <2>1. P <= Y => w.start < Y + YearLength
    BY <1>1, <1>2, <1>5
  <2>2. w.start < Y + YearLength => P < Y + YearLength
    BY <1>1, <1>2, <1>5
  <2>3. QED
    BY <1>8, <2>1, <2>2
<1>12. Y <= Q <=> Y < w.end
  <2>1. Y <= Q => Y < w.end
    BY <1>1, <1>3, <1>5
  <2>2. Y < w.end => Y < Q + YearLength
    BY <1>1, <1>3, <1>5
  <2>3. QED
    BY <1>10, <2>1, <2>2
<1>13. QED
  BY <1>4, <1>5, <1>6, <1>7, <1>9, <1>11, <1>12

\* The part of the window that lies in a year.
LEMMA SegmentFacts ==
  ASSUME CheckingOK, cwindow.start < cwindow.end, NEW y \in YearsInRange(cwindow)
  PROVE  /\ y \in Years /\ y \in Int
         /\ Segment(y).start = IF cwindow.start < YearLength * y THEN YearLength * y ELSE cwindow.start
         /\ Segment(y).end =
              IF cwindow.end < YearLength * y + YearLength THEN cwindow.end ELSE YearLength * y + YearLength
         /\ Segment(y).start \in Nat /\ Segment(y).end \in Nat /\ Segment(y).start < Segment(y).end
         /\ Segment(y).end <= YearLength * NumYears
<1>1. cwindow \in Windows
  BY DEF CheckingOK
<1>2. YearLength \in Nat \ {0} /\ cwindow.start \in Nat /\ cwindow.end \in Nat
      /\ cwindow.end <= YearLength * NumYears /\ y \in Years /\ y \in Int
  BY <1>1, WindowFacts, BacktestBounds DEF Years
<1>3. PICK a, b, L \in Int :
        /\ a = YearLength * y /\ b = YearLength * y + YearLength /\ L = YearLength * NumYears
        /\ y * YearLength = a /\ (y + 1) * YearLength = b
        /\ a < cwindow.end /\ cwindow.start < b /\ a < b
  <2>1. YearLength * y \in Int /\ YearLength * NumYears \in Int
    BY <1>2, BacktestBounds, Multiples
  <2>2. QED
    BY <1>1, <1>2, <2>1, YearInRange
<1>4. Segment(y).start = Max({cwindow.start, a}) /\ Segment(y).end = Min({cwindow.end, b})
  BY <1>3 DEF Segment
<1>5. Max({cwindow.start, a}) = IF cwindow.start < a THEN a ELSE cwindow.start
  BY <1>2, OfTwo
<1>6. Min({cwindow.end, b}) = IF cwindow.end < b THEN cwindow.end ELSE b
  <2>1. cwindow.end \in Int
    BY <1>2
  <2>2. QED
    BY <2>1, OfTwo
<1>7. /\ Segment(y).start = IF cwindow.start < a THEN a ELSE cwindow.start
      /\ Segment(y).end = IF cwindow.end < b THEN cwindow.end ELSE b
  BY <1>4, <1>5, <1>6
<1>8. PICK c, e \in Int : c = Segment(y).start /\ e = Segment(y).end
  BY <1>2, <1>3, <1>7
<1>9. c \in Nat /\ e \in Nat /\ c < e /\ e <= L
  <2>1. c \in Nat /\ c < e
    BY <1>2, <1>3, <1>7, <1>8
  <2>2. e <= L
    BY <1>2, <1>3, <1>7, <1>8
  <2>3. QED
    BY <2>1, <2>2
<1>10. QED
  BY <1>2, <1>3, <1>7, <1>8, <1>9

\* The times of a segment are those of the window in its year.
LEMMA SegmentTimes ==
  ASSUME CheckingOK, cwindow.start < cwindow.end, NEW y \in YearsInRange(cwindow), NEW t \in Times
  PROVE  Within(Segment(y), t) <=> Within(cwindow, t) /\ Year(t) = y
<1>1. y \in Int /\ YearLength \in Nat \ {0} /\ cwindow.start \in Nat /\ cwindow.end \in Nat /\ t \in Nat
  BY SegmentFacts, YearFacts, WindowFacts, BacktestBounds DEF CheckingOK
<1>2. PICK a \in Int : a = YearLength * y
  BY <1>1, Multiples
<1>3. Year(t) = y <=> a <= t /\ t < a + YearLength
  BY <1>1, <1>2, YearFacts
<1>4. /\ Segment(y).start = IF cwindow.start < a THEN a ELSE cwindow.start
      /\ Segment(y).end = IF cwindow.end < a + YearLength THEN cwindow.end ELSE a + YearLength
  BY <1>2, SegmentFacts
<1>5. Within(Segment(y), t) <=> Within(cwindow, t) /\ a <= t /\ t < a + YearLength
  BY <1>1, <1>4 DEF Within
<1>6. QED
  BY <1>3, <1>5

\* The rows of a year's segment.
Found(y) == {t \in rows[DatabaseForYear(y)] : Within(Segment(y), t)}

\* A year's rows and bars are those of the window that are of the year.
LEMMA FoundFacts ==
  ASSUME CheckingOK, RowsOK, RowsInv, cwindow.start < cwindow.end, NEW y \in YearsInRange(cwindow)
  PROVE  /\ Found(y) = {t \in RowsWithin(cwindow) : Year(t) = y}
         /\ Grid(Segment(y)) = {t \in Grid(cwindow) : Year(t) = y}
<1>1. DatabaseForYear(y) \in Databases
  BY SegmentFacts DEF Databases
<1>2. \A t \in Times : Within(Segment(y), t) <=> Within(cwindow, t) /\ Year(t) = y
  BY SegmentTimes
<1>3. ASSUME NEW t \in Found(y) PROVE t \in RowsWithin(cwindow) /\ Year(t) = y
  BY <1>1, <1>2 DEF Found, RowsOK, RowsWithin
<1>4. ASSUME NEW t \in RowsWithin(cwindow), Year(t) = y PROVE t \in Found(y)
  <2>1. PICK d \in Databases : t \in rows[d] /\ Within(cwindow, t)
    BY DEF RowsWithin
  <2>2. t \in Times /\ d = DatabaseForYear(y)
    BY <1>4, <2>1, HomeOfRow
  <2>3. QED
    BY <1>2, <1>4, <2>1, <2>2 DEF Found
<1>5. Grid(Segment(y)) = {t \in Grid(cwindow) : Year(t) = y}
  BY <1>2 DEF Grid
<1>6. QED
  BY <1>3, <1>4, <1>5
\* A year that was looked at: its segment is one of bars, which are there, and
\* nothing else was when the check was called.
Checked(y) ==
  /\ Segment(y).start % Interval = 0 /\ Segment(y).end % Interval = 0
  /\ Grid(Segment(y)) \subseteq Found(y)
  /\ still => Found(y) = Grid(Segment(y))
CoverInv ==
  /\ cphase = "years" =>
       /\ Aligned(cwindow) /\ verdict = "none" /\ ctodo \subseteq YearsInRange(cwindow)
       /\ \A y \in YearsInRange(cwindow) \ ctodo : Checked(y)
  /\ CoverageIsExact
NoBarOverYears ==
  \A y \in Years : Within(cwindow, y * YearLength) => (y * YearLength) % Interval = 0

\* The segment of a year begins with its window or where that of the year before
\* ends.
LEMMA SegmentStarts ==
  ASSUME CheckingOK, cwindow.start < cwindow.end, NEW y \in YearsInRange(cwindow)
  PROVE  \/ Segment(y).start = cwindow.start
         \/ /\ y - 1 \in YearsInRange(cwindow) /\ Segment(y - 1).end = Segment(y).start
            /\ Within(cwindow, y * YearLength) /\ Segment(y).start = y * YearLength
<1>1. /\ cwindow \in Windows /\ y \in Int /\ YearLength \in Nat \ {0} /\ cwindow.start \in Nat
      /\ cwindow.end \in Nat
  BY SegmentFacts, WindowFacts, BacktestBounds DEF CheckingOK
<1>2. PICK a \in Int : a = YearLength * y /\ a < cwindow.end /\ a = y * YearLength
  BY <1>1, YearInRange
<1>3. Segment(y).start = IF cwindow.start < a THEN a ELSE cwindow.start
  BY <1>2, SegmentFacts
<1>4. CASE cwindow.start < a
  <2>1. PICK z \in Int : z = y - 1 /\ y = z + 1
    BY <1>1
  <2>2. PICK c \in Int : c = YearLength * z /\ c + YearLength = a
    <3>1. PICK c \in Int : c = YearLength * z /\ YearLength * (z + 1) = c + YearLength
      BY <1>1, Multiples
    <3>2. QED
      BY <1>1, <1>2, <2>1, <3>1
  <2>3. z \in YearsInRange(cwindow)
    <3>1. c < cwindow.end /\ cwindow.start < c + YearLength
      BY <1>1, <1>2, <1>4, <2>2
    <3>2. QED
      BY <1>1, <2>2, <3>1, YearInRange
  <2>4. Segment(z).end = a
    <3>1. Segment(z).end = IF cwindow.end < a THEN cwindow.end ELSE a
      BY <2>2, <2>3, SegmentFacts
    <3>2. QED
      BY <1>1, <1>2, <3>1
  <2>5. Within(cwindow, a)
    BY <1>1, <1>2, <1>4 DEF Within
  <2>6. QED
    BY <1>2, <1>3, <1>4, <2>1, <2>3, <2>4, <2>5
<1>5. QED
  BY <1>3, <1>4

\* It ends with its window or where that of the next year begins.
LEMMA SegmentEnds ==
  ASSUME CheckingOK, cwindow.start < cwindow.end, NEW y \in YearsInRange(cwindow)
  PROVE  \/ Segment(y).end = cwindow.end
         \/ /\ y + 1 \in Years /\ Within(cwindow, (y + 1) * YearLength)
            /\ Segment(y).end = (y + 1) * YearLength
<1>1. /\ cwindow \in Windows /\ y \in Int /\ YearLength \in Nat \ {0} /\ cwindow.start \in Nat
      /\ cwindow.end \in Nat /\ YearLength * NumYears \in Int /\ NumYears \in Nat /\ y \in Nat
      /\ cwindow.end <= YearLength * NumYears
  BY SegmentFacts, WindowFacts, BacktestBounds DEF CheckingOK, Years
<1>2. PICK b \in Int : /\ b = YearLength * y + YearLength /\ cwindow.start < b
                       /\ b = (y + 1) * YearLength /\ b = YearLength * (y + 1)
  BY <1>1, YearInRange
<1>3. Segment(y).end = IF cwindow.end < b THEN cwindow.end ELSE b
  BY <1>2, SegmentFacts
<1>4. CASE b < cwindow.end
  <2>1. y + 1 < NumYears
    <3>1. PICK z \in Int, L \in Int : z = y + 1 /\ L = YearLength * NumYears
      BY <1>1
    <3>2. YearLength * z < YearLength * NumYears
      BY <1>1, <1>2, <1>4, <3>1
    <3>3. z < NumYears
      BY <1>1, <3>2, Multiples
    <3>4. QED
      BY <3>1, <3>3
  <2>2. y + 1 \in Years
    BY <1>1, <2>1 DEF Years
  <2>3. Within(cwindow, b)
    BY <1>1, <1>2, <1>4 DEF Within
  <2>4. QED
    BY <1>1, <1>2, <1>3, <1>4, <2>2, <2>3
<1>5. CASE ~(b < cwindow.end)
  BY <1>1, <1>2, <1>3, <1>5
<1>6. QED
  BY <1>4, <1>5

\* When the window is aligned and no bar goes over the end of a year, every
\* segment is between two bars.
LEMMA SegmentsAligned ==
  ASSUME CheckingOK, Aligned(cwindow), NoBarOverYears, NEW y \in YearsInRange(cwindow)
  PROVE  Segment(y).start % Interval = 0 /\ Segment(y).end % Interval = 0
<1>1. cwindow.start < cwindow.end /\ cwindow.start % Interval = 0 /\ cwindow.end % Interval = 0
  BY DEF Aligned
<1>2. y \in Years
  BY <1>1, SegmentFacts
<1>3. Segment(y).start % Interval = 0
  BY <1>1, <1>2, SegmentStarts DEF NoBarOverYears
<1>4. Segment(y).end % Interval = 0
  BY <1>1, SegmentEnds DEF NoBarOverYears
<1>5. QED
  BY <1>3, <1>4

\* The check of one year says whether its rows are the bars of its segment.
LEMMA YearIsExact ==
  ASSUME CheckingOK, RowsOK, cwindow.start < cwindow.end, NEW y \in YearsInRange(cwindow),
         Segment(y).start % Interval = 0, Segment(y).end % Interval = 0
  PROVE  Continuous(Segment(y), Found(y)) <=> Found(y) = Grid(Segment(y))
<1>1. BarWindow(Segment(y))
  <2>1. Segment(y).start <= Segment(y).end
    BY SegmentFacts
  <2>2. QED
    BY <2>1, SegmentFacts DEF BarWindow
<1>2. DatabaseForYear(y) \in Databases
  BY SegmentFacts DEF Databases
<1>3. Found(y) \in SUBSET Times /\ \A t \in Found(y) : Within(Segment(y), t)
  BY <1>2 DEF Found, RowsOK
<1>4. QED
  BY <1>1, <1>3, ContinuousIsGrid

\* When all the years were looked at, the answer yes is the right one.
LEMMA YesIsRight ==
  ASSUME CheckingOK, RowsOK, RowsInv, Aligned(cwindow), \A y \in YearsInRange(cwindow) : Checked(y)
  PROVE  /\ Grid(cwindow) \subseteq RowsWithin(cwindow)
         /\ still => RowsWithin(cwindow) = Grid(cwindow)
         /\ NoBarOverYears
<1>1. cwindow.start < cwindow.end /\ cwindow \in Windows /\ cwindow.start \in Nat /\ cwindow.end \in Nat
  BY WindowFacts DEF Aligned, CheckingOK
<1>2. Grid(cwindow) \subseteq RowsWithin(cwindow)
  <2> SUFFICES ASSUME NEW t \in Grid(cwindow) PROVE t \in RowsWithin(cwindow)
    OBVIOUS
  <2>1. Year(t) \in YearsInRange(cwindow)
    BY <1>1, WindowFacts DEF Grid
  <2>2. t \in Grid(Segment(Year(t)))
    BY <1>1, <2>1, FoundFacts
  <2>3. t \in Found(Year(t))
    BY <2>1, <2>2 DEF Checked
  <2>4. QED
    BY <1>1, <2>1, <2>3, FoundFacts
<1>3. ASSUME still, NEW t \in RowsWithin(cwindow) PROVE t \in Grid(cwindow)
  <2>1. Year(t) \in YearsInRange(cwindow)
    BY <1>1, WindowFacts DEF RowsWithin, RowsOK
  <2>2. t \in Found(Year(t))
    BY <1>1, <2>1, FoundFacts
  <2>3. t \in Grid(Segment(Year(t)))
    BY <1>3, <2>1, <2>2 DEF Checked
  <2>4. QED
    BY <1>1, <2>1, <2>3, FoundFacts
<1>4. ASSUME NEW y \in Years, Within(cwindow, y * YearLength) PROVE (y * YearLength) % Interval = 0
  <2>1. y \in Int /\ YearLength \in Nat \ {0}
    BY BacktestBounds DEF Years
  <2>2. PICK a \in Int : a = YearLength * y /\ a = y * YearLength
    BY <1>1, <2>1, YearInRange
  <2>3. cwindow.start <= a /\ a < cwindow.end
    BY <1>4, <2>2 DEF Within
  <2>4. y \in YearsInRange(cwindow)
    BY <1>1, <2>1, <2>2, <2>3, YearInRange
  <2>5. Segment(y).start = a
    <3>1. Segment(y).start = IF cwindow.start < a THEN a ELSE cwindow.start
      BY <1>1, <2>2, <2>4, SegmentFacts
    <3>2. QED
      BY <1>1, <2>3, <3>1
  <2>6. QED
    BY <2>2, <2>4, <2>5 DEF Checked
<1>5. QED
  BY <1>2, <1>3, <1>4 DEF NoBarOverYears
\* What was found stays found while neither the window nor the rows change.
LEMMA CheckedStays ==
  ASSUME UNCHANGED <<rows, cwindow, still>>, NEW y
  PROVE  /\ Checked(y)' <=> Checked(y)
         /\ RowsWithin(cwindow)' = RowsWithin(cwindow)
         /\ NoBarOverYears' <=> NoBarOverYears
<1>1. Segment(y)' = Segment(y)
  BY DEF Segment
<1>2. Found(y)' = Found(y)
  BY <1>1 DEF Found
<1>3. Grid(Segment(y))' = Grid(Segment(y))
  BY <1>1 DEF Grid, Within
<1>4. Checked(y)' <=> Checked(y)
  BY <1>1, <1>2, <1>3 DEF Checked
<1>5. QED
  BY <1>4 DEF RowsWithin, NoBarOverYears, Within

\* A step of the coverage check that looks at a year.
LEMMA YearStep ==
  ASSUME CheckingOK, RowsOK, RowsInv, CoverInv, CoverageYear
  PROVE  CoverInv'
<1> DEFINE y == Min(ctodo)
           s == Segment(y)
<1>1. /\ cphase = "years" /\ ctodo # {} /\ Aligned(cwindow) /\ verdict = "none"
      /\ ctodo \subseteq YearsInRange(cwindow) /\ \A z \in YearsInRange(cwindow) \ ctodo : Checked(z)
  BY DEF CoverInv, CoverageYear
<1>2. cwindow.start < cwindow.end /\ cwindow.start % Interval = 0 /\ cwindow.end % Interval = 0
  BY <1>1 DEF Aligned
<1>3. y \in ctodo /\ y \in YearsInRange(cwindow) /\ \A z \in ctodo : y <= z
  BY <1>1, NextFacts DEF CheckingOK
<1>4. s.start \in Nat /\ s.end \in Nat /\ y \in Int /\ Interval \in Nat \ {0}
  BY <1>2, <1>3, SegmentFacts, BacktestBounds
<1>5. s.start % Interval = 0
  <2>1. CASE s.start = cwindow.start
    BY <1>2, <2>1
  <2>2. CASE y - 1 \in YearsInRange(cwindow) /\ Segment(y - 1).end = s.start
    <3>1. y - 1 \notin ctodo
      BY <1>3, <1>4
    <3>2. Checked(y - 1)
      BY <1>1, <2>2, <3>1
    <3>3. QED
      BY <2>2, <3>2 DEF Checked
  <2>3. QED
    BY <1>2, <1>3, <2>1, <2>2, SegmentStarts
<1>6. (s.end - s.start) % Interval = 0 <=> s.end % Interval = 0
  <2>1. PICK m, n \in Int : m = s.start /\ n = s.end
    BY <1>4
  <2> HIDE DEF s
  <2>2. m % Interval = 0
    BY <1>5, <2>1
  <2>3. (n - m) % Interval = 0 <=> n % Interval = 0
    BY <1>4, <2>2, ModSum
  <2>4. QED
    BY <2>1, <2>3
<1>7. \/ /\ s.end % Interval # 0 /\ CoverageAnswers("no")
      \/ /\ s.end % Interval = 0
         /\ IF Continuous(s, Found(y))
            THEN ctodo' = ctodo \ {y} /\ UNCHANGED <<rows, reading, cphase, cwindow, verdict, still>>
            ELSE CoverageAnswers("no")
  BY <1>6 DEF CoverageYear, Found
<1>8. s.end % Interval = 0 => (Continuous(s, Found(y)) <=> Found(y) = Grid(s))
  BY <1>2, <1>3, <1>5, YearIsExact
<1>9. Found(y) # Grid(s) => RowsWithin(cwindow) # Grid(cwindow)
  BY <1>2, <1>3, FoundFacts
<1>10. s.end % Interval # 0 => ~NoBarOverYears
  BY <1>1, <1>3, SegmentsAligned
<1> HIDE DEF y, s
<1>11. CASE CoverageAnswers("no") /\ ~(RowsWithin(cwindow) = Grid(cwindow) /\ NoBarOverYears)
  <2>1. UNCHANGED <<rows, cwindow, still>> /\ cphase' = "idle" /\ verdict' = "no"
    BY <1>11 DEF CoverageAnswers
  <2>2. ~(RowsWithin(cwindow)' = Grid(cwindow)' /\ NoBarOverYears')
    BY <1>11, <2>1, CheckedStays DEF Grid, Within
  <2>3. CoverageIsExact'
    BY <2>1, <2>2 DEF CoverageIsExact, NoBarOverYears
  <2>4. QED
    BY <2>1, <2>3 DEF CoverInv
<1>12. CASE /\ s.end % Interval = 0 /\ Found(y) = Grid(s)
            /\ ctodo' = ctodo \ {y} /\ UNCHANGED <<rows, reading, cphase, cwindow, verdict, still>>
  <2>1. Checked(y)
    BY <1>5, <1>12 DEF Checked, s
  <2>2. \A z \in YearsInRange(cwindow) \ ctodo' : Checked(z)'
    BY <1>1, <1>12, <2>1, CheckedStays
  <2>3. CoverageIsExact'
    BY <1>1, <1>12 DEF CoverageIsExact
  <2>4. QED
    BY <1>1, <1>12, <2>2, <2>3 DEF CoverInv, Aligned
<1>13. QED
  BY <1>7, <1>8, <1>9, <1>10, <1>11, <1>12

\* Every step keeps what the coverage check has found.
LEMMA CoverNext ==
  ASSUME TypeOK, RowsInv, CoverInv, [Next]_vars
  PROVE  CoverInv'
<1> RowsOK /\ CheckingOK
  BY TypeParts
<1>1. CASE UNCHANGED <<rows, checking>>
  <2>1. UNCHANGED <<rows, cwindow, still>> /\ UNCHANGED <<cphase, ctodo, verdict>>
    BY <1>1 DEF checking
  <2>2. \A y : Checked(y)' <=> Checked(y)
    BY <2>1, CheckedStays
  <2>3. RowsWithin(cwindow)' = RowsWithin(cwindow)
    BY <2>1 DEF RowsWithin, Within
  <2>4. CoverageIsExact'
    BY <2>1, <2>3 DEF CoverInv, CoverageIsExact, Grid, Within, Aligned
  <2>5. QED
    BY <2>1, <2>2, <2>4 DEF CoverInv, Aligned
<1>2. ASSUME NEW w \in Windows, CoverageCall(w) PROVE CoverInv'
  <2>1. cwindow' = w
    BY <1>2 DEF CoverageCall
  <2>2. CASE Aligned(w)
    <3>1. cphase' = "years" /\ ctodo' = YearsInRange(w) /\ verdict' = "none"
      BY <1>2, <2>2 DEF CoverageCall
    <3>2. CoverageIsExact'
      BY <3>1 DEF CoverageIsExact
    <3>3. QED
      BY <2>1, <2>2, <3>1, <3>2 DEF CoverInv
  <2>3. CASE ~Aligned(w)
    <3>1. cphase' = "idle" /\ verdict' = "no"
      BY <1>2, <2>3 DEF CoverageCall
    <3>2. CoverageIsExact'
      BY <2>1, <2>3, <3>1 DEF CoverageIsExact
    <3>3. QED
      BY <3>1, <3>2 DEF CoverInv
  <2>4. QED
    BY <2>2, <2>3
<1>3. CASE CoverageYear
  BY <1>3, YearStep
<1>4. CASE CoverageYes
  <2>1. /\ Aligned(cwindow) /\ \A y \in YearsInRange(cwindow) : Checked(y)
        /\ UNCHANGED <<rows, cwindow, still>> /\ cphase' = "idle" /\ verdict' = "yes"
    BY <1>4 DEF CoverageYes, CoverageAnswers, CoverInv
  <2>2. /\ Grid(cwindow) \subseteq RowsWithin(cwindow)
        /\ still => RowsWithin(cwindow) = Grid(cwindow)
        /\ NoBarOverYears
    BY <2>1, YesIsRight
  <2>3. RowsWithin(cwindow)' = RowsWithin(cwindow) /\ Grid(cwindow)' = Grid(cwindow)
    BY <2>1 DEF RowsWithin, Grid, Within
  <2>4. NoBarOverYears'
    BY <2>1, <2>2 DEF NoBarOverYears, Within
  <2>5. CoverageIsExact'
    BY <2>1, <2>2, <2>3, <2>4 DEF CoverageIsExact, Aligned, NoBarOverYears
  <2>6. QED
    BY <2>1, <2>5 DEF CoverInv
<1>5. CASE CoverageRaises
  <2>1. cphase' = "idle" /\ verdict' = "raised"
    BY <1>5 DEF CoverageRaises, CoverageAnswers
  <2>2. QED
    BY <2>1 DEF CoverInv, CoverageIsExact
<1>6. ASSUME NEW d \in Databases, NEW t \in Arrivals, Ingest(d, t) PROVE CoverInv'
  <2>1. /\ \A e \in Databases : rows[e] \subseteq rows'[e]
        /\ still' = FALSE /\ UNCHANGED <<cphase, cwindow, ctodo, verdict>>
    BY <1>6 DEF Ingest, RowsOK
  <2>2. RowsWithin(cwindow) \subseteq RowsWithin(cwindow)'
    BY <2>1 DEF RowsWithin, Within
  <2>3. ASSUME NEW y \in YearsInRange(cwindow), cwindow.start < cwindow.end, Checked(y) PROVE Checked(y)'
    <3>1. DatabaseForYear(y) \in Databases
      BY <2>3, SegmentFacts DEF Databases
    <3>2. Segment(y)' = Segment(y) /\ Grid(Segment(y))' = Grid(Segment(y))
      BY <2>1 DEF Segment, Grid, Within
    <3>3. Found(y) \subseteq Found(y)'
      BY <2>1, <3>1, <3>2 DEF Found
    <3>4. QED
      BY <2>1, <2>3, <3>2, <3>3 DEF Checked
  <2>4. CoverageIsExact'
    BY <2>1, <2>2 DEF CoverInv, CoverageIsExact, Grid, Within
  <2>5. QED
    BY <2>1, <2>3, <2>4 DEF CoverInv, Aligned
<1>7. CASE \/ \E g \in Generators :
                \/ \E q \in Queries : Call(g, q)
                \/ Query(g) \/ QueryRaises(g) \/ Yield(g) \/ FetchRaises(g) \/ YearDone(g)
                \/ Exhausted(g) \/ Drop(g)
           \/ Close \/ (\E c \in Connections : ServerDrops(c)) \/ UNCHANGED vars
  BY <1>1, <1>7 DEF Call, Query, QueryRaises, Yield, FetchRaises, YearDone, Exhausted, Drop, Close,
                    ServerDrops, vars
<1>8. QED
  BY <1>2, <1>3, <1>4, <1>5, <1>6, <1>7 DEF Next

\* The coverage check is exact: after yes, every bar of the window is there; and
\* when no row came since it was called, it says yes if and only if the rows of the
\* window are its bars and no bar goes over the end of a year.  Counting the rows and
\* comparing each with its index is enough for that, year by year.
THEOREM CoverageExact == Spec => []CoverageIsExact
<1> DEFINE Inv == TypeOK /\ OpenIsCached /\ RowsInv /\ LeftInv /\ CompleteInv /\ CoverInv
<1>1. Init => Inv
  <2>1. Init => CoverInv
    BY DEF Init, CoverInv, CoverageIsExact
  <2>2. QED
    BY <2>1, TypeInit, GeneratorsInit
<1>2. Inv /\ [Next]_vars => Inv'
  BY TypeNext, GeneratorsNext, CoverNext
<1>3. Inv => CoverageIsExact
  BY DEF CoverInv
<1> HIDE DEF Inv
<1>4. QED
  BY <1>1, <1>2, <1>3, PTL DEF Spec
=============================================================================
