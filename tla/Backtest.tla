------------------------------ MODULE Backtest ------------------------------
(***************************************************************************)
(* BacktestDataSource (market_data/backtest.py): generators that read a     *)
(* window of rows from one database per year, has_kline_coverage(), and the *)
(* connections they share, cached by database.                              *)
(*                                                                          *)
(* Time is counted in units; a year has YearLength of them.  A generator    *)
(* runs when its consumer asks for a row, so that several of them, the      *)
(* coverage check, close(), failures and the ingestion of new rows          *)
(* interleave.  A query's rows are in the client once it was executed       *)
(* (psycopg2's unnamed cursors).  Open interest, funding rates and order    *)
(* books differ from each other in the fields of a row only: they are the   *)
(* kind "other".  The tables of both kinds hold rows of the same times.     *)
(***************************************************************************)
EXTENDS Integers, SequencesExt, FiniteSetsExt

CONSTANTS
  YearLength, NumYears,
  Interval,        \* _interval_ms()
  Sharded,         \* does config.database contain "{year}"?
  Generators,      \* bound: one call of get_*() for each
  Windows,         \* [start, end] that may be asked for
  Arrivals,        \* bound: the times a row may be of
  MaxConnections,  \* bound: connections made
  DatabasesFail    \* may connecting or a query fail?

Times == 0..(YearLength * NumYears - 1)
Years == 0..(NumYears - 1)
Kinds == {"klines", "other"}
Queries == [kind : Kinds, window : Windows]
Connections == 1..MaxConnections
None == 0

ASSUME BacktestBounds ==
  /\ YearLength \in Nat \ {0} /\ NumYears \in Nat \ {0} /\ Interval \in Nat \ {0}
  /\ MaxConnections \in Nat
  /\ Sharded \in BOOLEAN /\ DatabasesFail \in BOOLEAN
ASSUME WindowAssumption ==
  /\ Windows # {} /\ Arrivals \subseteq Times
  /\ \A w \in Windows : w.start \in Times /\ w.end \in 0..(YearLength * NumYears)

Year(t) == t \div YearLength
\* TimescaleConfig.database_for_year(): a name without {year} is every year's.
DatabaseForYear(y) == IF Sharded THEN y ELSE 0
Databases == {DatabaseForYear(y) : y \in Years}

VARIABLES
  rows,      \* external: the times a database has a row for
  conns,     \* _conns: the connection cached for a database
  health,    \* of each connection; "aborted" and "broken" are not .closed
  made,      \* connections made
  \* each generator: where it is, what it was called for, the years it has
  \* not come to, the connection of its cursor, the rows it has not yielded
  \* of this year, those it has yielded
  phase, want, todo, cursor, left, got,
  \* has_kline_coverage(): where it is, its window, years to come, answer
  cphase, cwindow, ctodo, verdict,
  \* history: rows to be had when a generator was called; has no row come
  \* since the coverage check was called
  there, still

network == <<conns, health, made>>
reading == <<phase, want, todo, cursor, left, got, there>>
checking == <<cphase, cwindow, ctodo, verdict, still>>
vars == <<rows, network, reading, checking>>

TypeOK ==
  /\ rows \in [Databases -> SUBSET Times]
  /\ conns \in [Databases -> Connections \cup {None}]
  /\ health \in [Connections -> {"unborn", "open", "aborted", "broken", "closed"}]
  /\ made \in 0..MaxConnections
  /\ phase \in [Generators -> {"idle", "between", "reading", "done", "failed", "dropped"}]
  /\ want \in [Generators -> Queries]
  /\ todo \in [Generators -> SUBSET Years]
  /\ cursor \in [Generators -> Connections \cup {None}]
  /\ left \in [Generators -> SUBSET Times]
  /\ got \in [Generators -> Seq(Times)]
  /\ cphase \in {"idle", "years"} /\ cwindow \in Windows
  /\ ctodo \subseteq Years
  /\ verdict \in {"none", "yes", "no", "raised"}
  /\ there \in [Generators -> SUBSET Times] /\ still \in BOOLEAN

\* A yearly database has the rows of its year.
Holds(d, t) == Sharded => Year(t) = d

Init ==
  /\ rows \in {r \in [Databases -> SUBSET Arrivals] : \A d \in Databases : \A t \in r[d] : Holds(d, t)}
  /\ conns = [d \in Databases |-> None]
  /\ health = [c \in Connections |-> "unborn"] /\ made = 0
  /\ phase = [g \in Generators |-> "idle"]
  /\ want = [g \in Generators |-> CHOOSE q \in Queries : TRUE]
  /\ todo = [g \in Generators |-> {}] /\ left = [g \in Generators |-> {}]
  /\ cursor = [g \in Generators |-> None] /\ got = [g \in Generators |-> <<>>]
  /\ cphase = "idle" /\ cwindow = CHOOSE w \in Windows : TRUE
  /\ ctodo = {} /\ verdict = "none"
  /\ there = [g \in Generators |-> {}] /\ still = FALSE

-----------------------------------------------------------------------------
(* Connections.                                                             *)

\* Mutant: the cache not consulted.
NeverReusable(d) == FALSE
Reusable(d) == conns[d] # None /\ health[conns[d]] # "closed"
Connection(d) == IF Reusable(d) THEN conns[d] ELSE made + 1

\* _get_connection(d) gives a connection, whose health becomes h.
Connected(d, h) ==
  /\ Reusable(d) \/ made < MaxConnections
  /\ conns' = [conns EXCEPT ![d] = Connection(d)]
  /\ made' = IF Reusable(d) THEN made ELSE made + 1
  /\ health' = [health EXCEPT ![Connection(d)] = h]

\* psycopg2.connect() raises: nothing is cached.
ConnectRaises(d) == ~Reusable(d) /\ DatabasesFail /\ UNCHANGED network

\* A query answers only outside a failed transaction, which nothing but
\* close() ends; an error of the server aborts the transaction, and one of the
\* network closes the connection.
Executed(d) == (Reusable(d) => health[conns[d]] = "open") /\ Connected(d, "open")
ExecuteRaises(d) ==
  \/ Reusable(d) /\ health[conns[d]] = "aborted" /\ UNCHANGED network
  \/ Reusable(d) /\ health[conns[d]] = "broken" /\ Connected(d, "closed")
  \/ (Reusable(d) => health[conns[d]] = "open") /\ DatabasesFail /\ Connected(d, "aborted")

Close ==
  /\ conns' = [d \in Databases |-> None]
  /\ health' = [c \in Connections |-> IF \E d \in Databases : conns[d] = c THEN "closed" ELSE health[c]]
  /\ UNCHANGED <<rows, made, reading, checking>>

ServerDrops(c) ==
  /\ DatabasesFail
  /\ health[c] \in {"open", "aborted"}
  /\ health' = [health EXCEPT ![c] = "broken"]
  /\ UNCHANGED <<rows, conns, made, reading, checking>>

Ingest(d, t) ==
  /\ Holds(d, t) /\ t \notin rows[d]
  /\ rows' = [rows EXCEPT ![d] = @ \cup {t}]
  /\ still' = FALSE
  /\ UNCHANGED <<network, reading, cphase, cwindow, ctodo, verdict>>

-----------------------------------------------------------------------------
(* get_klines(), get_open_interest(), get_funding_rates(), get_orderbook(). *)

\* Mutant: the year of the end is taken in, though the end is exclusive.
EndIncluded(w) == IF w.end <= w.start THEN {} ELSE Year(w.start)..Year(w.end)
YearsInRange(w) == IF w.end <= w.start THEN {} ELSE Year(w.start)..Year(w.end - 1)

\* The WHERE clause: klines end before the window's end, the others at it.
Selects(q, t) ==
  q.window.start <= t /\ (IF q.kind = "klines" THEN t < q.window.end ELSE t <= q.window.end)
Selected(q, d) == {t \in rows[d] : Selects(q, t)}
Within(w, t) == w.start <= t /\ t < w.end
RowsWithin(w) == {t \in UNION {rows[d] : d \in Databases} : Within(w, t)}

\* The call makes a generator; nothing of its body has run.
Call(g, q) ==
  /\ phase[g] = "idle"
  /\ phase' = [phase EXCEPT ![g] = "between"]
  /\ want' = [want EXCEPT ![g] = q]
  /\ todo' = [todo EXCEPT ![g] = YearsInRange(q.window)]
  /\ there' = [there EXCEPT ![g] = {t \in UNION {rows[d] : d \in Databases} : Selects(q, t)}]
  /\ UNCHANGED <<rows, network, cursor, left, got, checking>>

NextDatabase(g) == DatabaseForYear(Min(todo[g]))
Stops(g, p) == phase' = [phase EXCEPT ![g] = p]

Query(g) ==
  LET d == NextDatabase(g) IN
  /\ phase[g] = "between" /\ todo[g] # {}
  /\ Executed(d)
  /\ Stops(g, "reading")
  /\ cursor' = [cursor EXCEPT ![g] = Connection(d)]
  /\ left' = [left EXCEPT ![g] = Selected(want[g], d)]
  /\ todo' = [todo EXCEPT ![g] = @ \ {Min(@)}]
  /\ UNCHANGED <<rows, want, got, there, checking>>

QueryRaises(g) ==
  /\ phase[g] = "between" /\ todo[g] # {}
  /\ ConnectRaises(NextDatabase(g)) \/ ExecuteRaises(NextDatabase(g))
  /\ Stops(g, "failed")
  /\ UNCHANGED <<rows, want, todo, cursor, left, got, there, checking>>

\* Mutant: ORDER BY ... DESC.
LatestFirst(ts) == Max(ts)
EarliestFirst(ts) == Min(ts)
Yield(g) ==
  LET t == EarliestFirst(left[g]) IN
  /\ phase[g] = "reading" /\ left[g] # {}
  /\ health[cursor[g]] # "closed"
  /\ left' = [left EXCEPT ![g] = @ \ {t}]
  /\ got' = [got EXCEPT ![g] = Append(@, t)]
  /\ UNCHANGED <<rows, network, phase, want, todo, cursor, there, checking>>

\* The cursor's connection was closed while the generator was suspended.
\* Mutant: the generator ends as if it were through.
EndsSilently == "done"
FetchFails == "failed"
FetchRaises(g) ==
  /\ phase[g] = "reading"
  /\ health[cursor[g]] = "closed"
  /\ Stops(g, FetchFails)
  /\ cursor' = [cursor EXCEPT ![g] = None] /\ left' = [left EXCEPT ![g] = {}]
  /\ UNCHANGED <<rows, network, want, todo, got, there, checking>>

\* The cursor is exhausted and closed.
YearDone(g) ==
  /\ phase[g] = "reading" /\ left[g] = {}
  /\ health[cursor[g]] # "closed"
  /\ Stops(g, "between")
  /\ cursor' = [cursor EXCEPT ![g] = None]
  /\ UNCHANGED <<rows, network, want, todo, left, got, there, checking>>

Exhausted(g) ==
  /\ phase[g] = "between" /\ todo[g] = {}
  /\ Stops(g, "done")
  /\ UNCHANGED <<rows, network, want, todo, cursor, left, got, there, checking>>

\* The consumer gives the generator up, before its first row or later: the
\* finally clause closes the cursor.
Drop(g) ==
  /\ phase[g] \in {"between", "reading"}
  /\ Stops(g, "dropped")
  /\ cursor' = [cursor EXCEPT ![g] = None] /\ left' = [left EXCEPT ![g] = {}]
  /\ UNCHANGED <<rows, network, want, todo, got, there, checking>>

-----------------------------------------------------------------------------
(* has_kline_coverage().                                                    *)

Aligned(w) == w.start < w.end /\ w.start % Interval = 0 /\ w.end % Interval = 0

CoverageCall(w) ==
  /\ cphase = "idle"
  /\ cwindow' = w /\ still' = TRUE
  /\ IF Aligned(w)
     THEN cphase' = "years" /\ ctodo' = YearsInRange(w) /\ verdict' = "none"
     ELSE UNCHANGED <<cphase, ctodo>> /\ verdict' = "no"
  /\ UNCHANGED <<rows, network, reading>>

CoverageAnswers(v) ==
  /\ cphase' = "idle" /\ ctodo' = {} /\ verdict' = v
  /\ UNCHANGED <<rows, reading, cwindow, still>>

\* Mutant: the window not cut at the year's ends.
UncutSegment(y) == cwindow
Segment(y) ==
  [start |-> Max({cwindow.start, y * YearLength}), end |-> Min({cwindow.end, (y + 1) * YearLength})]

\* Mutant: the rows compared, not counted.
StartsRight(s, found) ==
  \A t \in found : t = s.start + Cardinality({u \in found : u < t}) * Interval
\* The check of one year: as many rows as the segment has intervals, and the
\* one at each index where it belongs.
Continuous(s, found) ==
  /\ Cardinality(found) = (s.end - s.start) \div Interval
  /\ StartsRight(s, found)

\* One year is looked at; a segment that no number of intervals fills is
\* answered without a query.
CoverageYear ==
  /\ cphase = "years" /\ ctodo # {}
  /\ LET y == Min(ctodo)
         d == DatabaseForYear(y)
         s == Segment(y)
         found == {t \in rows[d] : Within(s, t)}
     IN  \/ /\ (s.end - s.start) % Interval # 0
            /\ Connected(d, IF Reusable(d) THEN health[conns[d]] ELSE "open")
            /\ CoverageAnswers("no")
         \/ /\ (s.end - s.start) % Interval = 0
            /\ Executed(d)
            /\ IF Continuous(s, found)
               THEN /\ ctodo' = ctodo \ {y}
                    /\ UNCHANGED <<rows, reading, cphase, cwindow, verdict, still>>
               ELSE CoverageAnswers("no")

CoverageYes ==
  /\ cphase = "years" /\ ctodo = {}
  /\ CoverageAnswers("yes")
  /\ UNCHANGED network

CoverageRaises ==
  /\ cphase = "years" /\ ctodo # {}
  /\ LET d == DatabaseForYear(Min(ctodo))
     IN  \/ ConnectRaises(d)
         \/ (LET s == Segment(Min(ctodo)) IN (s.end - s.start) % Interval = 0) /\ ExecuteRaises(d)
  /\ CoverageAnswers("raised")

Next ==
  \/ \E g \in Generators :
       \/ \E q \in Queries : Call(g, q)
       \/ Query(g) \/ QueryRaises(g) \/ Yield(g) \/ FetchRaises(g) \/ YearDone(g)
       \/ Exhausted(g) \/ Drop(g)
  \/ \E w \in Windows : CoverageCall(w)
  \/ CoverageYear \/ CoverageYes \/ CoverageRaises
  \/ Close
  \/ \E c \in Connections : ServerDrops(c)
  \/ \E d \in Databases, t \in Arrivals : Ingest(d, t)

Spec == Init /\ [][Next]_vars

-----------------------------------------------------------------------------
(* Properties.                                                              *)

\* backtest.py:4, "provides generator-based iteration over historical market
\* data": a generator yields the rows of its window in the order of their
\* times and none twice, over the years and whatever comes in between.
YieldedInOrder ==
  \A g \in Generators :
    /\ \A i, j \in DOMAIN got[g] : i < j => got[g][i] < got[g][j]
    /\ \A i \in DOMAIN got[g] :
         \/ Within(want[g].window, got[g][i])
         \/ want[g].kind = "other" /\ got[g][i] = want[g].window.end

\* A generator that comes to its end has yielded every row that its WHERE clause
\* selects and that was there when it was called: the cut into years loses none,
\* and one that was closed under its consumer does not end as if complete.  The
\* exception is what the code leaves out: the clauses of the kinds "other"
\* include the end of the window (backtest.py:272, 316, 367), but the years are
\* those of an end that is excluded (line 96), so that the database of a year
\* whose first moment is the end is never asked, and none is for one moment.
NeverAsked(w, t) == t = w.end /\ (t % YearLength = 0 \/ t = w.start)
CompleteWhenDone ==
  \A g \in Generators : phase[g] = "done" =>
    \A t \in there[g] : t \in ToSet(got[g]) \/ NeverAsked(want[g].window, t)

Grid(w) == {t \in Times : Within(w, t) /\ t % Interval = 0}

\* has_kline_coverage() said yes: every bar of the window is there and stays
\* readable, though rows come in while it looks at one year after the other.
\* When no row came in since, the answer is yes exactly when the window is
\* aligned, its rows are the bars of the window, one for each, and no bar goes
\* over the end of a year.
CoverageIsExact ==
  /\ verdict = "yes" => Grid(cwindow) \subseteq RowsWithin(cwindow)
  /\ verdict \in {"yes", "no"} /\ still =>
       (verdict = "yes" <=>
          /\ Aligned(cwindow)
          /\ RowsWithin(cwindow) = Grid(cwindow)
          /\ \A y \in Years : Within(cwindow, y * YearLength) => (y * YearLength) % Interval = 0)

\* Every connection that is not closed is in the cache, where close() finds
\* it: none is overwritten or forgotten, whatever fails.
OpenIsCached ==
  \A c \in Connections :
    health[c] \in {"open", "aborted", "broken"} => \E d \in Databases : conns[d] = c
=============================================================================
