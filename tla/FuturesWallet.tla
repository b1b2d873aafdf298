--------------------------- MODULE FuturesWallet ---------------------------
(***************************************************************************)
(* The position arithmetic of FuturesWallet.fill_order                      *)
(* (hushine_strategy/wallet/futures.py): what one fill makes of a position. *)
(* Quantities and prices are integers, so sums are exact (the code uses     *)
(* floats); an entry price is a fraction <<numerator, denominator>> in      *)
(* lowest terms.                                                            *)
(***************************************************************************)
EXTENDS Integers, FiniteSetsExt

Magnitude(n) == IF n < 0 THEN -n ELSE n
Zero == <<0, 1>>
Fraction(n, d) ==
  LET g == Max({f \in 1..d : d % f = 0 /\ n % f = 0}) IN <<n \div g, d \div g>>
AtMost(x, y) == x[1] * y[2] <= y[1] * x[2]
Equal(x, y) == x[1] * y[2] = y[1] * x[2]

Flat == [qty |-> 0, entry |-> Zero]

Sides == {"BUY", "SELL"}
SignedQty(side, qty) == IF side = "SELL" THEN -qty ELSE qty

\* Mutant: the signs of a short position kept.
SignedEntry(p, signed, price) ==
  Fraction(p.qty * p.entry[1] + signed * price * p.entry[2],
           p.entry[2] * (Magnitude(p.qty) + Magnitude(signed)))
\* The average of the position and the fill, each weighted by its size.
AverageEntry(p, signed, price) ==
  Fraction(Magnitude(p.qty) * p.entry[1] + Magnitude(signed) * price * p.entry[2],
           p.entry[2] * (Magnitude(p.qty) + Magnitude(signed)))

\* Mutant: a fill that flips the position keeps its entry price.
FlipKeepsEntry(p, signed, price) ==
  CASE p.qty = 0 \/ (p.qty > 0) = (signed > 0) -> AverageEntry(p, signed, price)
    [] OTHER -> IF p.qty + signed = 0 THEN Zero ELSE p.entry
EntryAfter(p, signed, price) ==
  CASE p.qty = 0 \/ (p.qty > 0) = (signed > 0) -> AverageEntry(p, signed, price)
    [] OTHER ->
         IF p.qty + signed = 0 THEN Zero
         ELSE IF (p.qty > 0) # (p.qty + signed > 0) THEN <<price, 1>>
         ELSE p.entry

\* Mutant: a reducing fill may not cross zero.
ClampedQty(p, signed) ==
  IF p.qty > 0 /\ p.qty + signed < 0 THEN 0 ELSE p.qty + signed
QtyAfter(p, signed) == p.qty + signed

PositionAfter(p, signed, price) ==
  [qty |-> QtyAfter(p, signed), entry |-> EntryAfter(p, signed, price)]
=============================================================================
