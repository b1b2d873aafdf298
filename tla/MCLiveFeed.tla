----------------------------- MODULE MCLiveFeed -----------------------------
(* Instances of LiveFeed for TLC: which message is of which kind, and which
   callback is registered for which. *)
EXTENDS LiveFeed, TLC
CONSTANTS a, b, kline

AllKlines == [o \in Offsets |-> kline]
SecondUndecodable == [o \in Offsets |-> IF o = 2 THEN Undecodable ELSE kline]
SecondDiscarded == [o \in Offsets |-> IF o = 2 THEN Discarded ELSE kline]

WantKlines == [cb \in Callbacks |-> kline]
=============================================================================
