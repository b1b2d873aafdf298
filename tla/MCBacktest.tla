----------------------------- MODULE MCBacktest -----------------------------
(* An instance of Backtest for TLC: three years of five units, bars of two, so *)
(* that a bar goes over the end of the first year and none over that of the    *)
(* second; rows on the bars and off them, on both sides of that end; windows   *)
(* of bars over each end, and one that is not of bars and ends with the years. *)
EXTENDS Backtest
CONSTANT g1

Window(s, e) == [start |-> s, end |-> e]
ManyWindows == {Window(8, 12), Window(4, 10), Window(9, 15)}
=============================================================================
