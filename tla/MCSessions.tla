----------------------------- MODULE MCSessions -----------------------------
(* An instance of Sessions for TLC: two threads of a pool, which are alike. *)
EXTENDS Sessions, TLC
CONSTANTS t1, t2, a, spinner

Alike == Permutations(Threads)
=============================================================================
