---------------------------- MODULE MCLogPipeline ----------------------------
(* Instances of LogPipeline for TLC: named threads, alike to one another, and *)
(* a first logger that has no file for what is logged second.                 *)
EXTENDS LogPipeline
CONSTANTS w1, w2, c1, c2

SecondCalls == {1} \X (Writers \X (2..MaxCalls))

Alike == Permutations(Writers) \cup Permutations(Controllers)
=============================================================================
