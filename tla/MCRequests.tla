----------------------------- MODULE MCRequests -----------------------------
(* Instances of Requests for TLC: two requests, of which one has no id. *)
EXTENDS Requests

CONSTANTS t1, t2, a
=============================================================================
