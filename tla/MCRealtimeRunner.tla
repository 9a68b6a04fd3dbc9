-------------------------- MODULE MCRealtimeRunner --------------------------
(* RealtimeRunner for TLC: the names of its controllers. *)
EXTENDS RealtimeRunner, TLC

CONSTANTS c1, c2

Interchangeable == Permutations({c1, c2})
=============================================================================
