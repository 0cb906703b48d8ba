----------------------------- MODULE MCParallelFor -----------------------------
(* parallel_for with up to three threads and up to five indices. *)
EXTENDS ParallelFor

MCCounts == {0, 1, 2, 3, 5}
MCRequests == 0 .. 3
================================================================================
