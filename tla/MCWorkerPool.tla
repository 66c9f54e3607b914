---------------------------- MODULE MCWorkerPool ----------------------------
(***************************************************************************)
(* Two threads that run tasks of two keys over one resident worker or two: *)
(* waiting at capacity, reuse, eviction of a free worker with another key  *)
(* and retirement after the second task all happen, and two runs fight for *)
(* one lease.                                                              *)
(***************************************************************************)
EXTENDS WorkerPool

CONSTANTS t1, t2, w1, w2, w3

MCKeysOf == [t \in Threads |-> IF t = t1 THEN {"A"} ELSE {"A", "B"}]
=============================================================================
