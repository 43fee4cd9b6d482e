----------------------------- MODULE MCHandles -----------------------------
(* Names for the run of Handles: a table, and a log written directly.       *)
EXTENDS Handles, TLC

CONSTANTS t1, t2, table, log

ThreadSymmetry == Permutations(Thread)
=============================================================================
