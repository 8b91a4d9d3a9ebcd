--------------------------- MODULE MCThreadManager ---------------------------
(* Model-checking instance of ThreadManager.  The machine has four compute  *)
(* nodes with system ids 0..3 and the process is bound to CPUs 0, 2 and 3;   *)
(* the thread count and _totalThreads come from the start-up code.          *)
EXTENDS ThreadManager

MCSysId == [i \in 0..3 |-> i]
MCMask == {0, 2, 3}

Reg == INSTANCE CPURegistry WITH SysId <- MCSysId, Mask <- MCMask

MCNCPUs == Cardinality(Reg!ThreadManagerStarted)
MCTotalThreads == Reg!TotalThreads
=============================================================================
