--------------------------- MODULE MCLeafScheduler ---------------------------
(* Model-checking instance of LeafScheduler: three tasks, one remote adder  *)
(* thread, one busy-polling iteration, thresholds 0 (the constructor's     *)
(* value), 1 and 2.                                                        *)
EXTENDS LeafScheduler

CONSTANTS t1, t2, t3, w, a1

MCTasks == {t1, t2, t3}
MCAdders == {a1}
=============================================================================
