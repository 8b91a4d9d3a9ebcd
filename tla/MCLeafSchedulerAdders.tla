------------------------ MODULE MCLeafSchedulerAdders ------------------------
(* Two remote adder threads racing on the polling slot, each other, the  *)
(* worker, the parent and one disable of the CPU: three tasks, thresholds *)
(* 0 and 1, one polling iteration.  Adders and tasks are interchangeable  *)
(* model values, so the safety-only run uses them as symmetry sets.       *)
EXTENDS LeafScheduler, TLC

CONSTANTS t1, t2, t3, w, a1, a2

MCTasks == {t1, t2, t3}
MCAdders == {a1, a2}
MCSymmetry == Permutations(MCTasks) \cup Permutations(MCAdders)
=============================================================================
