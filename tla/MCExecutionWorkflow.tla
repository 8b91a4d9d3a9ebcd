------------------------ MODULE MCExecutionWorkflow ------------------------
(* Two top-level tasks on node "local".  p has a wait clause and three    *)
(* accesses: two whose data is on nodes n1 and n2 (two fetch groups) and  *)
(* one already local (a cluster copy that needs no transfer); its body    *)
(* creates child c, whose only access is a reduction (a null copy).  q    *)
(* has no wait clause and no access (its execution step is a root step);  *)
(* its body creates child d, with no access either, so q is released      *)
(* while d may still be alive and is disposed of by d's disposal.          *)
EXTENDS ExecutionWorkflow

CONSTANTS p, c, q, d, a1, a2, a3, a4, local, n1, n2, dir, w1, w2

MCTasks == {p, c, q, d}
MCParent == (p :> None) @@ (c :> p) @@ (q :> None) @@ (d :> q)
MCAccessesOf == [t \in MCTasks |-> CASE t = p -> <<a1, a2, a3>>
                                     [] t = c -> <<a4>>
                                     [] t \in {q, d} -> <<>>]
MCAccessType == (a1 :> "readwrite") @@ (a2 :> "read") @@ (a3 :> "write")
                  @@ (a4 :> "reduction")
MCLocation == (a1 :> n1) @@ (a2 :> n2) @@ (a3 :> local) @@ (a4 :> n1)
MCTarget == [t \in MCTasks |-> local]
MCPlaces == {local, n1, n2, dir}
MCPlaceType == [x \in MCPlaces |-> IF x = dir THEN "host" ELSE "cluster"]
MCWorkers == {w1, w2}
MCWaitClause == {p}
=============================================================================
