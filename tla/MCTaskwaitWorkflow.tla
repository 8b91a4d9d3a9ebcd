------------------------ MODULE MCTaskwaitWorkflow ------------------------
(* Four taskwait fragments on node "local", two workers.  f1's data is on  *)
(* node n1 (a fetched cluster copy, completed by the polling thread); f2   *)
(* is in the directory (a cluster copy that moves no data); f3 is a        *)
(* reduction (a plain step, so the release runs inline in start()); f4 has *)
(* no output location (released at once).                                  *)
EXTENDS TaskwaitWorkflow, TLC

CONSTANTS f1, f2, f3, f4, local, n1, dir, w1, w2

MCFragments == {f1, f2, f3, f4}
MCFragType == (f1 :> "readwrite") @@ (f2 :> "write") @@ (f3 :> "reduction")
                @@ (f4 :> "read")
MCFragLocation == (f1 :> n1) @@ (f2 :> dir) @@ (f3 :> n1) @@ (f4 :> local)
MCOutputLocation == [f \in MCFragments |-> IF f = f4 THEN NullPlace ELSE local]
MCPlaces == {local, n1, dir}
MCPlaceType == [x \in MCPlaces |-> IF x = dir THEN "host" ELSE "cluster"]
MCWorkers == {w1, w2}
=============================================================================
