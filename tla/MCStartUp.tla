------------------------------ MODULE MCStartUp ------------------------------
(* Four hardware layouts: the identity with the full mask, ids 0..3 with   *)
(* CPU 1 outside the mask, ids that skip 2 (0, 1, 3) with the full mask,   *)
(* and ids 0..2 with CPU 0 outside the mask.                               *)
EXTENDS StartUp

MCLayouts ==
  { [sysId |-> [i \in 0..2 |-> i],                       mask |-> {0, 1, 2}],
    [sysId |-> [i \in 0..3 |-> i],                       mask |-> {0, 2, 3}],
    [sysId |-> [i \in 0..2 |-> IF i = 2 THEN 3 ELSE i],  mask |-> {0, 1, 3}],
    [sysId |-> [i \in 0..2 |-> i],                       mask |-> {1, 2}] }

MCBuildDevices == {{}, {"cuda"}, {"cuda", "openacc"}, {"opencl"}}
MCBackendSets == {{}, {"papi"}, {"pqos"}, {"papi", "pqos"}}
=============================================================================
