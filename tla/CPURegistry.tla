---------------------------- MODULE CPURegistry ----------------------------
(***************************************************************************)
(* The start-up of the CPU registries: CPUManager::preinitialize and       *)
(* initialize (CPUManager.cpp) and ThreadManager::preinitialize and        *)
(* initialize (ThreadManager.cpp).  Both read the process affinity mask    *)
(* and walk the compute nodes that hardware discovery reports; each node   *)
(* has its index in that list and its system CPU id.                       *)
(*                                                                         *)
(* This code runs once, sequentially, before any worker exists, so it is   *)
(* stated as operators over the hardware layout and the mask: what each    *)
(* function leaves in the registry.  ThreadManager.tla is instantiated    *)
(* with the thread count initialize() starts and the _totalThreads that    *)
(* preinitialize() computed (MCThreadManager*.tla).                        *)
(***************************************************************************)
EXTENDS Naturals, FiniteSets

CONSTANTS
  SysId,   \* SysId[i]: _systemCPUId of compute node i (i = 0..n-1)
  Mask     \* the system CPU ids of the process affinity mask

Nodes == DOMAIN SysId

ASSUME /\ \E n \in Nat : Nodes = 0..(n - 1)
       /\ \A i, j \in Nodes : i # j => SysId[i] # SysId[j]
       \* sched_getaffinity reports online CPUs, each a compute node
       /\ Mask \subseteq {SysId[i] : i \in Nodes}

(* CPU_ISSET(x, &mask).                                                    *)
IsSet(x) == x \in Mask

-----------------------------------------------------------------------------
(* CPUManager::preinitialize: _cpus[i] is the node when its system id is  *)
(* in the mask, and _totalCPUs counts them.                                *)
Registered == {i \in Nodes : IsSet(SysId[i])}

TotalCPUs == Cardinality(Registered)

(* CPUManager::initialize: ThreadManager::initializeThread for every       *)
(* registered CPU.                                                         *)
CPUManagerStarted == Registered

-----------------------------------------------------------------------------
(* ThreadManager::getCPU(systemCPUId): the CPU with that system id.        *)
GetCPU(id) == CHOOSE i \in Nodes : SysId[i] = id

(* ThreadManager::preinitialize: _totalCPUs and _totalThreads count the    *)
(* nodes whose index i is set in the mask (CPU_ISSET(i, ...)).             *)
TotalThreads == Cardinality({i \in Nodes : IsSet(i)})

(* ThreadManager::initialize: one WorkerThread for each system id of the   *)
(* mask, on getCPU(systemCPUId).                                           *)
ThreadManagerStarted == {GetCPU(id) : id \in Mask}
=============================================================================
