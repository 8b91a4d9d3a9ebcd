------------------------------ MODULE StartUp ------------------------------
(***************************************************************************)
(* Runtime start-up and teardown across the components that read each     *)
(* other's results: CPUManager::preinitialize counts the CPUs of the       *)
(* affinity mask, HardwareCounters rejects incompatible backends, the      *)
(* SchedulerInterface constructor (SchedulerInterface.cpp) reads the        *)
(* scheduling policy and builds the host scheduler with one leaf per CPU   *)
(* counted and a scheduler per enabled device, ThreadManager::initialize   *)
(* starts one worker per CPU of the mask, and the destructor frees the     *)
(* schedulers.                                                             *)
(*                                                                         *)
(* The configuration (hardware layout, environment, build flags) is       *)
(* chosen in Init and fixed for the run.  The order of the phases is the   *)
(* bootstrap order of the design document (preinitialize, then           *)
(* initialize, then shutdown); the bootstrap code is not in the tree.      *)
(***************************************************************************)
EXTENDS Naturals, FiniteSets

CONSTANTS
  Layouts,       \* hardware layouts [sysId |-> SysId, mask |-> Mask]
  PolicyValues,  \* values NANOS6_SCHEDULING_POLICY may have
  BuildDevices,  \* device sets a build may enable (USE_CUDA, USE_OPENACC,
                 \*   NANOS6_OPENCL, USE_FPGA)
  BackendSets    \* hardware-counter backend sets a configuration may enable

\* Device schedulers the constructor creates; OpenCL and FPGA abort.
CreatedDevices == {"cuda", "openacc"}
UnsupportedDevices == {"opencl", "fpga"}

ASSUME /\ \A b \in BuildDevices : b \subseteq CreatedDevices \cup UnsupportedDevices
       /\ \A s \in BackendSets : s \subseteq {"papi", "pqos"}

Reg(l) == INSTANCE CPURegistry WITH SysId <- l.sysId, Mask <- l.mask

VARIABLES
  phase,       \* "pre", "cpus", "counters", "scheduler", "running", "down"
               \*   or "aborted" (FatalErrorHandler)
  layout,      \* the hardware layout of this run
  policyEnv,   \* the value of NANOS6_SCHEDULING_POLICY
  build,       \* the devices this build enables
  backends,    \* the hardware-counter backends enabled
  totalCPUs,   \* CPUManager::_totalCPUs
  policy,      \* the policy the host scheduler was created with
  hostLeaves,  \* computePlaceCount given to createHostScheduler
  hostSched,   \* _hostScheduler: "null", "live" or "deleted"
  devSched,    \* _deviceSchedulers per created device kind
  threads      \* CPUs ThreadManager::initialize started a worker on

vars == <<phase, layout, policyEnv, build, backends, totalCPUs, policy,
          hostLeaves, hostSched, devSched, threads>>

-----------------------------------------------------------------------------
(* HardwareCounters::checkIncompatibleBackends: PAPI together with PQoS.   *)
IncompatibleBackends(s) == {"papi", "pqos"} \subseteq s

(* The policy the constructor picks: LIFO for "LIFO" or "lifo", FIFO for   *)
(* every other value.                                                      *)
SchedulingPolicy(v) == IF v \in {"LIFO", "lifo"} THEN "lifo" ELSE "fifo"

(* CPUManager::preinitialize.                                              *)
CPUManagerPreinitialize ==
  /\ phase = "pre"
  /\ totalCPUs' = Reg(layout)!TotalCPUs
  /\ phase' = "cpus"
  /\ UNCHANGED <<layout, policyEnv, build, backends, policy, hostLeaves,
                 hostSched, devSched, threads>>

(* HardwareCounters::initialize, which fails on incompatible backends.     *)
HardwareCountersInitialize ==
  /\ phase = "cpus"
  /\ phase' = IF IncompatibleBackends(backends) THEN "aborted" ELSE "counters"
  /\ UNCHANGED <<layout, policyEnv, build, backends, totalCPUs, policy,
                 hostLeaves, hostSched, devSched, threads>>

(* Mutant: the failIf for an OpenCL or FPGA build is missing.            *)
ConstructSchedulerNoFailIf ==
  /\ phase = "counters"
  /\ policy' = SchedulingPolicy(policyEnv)
  /\ hostLeaves' = totalCPUs
  /\ hostSched' = "live"
  /\ devSched' = [d \in CreatedDevices |-> IF d \in build THEN "live" ELSE "null"]
  /\ phase' = "scheduler"
  /\ UNCHANGED <<layout, policyEnv, build, backends, totalCPUs, threads>>

(* The SchedulerInterface constructor: the policy, the host scheduler with *)
(* getTotalCPUs() compute places, a scheduler per enabled CUDA or OpenACC  *)
(* device, then failIf for an OpenCL or FPGA build.                        *)
ConstructScheduler ==
  /\ phase = "counters"
  /\ policy' = SchedulingPolicy(policyEnv)
  /\ hostLeaves' = totalCPUs
  /\ hostSched' = "live"
  /\ devSched' = [d \in CreatedDevices |-> IF d \in build THEN "live" ELSE "null"]
  /\ phase' = IF build \cap UnsupportedDevices # {} THEN "aborted" ELSE "scheduler"
  /\ UNCHANGED <<layout, policyEnv, build, backends, totalCPUs, threads>>

(* ThreadManager::initialize: a worker on getCPU(id) for each id of the   *)
(* mask.                                                                   *)
ThreadManagerInitialize ==
  /\ phase = "scheduler"
  /\ threads' = Reg(layout)!ThreadManagerStarted
  /\ phase' = "running"
  /\ UNCHANGED <<layout, policyEnv, build, backends, totalCPUs, policy,
                 hostLeaves, hostSched, devSched>>

(* The SchedulerInterface destructor: delete the host scheduler and the    *)
(* device schedulers the build created.                                    *)
DestroyScheduler ==
  /\ phase = "running"
  /\ hostSched' = "deleted"
  /\ devSched' = [d \in CreatedDevices |-> IF d \in build THEN "deleted" ELSE devSched[d]]
  /\ phase' = "down"
  /\ UNCHANGED <<layout, policyEnv, build, backends, totalCPUs, policy,
                 hostLeaves, threads>>

-----------------------------------------------------------------------------
Init ==
  /\ phase = "pre"
  /\ layout \in Layouts
  /\ policyEnv \in PolicyValues
  /\ build \in BuildDevices
  /\ backends \in BackendSets
  /\ totalCPUs = 0
  /\ policy = "fifo"
  /\ hostLeaves = 0
  /\ hostSched = "null"
  /\ devSched = [d \in CreatedDevices |-> "null"]
  /\ threads = {}

Next ==
  \/ CPUManagerPreinitialize
  \/ HardwareCountersInitialize
  \/ ConstructScheduler
  \/ ThreadManagerInitialize
  \/ DestroyScheduler

(* Start-up is sequential code on the main thread.                         *)
Spec == Init /\ [][Next]_vars /\ WF_vars(Next)

-----------------------------------------------------------------------------
(* Properties                                                              *)

TypeOK ==
  /\ phase \in {"pre", "cpus", "counters", "scheduler", "running", "down", "aborted"}
  /\ totalCPUs \in Nat /\ hostLeaves \in Nat
  /\ policy \in {"fifo", "lifo"}
  /\ hostSched \in {"null", "live", "deleted"}
  /\ devSched \in [CreatedDevices -> {"null", "live", "deleted"}]

(* The values the design document allows for the scheduling policy.        *)
WellFormedPolicy == {"fifo", "lifo", "FIFO", "LIFO"}

(* A configuration the design calls fatal (a malformed policy value,       *)
(* incompatible counter backends, an unsupported device) never gets a      *)
(* running runtime: start-up aborts before the workers start.             *)
FatalConfigurationAborts ==
  phase \in {"running", "down"} =>
    /\ policyEnv \in WellFormedPolicy
    /\ ~IncompatibleBackends(backends)
    /\ build \cap UnsupportedDevices = {}
=============================================================================
