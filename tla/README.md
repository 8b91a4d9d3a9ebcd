# TLA+ models of the nanos6-cluster runtime core

This directory holds TLA+ specifications of the concurrent core of the
nanos6-cluster runtime, each checked with TLC: the per-CPU leaf scheduler
(with CPU disable and enable), the CPU registries' start-up and the worker
pool's collective shutdown, the per-task execution workflow with its
finalisation, the taskwait mini-workflow, and start-up across the CPU
registry, hardware counters and scheduler front end. Sources are under `src/src/`. The design document is
`spec.md`.

## 1. Inventory of the system

| Part | Source | State | Operations | Interacts with |
|---|---|---|---|---|
| Leaf scheduler | `scheduling/schedulers/tree-scheduler/LeafScheduler.hpp` | queue, polling slot, `_idle`, `_queueThreshold`, `_rebalance`, `_globalLock` | `addTask` (local and remote), `addTaskBatch`, `getTask`, `handleQueueOverflow`, `updateQueueThreshold`, `disable`, `enable` | its worker thread (getTask), other CPUs (addTask), parent NodeScheduler (overflow batches, getTask), ThreadManager::resumeIdle |
| Node scheduler | not in the tree (design document) | overflow queue, idle-children bitmap | `getTask(child)`, `addTaskBatch` | leaves |
| Scheduler front end | `scheduling/SchedulerInterface.cpp`, `NaiveScheduler.hpp` (declarations) | policy, host and device schedulers | constructor and destructor | CPUManager (leaf count), configuration |
| CPU registry | `executors/threads/CPUManager.cpp`, `ThreadManager::preinitialize`/`initialize` | `_cpus`, `_totalCPUs`, `_totalThreads` | `preinitialize`, `initialize`, `getCPU` | ThreadManager (thread count, shutdown count) |
| Worker pool and shutdown | `executors/threads/ThreadManager.cpp` | `_mustExit`, `_shutdownThreads`, `_mainShutdownControllerThread`, `_idleThreads`, per-CPU controller | `preinitialize`, `initialize`, `threadStartup`, `shutdown`, `threadShutdownSequence` | CPUActivation, getIdleThread, worker threads |
| Execution workflow | `executors/workflow/ExecutionWorkflow.cpp` | per task: workflow, copy steps, execution step counter, execution-step pointer | `createDataCopyStep`, `executeTask` (create, re-enter, wait resume), `WorkflowBase::start`, notification callback, `setupTaskwaitWorkflow` | workers, scheduler (re-queue), transfer poller, dependency registry, TaskFinalization |
| Transfer poller | `cluster/polling-services/DataTransferCompletion.hpp` (declarations) | pending transfers | completion of a copy step | workflow |
| Hardware counters | `hardware-counters/HardwareCounters.hpp`, `performance/PAPI/` | enabled backends, per-thread counter data | `checkIncompatibleBackends` (start-up abort), counter collection | start-up only |
| Instrumentation, copy-object types | `instrument/`, `memory/` | tracing data, intrusive-set hooks | logging | nothing the runtime reads |

Several behaviours are hard to get right here:
- the lock window in the leaf's `addTask` and `addTaskBatch` (the slot and
  idle flag are read under the lock, and the wake-up and queueing happen
  after it is released);
- the idle flag, which `getTask` clears outside the lock;
- the overflow and rebalance arithmetic;
- the shutdown collective: initiator and controllers compete for idle
  threads, threads may still be starting or lag behind, joins happen in
  LIFO order, and the main controller mops up stragglers;
- `disable()` draining the leaf without the lock while remote adders are
  still placing tasks;
- the two registries counting the affinity mask in two different ways;
- the taskwait copy releasing its fragment either inline on the worker or
  later on the polling thread;
- the workflow running a task body inline from inside `start()`'s loop;
- the asynchronous transfer completions on the polling thread;
- the dangling workflow pointer used as the "back from a wait clause"
  sentinel;
- a parent released before its children and disposed by the last child's
  disposal.

## 2. Modules

### LeafScheduler.tla: one leaf, its worker, remote adders and the parent

The module has these constants:
- `Tasks`.
- `Worker`, the leaf's worker thread.
- `Adders`, threads of other CPUs.
- `NoTask`.
- `Policy` (`"fifo"` or `"lifo"`).
- `PollingIterations`.
- `Thresholds`, the values `updateQueueThreshold` may set.

Variables and code fields correspond as follows:
- `slot` is `_pollingSlot`; `queue` is `_queue`.
- `idle`, `threshold` and `rebalance` are the fields of the same names.
- `nodeQueue` and `childIdle` are the parent's overflow queue and its idle
  bit for this leaf.
- `wake` is a pending `resumeIdle`.
- Per thread: `pc`, the task `cur`, the batch being handed over `batch`, and
  the results `success` and `seenIdle` of the locked section.

Each action is one atomic piece of the code:
- `getTask` is split into:
  - `GetTaskEnter` (the unidle, lines 142-145);
  - `GetTaskSlot`;
  - `GetTaskQueue` (the dequeue, the CAS on `_rebalance` and the 1.5x test);
  - `NodeGetTask` (the parent);
  - `GetTaskPoll` (one slot read of the busy-wait);
  - `GetTaskLock` (the locked recheck and idle marking).
- The remote `addTask` is `AddTaskLock` (the locked section) followed by
  `AddTaskAfter` (the wake-up, or the queue fallback and overflow).
- `AddTaskLocal` is the local `addTask`.
- `HandleQueueOverflow`, `AddTaskBatchLock`, `AddTaskBatchWake` and
  `AddTaskBatchQueue` split the overflow and `addTaskBatch` at the lock.
- `UpdateQueueThreshold` is `updateQueueThreshold`.

CPU disable (lines 196-219) adds the constant `MaxDisables` and the
variables `disabling` (a disable request the worker has not served yet) and
`disables` (requests made so far, capped by `MaxDisables`):
- `RequestDisable` is the CPU-activation request; `GetTaskEnter` does not
  start a getTask while one is pending.
- `DisableUnidle` clears `_idle` and tells the parent, only if `_idle` was
  set (lines 196-202).
- `DisableDrain` takes the whole queue as a batch without the lock
  (line 204).
- `DisableSlot` takes the slot task into the batch and hands a non-empty
  batch to the parent through the same `addTaskBatch` actions that overflow
  uses (lines 206-215).
- `EnableCPU` is `enable()`: the worker may call getTask again.

`NodeGetTask`, `NodeAddTaskBatch`, `ResumeWorker`, `FinishTask` and
`RequestDisable` stand for code outside the tree. They are modelled from the design document.

### CPURegistry.tla: what start-up registers

`CPUManager::preinitialize`/`initialize` and
`ThreadManager::preinitialize`/`initialize` run once, sequentially, before
any worker exists. The module states what each leaves behind, as operators
over the constants `SysId` (the system CPU id of each compute node, by its
index in the hardware list) and `Mask` (the ids in the affinity mask):
- `Registered` and `TotalCPUs`: CPUManager tests `CPU_ISSET(_systemCPUId)`.
- `TotalThreads`: ThreadManager counts with `CPU_ISSET(i)` on the index.
- `ThreadManagerStarted`: one thread per system id of the mask, on
  `getCPU(id)`.

The MC modules of ThreadManager instantiate it and pass the number of
threads started as `NCPUs`, and `TotalThreads` as the initial shutdown
count.

### ThreadManager.tla: worker pool and collective shutdown

The module has these constants:
- `NCPUs`, the threads `initialize()` started;
- `TotalThreads`, the `_totalThreads` that `preinitialize()` computed, to
  which `shutdown()` sets `_shutdownThreads`;
- `Accepting`, the CPUs for which `acceptsWork` holds;
- `None`.

Thread `i` is the one `initialize()` created for CPU `i`. Its `state` moves
through `starting`, `idle`/`running`, `resumed`, `control`/`joining` and
`exited`.

The initiator's `shutdown()` is four actions:
- `ShutdownStart`;
- `ShutdownVisitCPU`, one CPU of the loop, with three alternatives: skip a
  CPU that does not accept work, give up when no thread is idle and
  `_shutdownThreads` is 0, or designate a controller;
- `ShutdownEndLoop`;
- `ShutdownJoin`.

`threadShutdownSequence` is three actions:
- `ShutdownSequence`, which enters the controller loop or exits;
- `ControllerStep`, which resumes the next idle thread, or leaves by the
  rule at lines 237-244;
- `ControllerJoin`.

Busy-waits are guarded actions. A state where everyone spins therefore
shows up as a violation of `ShutdownTerminates`.

### ExecutionWorkflow.tla: per-task workflow, transfer poller and finalisation

The constants describe tasks, their parents, the wait clauses, and each
task's accesses with type and location. They also name the memory places
with their device types, the directory, the current node, and the workers.

Per-task variables:
- `wf`: the workflow pointer, `none`, `live` or `deleted`, where `deleted`
  is the dangling pointer;
- `pending`: the execution step's predecessor count;
- `exec`: the execution step;
- `liveChildren` and `removal`: Task's counters;
- `blocked`: markAsFinished returned false;
- `hist`: the lifecycle events.

Per-access variable: `copy`, the state of its copy step.

Per-worker variables:
- `pc`;
- `wt`, its task;
- `idx`, the iterator over `_rootSteps`;
- `back`, where an inline body returns to.

Operators and actions:
- `CopyKind` is `createDataCopyStep`'s decision: the special access types,
  the directory rule, then the `_transfersMap` table.
- `ExecuteTaskCreate` builds the workflow and calls `setWorkflow`.
- `StartRoot`, `StartLoopEnd` and `FetchGroup` are `WorkflowBase::start`.
- `ExecuteTaskStep` and `ExecuteTaskResume` are the two
  re-entries of `executeTask`.
- `NotifyFinish`, `NotifyRelease` and `NotifyDispose` are the notification
  callback. Its finaliser is two steps, as in the code: `TaskFinished`
  (`TaskFinalization::taskFinished`, which may re-queue a waiting parent),
  then `MarkAsReleased` (`markAsReleased` and `disposeTask`). Another
  worker may run between them. The wait-clause re-entry does the same in
  `WaitResume` and `WaitResumeRelease`.
- `TransferComplete` is the polling thread completing a fetched copy.

`RunBody`, `RunInline`, `Disposed`, `RequiresDataFetch` and
`TransferComplete` model step classes, Task and TaskFinalization, which are
not in the tree.

### DataCopy.tla: the copy-step decision

`createDataCopyStep`'s choice, shared by both workflows: `CopyStepKind` (a
plain step for reduction, commutative and concurrent accesses, a cluster
copy for directory data in cluster mode, otherwise `_transfersMap` with a
null source counted as the host), `MarksValidSelfAt` (the
`setValidNamespaceSelf` test) and `NeedsTransfer` (a cluster copy moves
data only from another node; modelled from the design document, since
`ClusterDataCopyStep` is not in the tree). `ExecutionWorkflow` wraps them
per access as `CopyKind`, `MarksValidSelf` and `RequiresDataFetch`.

### TaskwaitWorkflow.tla: the taskwait mini-workflow

`setupTaskwaitWorkflow` for the fragments of one task's taskwait, called on
the workers in `Workers`. Per fragment: `setup`, `wf`, `copy` (`created`,
`grouped`, `fetching`, `done`) and `releases`; per worker `pc` and `fr`;
`exited` is the task leaving the taskwait.
- `SetupTaskwaitWorkflow`: no output location releases the fragment and
  returns; otherwise the workflow, notification step and copy step are
  built and `start()` is entered.
- `StartCopy`: a plain step completes and the notification callback
  (`Notify`: `releaseTaskwaitFragment`, `delete workflow`) runs inline; a
  cluster copy is grouped (`TaskwaitRequiresFetch`: the comment at lines
  166-168 says a taskwait copy never releases its successors itself).
- `FetchCopy` is `fetchVector`; `TransferComplete` runs the callback on
  the polling thread; `ExitTaskwait` (modelled from the design document)
  lets the task go once every fragment is released.

### StartUp.tla: start-up and teardown across components

Start-up is sequential code on the main thread, so this module is a phase
machine. The configuration is chosen in `Init` and then stays fixed: a
hardware layout, the policy string, the build's device set and the
enabled counter backends. Each phase is one function:
- `CPUManagerPreinitialize` counts the CPUs through
  `Reg(layout)!TotalCPUs`, a parameterised instance of `CPURegistry`.
- `HardwareCountersInitialize` aborts on `IncompatibleBackends` (PAPI
  together with PQoS).
- `ConstructScheduler` is the `SchedulerInterface` constructor. It sets
  the policy through `SchedulingPolicy` and sizes the host scheduler from
  `totalCPUs`. It creates the CUDA and OpenACC schedulers, then aborts for
  an OpenCL or FPGA build.
- `ThreadManagerInitialize` starts workers on
  `Reg(layout)!ThreadManagerStarted`.
- `DestroyScheduler` is the destructor.

The order of the phases comes from the design document, because the
bootstrap code is not in the tree.

### TaskLifecycle.tla: what a task's life promises

This is an abstract specification taken from the design document. It has one
variable, `status`, per task: `none`, `ready`, `ran`, `finished`, `released`
or `disposed`. It has three actions:
- `Run` runs the body and submits the task's children.
- `Finish` marks the task finished.
- `Release(t, D)` releases `t` and disposes of a set `D` of tasks in the
  same step, because disposal walks up the parent chain. Each task in `D` is
  released, and all of its children are disposed of.

A task with a wait clause is released only after all of its children have
finished (the design document's wait-clause scenario: the task completes
"after the child finishes"). It does not require the children to be
released: in the code, the last child's `taskFinished` re-queues the parent
before the child's own `markAsReleased`, so another worker can release the
parent first. The model has this interleaving, and the stronger
"children released first" guard fails on it.
`ExecutionWorkflow` instantiates the module with `status <- AbstractStatus`,
which reads the status off the event history. The run checks `TaskLC!Spec`
as the property `ImplementsLifecycle`.

## 3. Runs

| Run | cfg | Expect | What it shows |
|---|---|---|---|
| leaf_safety | MCLeafScheduler.cfg | pass | No task is lost or duplicated (`TaskConservation`), and a slot task is always run (`SlotTaskIsTaken`). This holds over all interleavings of getTask, remote and local addTask, overflow, addTaskBatch and threshold changes. |
| leaf_stranded | MCLeafSchedulerStranded.cfg | violation | `ReadyTaskEventuallyRuns` fails. A remote addTask whose slot attempt fails queues the task with no wake-up while the worker parks. |
| leaf_overflow | MCLeafSchedulerOverflow.cfg | violation | `OverflowLeavesAtMostThreshold` fails. An overflow moves `max(threshold/2, 1)` tasks, and concurrent adds leave more than the threshold. |
| shutdown | MCThreadManager.cfg | pass | Every worker exits and is joined exactly once, and `shutdown()` terminates (`JoinedExactlyOnce`, `ShutdownTerminates`). |
| workflow | MCExecutionWorkflow.cfg | pass | Three checks pass. Lifecycle events are once and in order, and a parent is disposed after its children (`LifecycleOrder`). The body runs after all copies (`BodyAfterCopies`). No worker touches a deleted workflow, and the resume path is entered only after a wait (`NoUseOfDeletedWorkflow`). The liveness property `AllDisposed` also holds. The workflow refines `TaskLifecycle` (`ImplementsLifecycle`). |
| leaf_disable | MCLeafSchedulerAdders.cfg | pass | `TaskConservation` holds with two remote adders racing each other, the worker, the parent and one disable and enable. One adder wins the slot while the other queues, two overflows run at once (the second may find the queue already drained, line 47), and disable drains without the lock; no task is lost or duplicated. |
| leaf_disable_empty | MCLeafSchedulerDisableEmpty.cfg | violation | `DisableLeavesLeafEmpty` fails: a remote addTask that is between its slot attempt and its queue fallback, or starts after the drain, leaves a task on the disabled CPU. |
| startup_policy | MCStartUpPolicy.cfg | violation | `FatalConfigurationAborts` fails for the policy value `"random"`: the constructor silently picks FIFO. |
| taskwait | MCTaskwaitWorkflow.cfg | pass | Each taskwait fragment is released exactly once and only after its copy completed, inline or on the polling thread (`ReleasedOnceAfterCopy`), and the task always leaves its taskwait (`TaskwaitEnds`). |

Every property of a passing run has a mutant in `PROJECT.json`. The mutant is
a plausible bug in the mapped code, and TLC finds it under the run's cfg.

### Findings

1. **Stranded task (code bug), `LeafScheduler.hpp:100`.** The run shows this
   trace:
   - The adder finds the slot full.
   - The worker takes the slot task, runs it, finds the queue empty and asks
     the parent.
   - The adder now queues its task. The queue, at size 1 with threshold 1,
     does not overflow.
   - The worker polls the slot, marks the leaf idle under the lock and
     suspends.

   Nothing resumes the worker. The task stays queued until some later
   addTask to this leaf succeeds on the slot.
2. **Overflow bound (divergence from the design document),
   `LeafScheduler.hpp:46`.** Overflow halves the threshold, not the queue.
   The queue can then stay above the threshold, which contradicts the
   document and the comment at line 108.
3. **Disable races addTask (divergence from the design document),
   `LeafScheduler.hpp:206`.** `disable()` drains the queue and the slot
   without `_globalLock`, and addTask checks no flag. A task placed by a
   remote addTask during or after the drain stays on the disabled CPU,
   whose worker is suspended. No task is lost (`leaf_disable` passes), but
   it is not run until the CPU is enabled.
4. **Malformed policy accepted (divergence from the design document),
   `SchedulerInterface.cpp:27`.** Any value other than `LIFO` or `lifo`
   selects FIFO, including typos such as `Lifo`. The document's error kind
   1 says a malformed policy aborts start-up with a diagnostic.

## 4. Bounds and why they suffice

- **Leaf scheduler.** It uses 3 tasks, one worker and one remote adder. The
  thresholds are {0, 1, 2}, where 0 is the constructor's value, and there is
  one polling iteration.
  - Three tasks let the slot, the queue and an overflow batch all be
    non-empty at once.
  - Thresholds up to 2 make overflow batches of one task, and make the
    1.5x rebalance test both true and false.
  - One polling iteration still separates the busy-wait from the locked
    recheck. A larger budget only repeats the same read.
  - The run reaches about 500,000 states in under two minutes.
  - The disable runs allow one disable (`MaxDisables = 1`) and thresholds
    {0, 1}: enough for the drain to meet a task in the slot, in the queue
    and in flight in a remote addTask.
  - The passing disable run (`MCLeafSchedulerAdders`) has two remote
    adders. Two are needed for one to win the slot while the other falls
    back to the queue, and for two overflows to run at once. Tasks and
    adders are interchangeable model values (Init treats every task alike,
    and the module has no CHOOSE), so the run uses them as symmetry sets:
    about 2.1 million distinct states in 75 s. It checks safety only:
    symmetry is unsound for liveness, and the liveness check of two adders
    without it does not finish in ten minutes.
- **Shutdown.** It uses 3 CPUs, of which only CPUs 1 and 2 accept work.
  - This gives two controllers racing each other and the initiator, and one
    thread that only the main controller can collect.
  - It also passes with 4 CPUs (all accepting, or {2, 4}), with 1 CPU, and
    with a single accepting CPU 3.
- **Registry.** The shutdown run uses system ids 0..3 with mask {0, 2, 3}
  (3 threads, and the index count agrees).
- **Taskwait.** Four fragments on two workers: no output location, a
  reduction (plain step, inline release), directory data (a cluster copy
  with nothing to move) and data on another node (fetched). Each release
  path appears, also concurrently on the worker and the polling thread.
- **Start-up.** The policy run uses four layouts, four device sets, four
  backend sets and the policy values `fifo`, `lifo` and `random`. The
  malformed value is reached on every configuration that passes the other
  aborts.
- **Workflow.** It uses two top-level tasks with one child each, and two
  workers.
  - The wait-clause parent has two fetch groups from different nodes and a
    local copy. Its child has a reduction access (a null copy).
  - The other parent and its child have no accesses, so their execution
    steps are roots.
  - Together they exercise every copy kind, the inline body from the root
    loop, re-queueing from the poller, the wait resume path and disposal by
    a child.

## 5. Fairness

- **Weak fairness per thread.** Each worker thread, the adder once inside
  addTask, the initiator and the polling service get weak fairness. Threads
  are OS threads pinned to their CPUs, and the polling service is called
  periodically while the runtime is up.
- **No fairness on new work.** Nothing forces new tasks to be submitted,
  thresholds to change, or a CPU to be disabled or enabled
  (`RequestDisable`, `EnableCPU`).
- **Taskwait.** The dependency system sets up every fragment and lets the
  task go once all are released, so `ExitTaskwait` is weakly fair.
- **Where deadlock checking is off.** It is off in the shutdown, workflow,
  taskwait and start-up runs only. There the system legitimately stops:
  once shutdown completes, once every task is disposed, once the taskwait
  ends, or once start-up has aborted or the schedulers have been
  destroyed. The liveness properties of the first three runs exclude every
  other stop. Start-up has no branch that can stop early, since each of
  its phases is enabled exactly when the previous one has finished.

## 6. Not modelled yet (the plan for later sittings)

1. Offloaded tasks (`ClusterExecutionStep`, cluster release step); the
   step factories at `ExecutionWorkflow.cpp:102-147` only pick host or
   cluster classes by device type.
2. Several leaves under one NodeScheduler, so that a drained batch or an
   overflow batch can move to a sibling.
3. A taskwait whose fragments are set up while the task's own workflow is
   still running (composition of the two workflow modules).
4. The rebalance request of `updateQueueThreshold` (lines 223-227) is one
   atomic step in `LeafScheduler`. The code stores `_rebalance` before the
   new threshold, and addTask clears it (line 109), as the design document
   says it should. No property states when a requested rebalance must
   happen, because the document only says the next getTask "may" split.

5. `ThreadManager::preinitialize` counts `_totalThreads` with
   `CPU_ISSET(i)` on the node index (line 50), while `initialize` starts
   threads by system id through `getCPU`, which is not in the tree. `_cpus`
   is filled by index (line 49), so when the two numberings differ the
   likely outcome is a null CPU at line 77 during start-up. `CPURegistry`
   keeps a guessed `GetCPU` for the layouts where they agree. No property
   is checked on layouts where they differ. The hazard is listed in
   `PROJECT.json` without a property.
6. `StartUp` is checked only by the policy run. Its other checks restated
   the abort guards and were dropped. It ignores the second start path,
   `CPUManager::initialize` -> `ThreadManager::initializeThread`
   (`CPUManager.cpp:39-48`), whose callee is not in the tree.

Left out because they change no state that the runtime reads:
- instrumentation (`instrument/`), including the CTF streams;
- the PAPI per-thread counter lookup;
- the intrusive-set hooks of `CopyObjectLinkingArtifacts.hpp`;
- the declarations of `NaiveScheduler.hpp` and
  `DataTransferCompletion.hpp`.
