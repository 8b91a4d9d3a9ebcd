---------------------------- MODULE LeafScheduler ----------------------------
(***************************************************************************)
(* One leaf of the tree scheduler (LeafScheduler.hpp) under its parent     *)
(* NodeScheduler, with the worker thread of the leaf's CPU and a set of    *)
(* remote threads that add ready tasks to it.                              *)
(*                                                                         *)
(* Every thread is a process with a program counter; one step of a process *)
(* is one atomic section of the code: a locked region under _globalLock,   *)
(* one call on the (internally synchronised) queue, or one access to an    *)
(* atomic member.  The parent NodeScheduler and the suspend/resume of the  *)
(* worker are not in the source tree: they are modelled from the design    *)
(* document (NodeScheduler keeps an overflow queue and remembers a child   *)
(* that asked for work and got none; resume of a thread that has not yet   *)
(* suspended is remembered by its suspension primitive).                   *)
(***************************************************************************)
EXTENDS Naturals, Sequences, SequencesExt

CONSTANTS
  Tasks,              \* the tasks that may become ready (model values)
  Worker,             \* the worker thread bound to the leaf's CPU
  Adders,             \* threads of other CPUs calling addTask(task, false, hint)
  NoTask,             \* nullptr in the polling slot
  Policy,             \* "fifo" or "lifo" (NANOS6_SCHEDULING_POLICY)
  PollingIterations,  \* NANOS6_SCHEDULER_POLLING_ITER
  Thresholds,         \* values updateQueueThreshold may be called with
  MaxDisables         \* how many times the CPU may be taken out of service

ASSUME /\ Worker \notin Adders
       /\ NoTask \notin Tasks
       /\ Policy \in {"fifo", "lifo"}
       /\ PollingIterations \in Nat
       /\ Thresholds \subseteq Nat
       /\ MaxDisables \in Nat

Procs == {Worker} \cup Adders

VARIABLES
  slot,        \* _pollingSlot
  queue,       \* _queue, as a sequence in insertion order
  idle,        \* _idle
  threshold,   \* _queueThreshold
  rebalance,   \* _rebalance
  nodeQueue,   \* the parent NodeScheduler's queue of tasks
  childIdle,   \* the parent remembers that this leaf asked for work and got none
  wake,        \* a resume of the worker that its suspension has not consumed
  status,      \* per task: "new", "ready", "running" or "done"
  pc,          \* per process: its position in the code
  cur,         \* per process: the task it adds (adders) or runs (worker)
  batch,       \* per process: the taskBatch vector it is handing over
  success,     \* per process: result of _pollingSlot.setTask under the lock
  seenIdle,    \* per process: _idle as read under the lock
  ret,         \* per process: where handleQueueOverflow / addTaskBatch returns
  doWait,      \* getTask(doWait) argument of the worker's current call
  iterations,  \* the worker's busy-polling counter
  disabling,   \* the CPU has been asked to leave service (CPUActivation)
  disables     \* how many times it has been asked so far

vars == <<slot, queue, idle, threshold, rebalance, nodeQueue, childIdle, wake,
          status, pc, cur, batch, success, seenIdle, ret, doWait, iterations,
          disabling, disables>>

-----------------------------------------------------------------------------
(* The queue of TreeSchedulerQueueInterface: getTask takes from the head   *)
(* for FIFO and from the tail for LIFO; getTaskBatch takes from the        *)
(* opposite end.                                                           *)
DequeueEnd(q)   == IF Policy = "fifo" THEN Head(q) ELSE Last(q)
AfterDequeue(q) == IF Policy = "fifo" THEN Tail(q) ELSE Front(q)
BatchOf(q, n)   == IF Policy = "fifo" THEN SubSeq(q, Len(q) - n + 1, Len(q))
                                      ELSE SubSeq(q, 1, n)
AfterBatch(q, n) == IF Policy = "fifo" THEN SubSeq(q, 1, Len(q) - n)
                                       ELSE SubSeq(q, n + 1, Len(q))

(* handleQueueOverflow: half the threshold, at least one task.            *)
OverflowSize == IF threshold \div 2 = 0 THEN 1 ELSE threshold \div 2

Goto(p, l) == pc' = [pc EXCEPT ![p] = l]

(* Leaving handleQueueOverflow or addTaskBatch: back to the caller.  A     *)
(* caller that is addTask then clears _rebalance ("Queue is already        *)
(* balanced") and returns.                                                 *)
Return(p) ==
  CASE ret[p] = "added" /\ p = Worker -> Goto(p, "run") /\ rebalance' = FALSE
       [] ret[p] = "added"               -> Goto(p, "free") /\ rebalance' = FALSE
       [] OTHER                          -> Goto(p, ret[p]) /\ UNCHANGED rebalance

-----------------------------------------------------------------------------
(* getTask(doWait), run by the worker.                                     *)

GetTaskEnter ==
  /\ pc[Worker] = "get"
  /\ ~disabling
  /\ \E w \in BOOLEAN : doWait' = w
  /\ idle' = FALSE
  /\ iterations' = 0
  /\ Goto(Worker, "slot")
  /\ UNCHANGED <<slot, queue, threshold, rebalance, nodeQueue, childIdle, wake,
                 status, cur, batch, success, seenIdle, ret,
                 disabling, disables>>

TakeSlot ==
  /\ slot # NoTask
  /\ slot' = NoTask
  /\ cur' = [cur EXCEPT ![Worker] = slot]
  /\ status' = [status EXCEPT ![slot] = "running"]
  /\ Goto(Worker, "run")

GetTaskSlot ==
  /\ pc[Worker] = "slot"
  /\ \/ TakeSlot /\ rebalance' = FALSE
     \/ slot = NoTask /\ Goto(Worker, "queue") /\ UNCHANGED <<slot, cur, status, rebalance>>
  /\ UNCHANGED <<queue, idle, threshold, nodeQueue, childIdle, wake, batch,
                 success, seenIdle, ret, doWait, iterations,
                 disabling, disables>>

GetTaskQueue ==
  /\ pc[Worker] = "queue"
  /\ rebalance' = FALSE
  /\ \/ /\ queue # <<>>
        /\ queue' = AfterDequeue(queue)
        /\ cur' = [cur EXCEPT ![Worker] = DequeueEnd(queue)]
        /\ status' = [status EXCEPT ![DequeueEnd(queue)] = "running"]
        /\ IF rebalance /\ 2 * Len(queue') > 3 * threshold
             THEN Goto(Worker, "overflow") /\ ret' = [ret EXCEPT ![Worker] = "run"]
             ELSE Goto(Worker, "run") /\ UNCHANGED ret
     \/ /\ queue = <<>>
        /\ Goto(Worker, "parent")
        /\ UNCHANGED <<queue, cur, status, ret>>
  /\ UNCHANGED <<slot, idle, threshold, nodeQueue, childIdle, wake, batch,
                 success, seenIdle, doWait, iterations,
                 disabling, disables>>

(* _parent->getTask(this): the node hands its whole queue down through     *)
(* addTaskBatch, or remembers that this child is waiting.                  *)
NodeGetTask ==
  /\ pc[Worker] = "parent"
  /\ \/ /\ nodeQueue # <<>>
        /\ batch' = [batch EXCEPT ![Worker] = nodeQueue]
        /\ nodeQueue' = <<>>
        /\ ret' = [ret EXCEPT ![Worker] = "poll"]
        /\ Goto(Worker, "batchLock")
        /\ UNCHANGED childIdle
     \/ /\ nodeQueue = <<>>
        /\ childIdle' = TRUE
        /\ Goto(Worker, "poll")
        /\ UNCHANGED <<batch, nodeQueue, ret>>
  /\ UNCHANGED <<slot, queue, idle, threshold, rebalance, wake, status, cur,
                 success, seenIdle, doWait, iterations,
                 disabling, disables>>

(* Mutant of GetTaskPoll: one read of the slot too many.                  *)
GetTaskPollOffByOne ==
  /\ pc[Worker] = "poll"
  /\ \/ /\ iterations <= (IF doWait THEN PollingIterations ELSE 1)
        /\ \/ TakeSlot
           \/ slot = NoTask /\ UNCHANGED <<pc, slot, cur, status>>
        /\ iterations' = iterations + 1
     \/ /\ iterations > (IF doWait THEN PollingIterations ELSE 1)
        /\ Goto(Worker, "lock")
        /\ UNCHANGED <<slot, cur, status, iterations>>
  /\ UNCHANGED <<queue, idle, threshold, rebalance, nodeQueue, childIdle, wake,
                 batch, success, seenIdle, ret, doWait,
                 disabling, disables>>

(* The busy-wait on the polling slot: PollingIterations reads when doWait, *)
(* a single read otherwise.                                                *)
GetTaskPoll ==
  /\ pc[Worker] = "poll"
  /\ \/ /\ iterations < (IF doWait THEN PollingIterations ELSE 1)
        /\ \/ TakeSlot
           \/ slot = NoTask /\ UNCHANGED <<pc, slot, cur, status>>
        /\ iterations' = iterations + 1
     \/ /\ iterations >= (IF doWait THEN PollingIterations ELSE 1)
        /\ Goto(Worker, "lock")
        /\ UNCHANGED <<slot, cur, status, iterations>>
  /\ UNCHANGED <<queue, idle, threshold, rebalance, nodeQueue, childIdle, wake,
                 batch, success, seenIdle, ret, doWait,
                 disabling, disables>>

(* Under _globalLock: recheck the slot, else mark the leaf idle and return *)
(* nullptr, after which the worker suspends until it is resumed.           *)
GetTaskLock ==
  /\ pc[Worker] = "lock"
  /\ \/ TakeSlot /\ UNCHANGED idle
     \/ slot = NoTask /\ idle' = TRUE /\ Goto(Worker, "parked")
        /\ UNCHANGED <<slot, cur, status>>
  /\ UNCHANGED <<queue, threshold, rebalance, nodeQueue, childIdle, wake, batch,
                 success, seenIdle, ret, doWait, iterations,
                 disabling, disables>>

(* The suspended worker is resumed (ThreadManager::resumeIdle) and calls   *)
(* getTask again.                                                          *)
ResumeWorker ==
  /\ pc[Worker] = "parked"
  /\ wake
  /\ wake' = FALSE
  /\ Goto(Worker, "get")
  /\ UNCHANGED <<slot, queue, idle, threshold, rebalance, nodeQueue, childIdle,
                 status, cur, batch, success, seenIdle, ret, doWait, iterations,
                 disabling, disables>>
-----------------------------------------------------------------------------
(* The worker runs its task; the body may create tasks that become ready   *)
(* on this CPU: addTask(task, true, hint).                                 *)

FinishTask ==
  /\ pc[Worker] = "run"
  /\ status' = [status EXCEPT ![cur[Worker]] = "done"]
  /\ Goto(Worker, "get")
  /\ UNCHANGED <<slot, queue, idle, threshold, rebalance, nodeQueue, childIdle,
                 wake, cur, batch, success, seenIdle, ret, doWait, iterations,
                 disabling, disables>>

AddTaskLocal(t) ==
  /\ pc[Worker] = "run"
  /\ status[t] = "new"
  /\ status' = [status EXCEPT ![t] = "ready"]
  /\ queue' = Append(queue, t)
  /\ IF Len(queue') > threshold
       THEN Goto(Worker, "overflow") /\ ret' = [ret EXCEPT ![Worker] = "added"]
            /\ UNCHANGED rebalance
       ELSE rebalance' = FALSE /\ UNCHANGED <<pc, ret>>
  /\ UNCHANGED <<slot, idle, threshold, nodeQueue, childIdle, wake, cur, batch,
                 success, seenIdle, doWait, iterations,
                 disabling, disables>>

(* addTask(task, false, hint) from another CPU: the locked attempt on the  *)
(* polling slot, then the wake-up or the fallback to the queue.            *)
AddTaskLock(a, t) ==
  /\ pc[a] = "free"
  /\ status[t] = "new"
  /\ status' = [status EXCEPT ![t] = "ready"]
  /\ cur' = [cur EXCEPT ![a] = t]
  /\ success' = [success EXCEPT ![a] = (slot = NoTask)]
  /\ slot' = IF slot = NoTask THEN t ELSE slot
  /\ seenIdle' = [seenIdle EXCEPT ![a] = idle]
  /\ Goto(a, "addAfter")
  /\ UNCHANGED <<queue, idle, threshold, rebalance, nodeQueue, childIdle, wake,
                 batch, ret, doWait, iterations,
                 disabling, disables>>

(* Mutant of AddTaskAfter: the idle worker is not resumed.                *)
AddTaskAfterNoResume(a) ==
  /\ pc[a] = "addAfter"
  /\ \/ /\ success[a]
        /\ rebalance' = FALSE
        /\ Goto(a, "free")
        /\ UNCHANGED <<queue, ret, wake>>
     \/ /\ ~success[a]
        /\ queue' = Append(queue, cur[a])
        /\ IF Len(queue') > threshold
             THEN Goto(a, "overflow") /\ ret' = [ret EXCEPT ![a] = "added"]
                  /\ UNCHANGED rebalance
             ELSE Goto(a, "free") /\ rebalance' = FALSE /\ UNCHANGED ret
        /\ UNCHANGED wake
  /\ UNCHANGED <<slot, idle, threshold, nodeQueue, childIdle, status, cur, batch,
                 success, seenIdle, doWait, iterations,
                 disabling, disables>>

AddTaskAfter(a) ==
  /\ pc[a] = "addAfter"
  /\ \/ /\ success[a]
        /\ wake' = (wake \/ seenIdle[a])
        /\ rebalance' = FALSE
        /\ Goto(a, "free")
        /\ UNCHANGED <<queue, ret>>
     \/ /\ ~success[a]
        /\ queue' = Append(queue, cur[a])
        /\ IF Len(queue') > threshold
             THEN Goto(a, "overflow") /\ ret' = [ret EXCEPT ![a] = "added"]
                  /\ UNCHANGED rebalance
             ELSE Goto(a, "free") /\ rebalance' = FALSE /\ UNCHANGED ret
        /\ UNCHANGED wake
  /\ UNCHANGED <<slot, idle, threshold, nodeQueue, childIdle, status, cur, batch,
                 success, seenIdle, doWait, iterations,
                 disabling, disables>>

-----------------------------------------------------------------------------
(* handleQueueOverflow: take a batch from the queue and give it to the     *)
(* parent.  NodeScheduler::addTaskBatch hands it straight back down to a   *)
(* child that is waiting for work, and otherwise keeps it.                 *)

HandleQueueOverflow(p) ==
  /\ pc[p] = "overflow"
  /\ LET n == IF OverflowSize < Len(queue) THEN OverflowSize ELSE Len(queue)
     IN /\ batch' = [batch EXCEPT ![p] = BatchOf(queue, n)]
        /\ queue' = AfterBatch(queue, n)
        /\ IF n > 0 THEN Goto(p, "nodeBatch") ELSE Goto(p, "return")
  /\ UNCHANGED <<slot, idle, threshold, rebalance, nodeQueue, childIdle, wake,
                 status, cur, success, seenIdle, ret, doWait, iterations,
                 disabling, disables>>

NodeAddTaskBatch(p) ==
  /\ pc[p] = "nodeBatch"
  /\ \/ /\ childIdle
        /\ childIdle' = FALSE
        /\ Goto(p, "batchLock")
        /\ UNCHANGED <<nodeQueue, batch>>
     \/ /\ ~childIdle
        /\ nodeQueue' = nodeQueue \o batch[p]
        /\ batch' = [batch EXCEPT ![p] = <<>>]
        /\ Goto(p, "return")
        /\ UNCHANGED childIdle
  /\ UNCHANGED <<slot, queue, idle, threshold, rebalance, wake, status, cur,
                 success, seenIdle, ret, doWait, iterations,
                 disabling, disables>>

(* LeafScheduler::addTaskBatch: the last task of the batch tries the       *)
(* polling slot under the lock, the idle worker is resumed, the rest is    *)
(* queued.                                                                 *)
(* Mutant of AddTaskBatchLock: the task put in the slot is not popped     *)
(* from the batch (the taskBatch.pop_back() is missing).                   *)
AddTaskBatchLockNoPop(p) ==
  /\ pc[p] = "batchLock"
  /\ success' = [success EXCEPT ![p] = (slot = NoTask)]
  /\ seenIdle' = [seenIdle EXCEPT ![p] = idle]
  /\ slot' = IF slot = NoTask THEN Last(batch[p]) ELSE slot
  /\ Goto(p, "batchWake")
  /\ UNCHANGED <<batch, queue, idle, threshold, rebalance, nodeQueue, childIdle,
                 wake, status, cur, ret, doWait, iterations,
                 disabling, disables>>

AddTaskBatchLock(p) ==
  /\ pc[p] = "batchLock"
  /\ success' = [success EXCEPT ![p] = (slot = NoTask)]
  /\ seenIdle' = [seenIdle EXCEPT ![p] = idle]
  /\ IF slot = NoTask
       THEN slot' = Last(batch[p]) /\ batch' = [batch EXCEPT ![p] = Front(batch[p])]
       ELSE UNCHANGED <<slot, batch>>
  /\ Goto(p, "batchWake")
  /\ UNCHANGED <<queue, idle, threshold, rebalance, nodeQueue, childIdle, wake,
                 status, cur, ret, doWait, iterations,
                 disabling, disables>>

AddTaskBatchWake(p) ==
  /\ pc[p] = "batchWake"
  /\ wake' = (wake \/ (success[p] /\ seenIdle[p]))
  /\ Goto(p, "batchQueue")
  /\ UNCHANGED <<slot, queue, idle, threshold, rebalance, nodeQueue, childIdle,
                 status, cur, batch, success, seenIdle, ret, doWait, iterations,
                 disabling, disables>>

AddTaskBatchQueue(p) ==
  /\ pc[p] = "batchQueue"
  /\ queue' = queue \o batch[p]
  /\ batch' = [batch EXCEPT ![p] = <<>>]
  /\ Goto(p, "return")
  /\ UNCHANGED <<slot, idle, threshold, rebalance, nodeQueue, childIdle, wake,
                 status, cur, success, seenIdle, ret, doWait, iterations,
                 disabling, disables>>

ReturnFrom(p) ==
  /\ pc[p] = "return"
  /\ Return(p)
  /\ UNCHANGED <<slot, queue, idle, threshold, nodeQueue, childIdle, wake,
                 status, cur, batch, success, seenIdle, ret, doWait, iterations,
                 disabling, disables>>

(* updateQueueThreshold, called by the tree when the CPU count changes.   *)
UpdateQueueThreshold(t) ==
  /\ t # threshold
  /\ rebalance' = (rebalance \/ t < threshold)
  /\ threshold' = t
  /\ UNCHANGED <<slot, queue, idle, nodeQueue, childIdle, wake, status, pc, cur,
                 batch, success, seenIdle, ret, doWait, iterations,
                 disabling, disables>>

-----------------------------------------------------------------------------
(* Taking the CPU out of service.  CPUActivation (not in the tree) asks    *)
(* for it; the CPU's worker sees the request before its next getTask and   *)
(* calls disable(), which takes no lock: unidle the leaf and its bit in    *)
(* the parent if _idle is set, drain the queue (getTaskBatch(-1)), add     *)
(* the polling-slot task to the batch and give the batch to the parent.   *)
(* The worker then stays suspended until the CPU is enabled again, and     *)
(* enable() does nothing.                                                  *)

RequestDisable ==
  /\ ~disabling
  /\ disables < MaxDisables
  /\ pc[Worker] # "disabled"
  /\ disabling' = TRUE
  /\ disables' = disables + 1
  /\ UNCHANGED <<slot, queue, idle, threshold, rebalance, nodeQueue, childIdle,
                 wake, status, pc, cur, batch, success, seenIdle, ret, doWait,
                 iterations>>

DisableUnidle ==
  /\ pc[Worker] = "get"
  /\ disabling
  /\ disabling' = FALSE
  /\ idle' = FALSE
  /\ childIdle' = (childIdle /\ ~idle)
  /\ Goto(Worker, "disDrain")
  /\ UNCHANGED <<slot, queue, threshold, rebalance, nodeQueue, wake, status, cur,
                 batch, success, seenIdle, ret, doWait, iterations, disables>>

DisableDrain ==
  /\ pc[Worker] = "disDrain"
  /\ batch' = [batch EXCEPT ![Worker] = BatchOf(queue, Len(queue))]
  /\ queue' = <<>>
  /\ Goto(Worker, "disSlot")
  /\ UNCHANGED <<slot, idle, threshold, rebalance, nodeQueue, childIdle, wake,
                 status, cur, success, seenIdle, ret, doWait, iterations,
                 disabling, disables>>

(* Mutant of DisableSlot: the polling-slot task is taken but not pushed   *)
(* onto the batch.                                                         *)
DisableSlotDropsTask ==
  /\ pc[Worker] = "disSlot"
  /\ slot' = NoTask
  /\ IF batch[Worker] # <<>>
       THEN Goto(Worker, "nodeBatch") /\ ret' = [ret EXCEPT ![Worker] = "disabled"]
       ELSE Goto(Worker, "disabled") /\ UNCHANGED ret
  /\ UNCHANGED <<queue, idle, threshold, rebalance, nodeQueue, childIdle, wake,
                 status, cur, batch, success, seenIdle, doWait, iterations,
                 disabling, disables>>

DisableSlot ==
  /\ pc[Worker] = "disSlot"
  /\ slot' = NoTask
  /\ batch' = [batch EXCEPT ![Worker] =
                 IF slot = NoTask THEN @ ELSE Append(@, slot)]
  /\ IF batch'[Worker] # <<>>
       THEN Goto(Worker, "nodeBatch") /\ ret' = [ret EXCEPT ![Worker] = "disabled"]
       ELSE Goto(Worker, "disabled") /\ UNCHANGED ret
  /\ UNCHANGED <<queue, idle, threshold, rebalance, nodeQueue, childIdle, wake,
                 status, cur, success, seenIdle, doWait, iterations,
                 disabling, disables>>

EnableCPU ==
  /\ pc[Worker] = "disabled"
  /\ Goto(Worker, "get")
  /\ UNCHANGED <<slot, queue, idle, threshold, rebalance, nodeQueue, childIdle,
                 wake, status, cur, batch, success, seenIdle, ret, doWait,
                 iterations, disabling, disables>>

-----------------------------------------------------------------------------
(* The constructor: _queueThreshold(0), _rebalance(false), _idle(false).   *)
Init ==
  /\ slot = NoTask
  /\ queue = <<>>
  /\ idle = FALSE
  /\ threshold = 0
  /\ rebalance = FALSE
  /\ nodeQueue = <<>>
  /\ childIdle = FALSE
  /\ wake = FALSE
  /\ status = [t \in Tasks |-> "new"]
  /\ pc = [p \in Procs |-> IF p = Worker THEN "get" ELSE "free"]
  /\ cur = [p \in Procs |-> NoTask]
  /\ batch = [p \in Procs |-> <<>>]
  /\ success = [p \in Procs |-> FALSE]
  /\ seenIdle = [p \in Procs |-> FALSE]
  /\ ret = [p \in Procs |-> "run"]
  /\ doWait = FALSE
  /\ iterations = 0
  /\ disabling = FALSE
  /\ disables = 0

WorkerStep ==
  \/ GetTaskEnter \/ GetTaskSlot \/ GetTaskQueue \/ NodeGetTask
  \/ GetTaskPoll \/ GetTaskLock \/ ResumeWorker \/ FinishTask
  \/ DisableUnidle \/ DisableDrain \/ DisableSlot

(* The steps a process takes once it is inside an operation.               *)
InFlight(p) ==
  \/ HandleQueueOverflow(p) \/ NodeAddTaskBatch(p) \/ AddTaskBatchLock(p)
  \/ AddTaskBatchWake(p) \/ AddTaskBatchQueue(p) \/ ReturnFrom(p)

Next ==
  \/ WorkerStep
  \/ \E t \in Tasks : AddTaskLocal(t)
  \/ \E a \in Adders, t \in Tasks : AddTaskLock(a, t)
  \/ \E a \in Adders : AddTaskAfter(a)
  \/ \E p \in Procs : InFlight(p)
  \/ \E t \in Thresholds : UpdateQueueThreshold(t)
  \/ RequestDisable \/ EnableCPU

(* Threads that have entered an operation complete it; the worker keeps    *)
(* running its loop.  Nothing forces new tasks, threshold changes, or the  *)
(* CPU to be disabled or enabled again.                                    *)
Fairness ==
  /\ WF_vars(WorkerStep \/ InFlight(Worker))
  /\ \A a \in Adders : WF_vars(AddTaskAfter(a) \/ InFlight(a))

Spec == Init /\ [][Next]_vars /\ Fairness
-----------------------------------------------------------------------------
(* Properties                                                              *)

TypeOK ==
  /\ slot \in Tasks \cup {NoTask}
  /\ queue \in Seq(Tasks) /\ nodeQueue \in Seq(Tasks)
  /\ idle \in BOOLEAN /\ rebalance \in BOOLEAN /\ childIdle \in BOOLEAN
  /\ wake \in BOOLEAN /\ doWait \in BOOLEAN
  /\ threshold \in Thresholds \cup {0}
  /\ status \in [Tasks -> {"new", "ready", "running", "done"}]
  /\ pc \in [Procs -> {"get", "slot", "queue", "parent", "poll", "lock",
                       "parked", "run", "free", "addAfter", "overflow",
                       "nodeBatch", "batchLock", "batchWake", "batchQueue",
                       "return", "disDrain", "disSlot", "disabled"}]
  /\ cur \in [Procs -> Tasks \cup {NoTask}]
  /\ batch \in [Procs -> Seq(Tasks)]
  /\ iterations \in 0..(IF PollingIterations > 1 THEN PollingIterations ELSE 1)
  /\ disabling \in BOOLEAN /\ disables \in 0..MaxDisables

(* How many times task t is held by the scheduler: in the polling slot, in *)
(* the leaf queue, in the parent's queue, in a batch some thread is        *)
(* handing over, or in the hands of an adder whose slot attempt failed.    *)
Count(s, t) == Cardinality({i \in DOMAIN s : s[i] = t})
Held(t) ==
  (IF slot = t THEN 1 ELSE 0) + Count(queue, t) + Count(nodeQueue, t)
  + Cardinality({p \in Procs : Count(batch[p], t) = 1})
  + Cardinality({a \in Adders : pc[a] = "addAfter" /\ ~success[a] /\ cur[a] = t})

(* Every ready task is held exactly once, whatever the interleaving of     *)
(* addTask, overflow batches, addTaskBatch and getTask: no task is lost or *)
(* handed out twice.  A task is held by no one once it has been taken.     *)
TaskConservation ==
  \A t \in Tasks :
     /\ \A p \in Procs : Count(batch[p], t) <= 1
     /\ Held(t) = IF status[t] = "ready" THEN 1 ELSE 0

(* The lock protocol between addTask/addTaskBatch and getTask: a task     *)
(* placed in the polling slot is eventually run by the worker, whether the *)
(* worker was running, polling, or marking itself idle when it was placed. *)
SlotTaskIsTaken ==
  \A t \in Tasks : (slot = t) ~> (status[t] \in {"running", "done"})

(* Design claim: every task that becomes ready is eventually run.         *)
ReadyTaskEventuallyRuns ==
  \A t \in Tasks : (status[t] = "ready") ~> (status[t] \in {"running", "done"})

(* Design claim: after handleQueueOverflow hands a non-empty batch to the  *)
(* parent, the leaf queue holds at most _queueThreshold tasks.             *)
OverflowLeavesAtMostThreshold ==
  [][\A p \in Procs :
       (pc[p] = "overflow" /\ pc'[p] = "nodeBatch") => Len(queue') <= threshold
    ]_vars

(* Design claim: a CPU taken out of service drains its leaf to the parent: *)
(* when the worker's disable() returns, neither the polling slot nor the   *)
(* queue of the leaf holds a task.                                         *)
DisableLeavesLeafEmpty ==
  [][(pc[Worker] # "disabled" /\ pc'[Worker] = "disabled")
       => slot' = NoTask /\ queue' = <<>>]_vars
=============================================================================
