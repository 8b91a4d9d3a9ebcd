------------------------- MODULE ExecutionWorkflow -------------------------
(***************************************************************************)
(* The per-task execution workflow of ExecutionWorkflow.cpp.               *)
(*                                                                         *)
(* Worker threads take ready tasks and call executeTask.  The first call   *)
(* builds the workflow (one data-copy step per access, the execution step, *)
(* the release step and the notification step) and starts it; copy steps  *)
(* that need a remote fetch are grouped by source and handed to the       *)
(* transfer layer with fetchVector, and the data-transfer polling service  *)
(* completes them later on its own thread.  The execution step runs the    *)
(* body inline when it becomes ready on the worker executing the task, and *)
(* re-queues the task when it becomes ready on the polling thread.  The    *)
(* notification callback finishes, releases and disposes of the task, or,  *)
(* for a task with a wait clause whose children are still alive, deletes   *)
(* the workflow and leaves the task to come back through executeTask.      *)
(*                                                                         *)
(* The step classes, Task's state machine (markAsFinished, markAsReleased, *)
(* removal countdown), TaskFinalization and the scheduler are not in the   *)
(* source tree; they are modelled from the design document.  Data regions *)
(* and the dependency system are abstracted to one event per call.         *)
(***************************************************************************)
EXTENDS Naturals, Sequences, SequencesExt, FiniteSets, DataCopy

CONSTANTS
  Tasks,          \* tasks (model values)
  Parent,         \* Parent[t]: the task that creates t in its body, or None
  WaitClause,     \* tasks with a wait clause (mustDelayRelease)
  AccessesOf,     \* AccessesOf[t]: t's accesses, in processAllDataAccesses order
  AccessType,     \* per access: "read", "write", "readwrite", "reduction", ...
  Location,       \* per access: its current MemoryPlace, or NullPlace
  Target,         \* per task: the target MemoryPlace passed to executeTask
  Workers,        \* worker threads
  None

Accesses == UNION {ToSet(AccessesOf[t]) : t \in Tasks}
TaskOf(a) == CHOOSE t \in Tasks : a \in ToSet(AccessesOf[t])
Children(t) == {c \in Tasks : Parent[c] = t}
ExecRoot == "exec"   \* the execution step, when it is a root step

ASSUME /\ Parent \in [Tasks -> Tasks \cup {None}]
       /\ WaitClause \subseteq Tasks
       /\ \A t \in Tasks : Target[t] \in Places \ {Directory}

VARIABLES
  ready,         \* tasks in the scheduler
  created,       \* tasks submitted so far
  wf,            \* per task: its workflow pointer: "none", "live", "deleted"
  copy,          \* per access: its copy step: "none", "created", "grouped",
                 \*   "fetching" (handed to fetchVector) or "done"
  pending,       \* per task: predecessors of the execution step not yet done
  exec,          \* per task: execution step "none", "waiting", "queued" or "done"
  validSelf,     \* accesses marked with setValidNamespaceSelf
  liveChildren,  \* per task: children that have not called taskFinished
  removal,       \* per task: removal countdown (itself + undisposed children)
  blocked,       \* per task: markAsFinished returned false (wait clause)
  hist,          \* per task: the lifecycle events, in order
  pc,            \* per worker: position
  wt,            \* per worker: the task it is executing
  idx,           \* per worker: iterator over _rootSteps in WorkflowBase::start
  back           \* per worker: where the inline body returns (root index or 0)

vars == <<ready, created, wf, copy, pending, exec, validSelf, liveChildren,
          removal, blocked, hist, pc, wt, idx, back>>

-----------------------------------------------------------------------------
(* The copy step executeTask creates for access a of task t: from its     *)
(* current location to the task's target memory place.                     *)
CopyKind(a, t) == CopyStepKind(AccessType[a], Location[a], Target[t])

MarksValidSelf(a, t) == MarksValidSelfAt(AccessType[a], Target[t])

(* ClusterDataCopyStep::requiresDataFetch for a task's copy: a copy that   *)
(* needs no transfer releases its successors at once.                      *)
RequiresDataFetch(a, t) == NeedsTransfer(Location[a], Target[t])

(* The root steps: every copy step, then the execution step when it has no *)
(* predecessor (executionStep->ready()).                                   *)
(* Mutant: the execution step is always added as a root, without the     *)
(* executionStep->ready() test.                                           *)
RootStepsAlwaysExec(t) == AccessesOf[t] \o <<ExecRoot>>

RootSteps(t) ==
  IF AccessesOf[t] = <<>> THEN <<ExecRoot>> ELSE AccessesOf[t]

-----------------------------------------------------------------------------
(* TaskFinalization::disposeTask, walking up: disposing of a task releases *)
(* one removal count of its parent, which is disposed of in turn when that *)
(* was its last one.  rem is the countdown after t's own decrement.        *)
RECURSIVE Disposed(_, _)
Disposed(t, rem) ==
  IF rem[t] # 0 THEN {}
  ELSE {t} \cup (IF Parent[t] = None THEN {}
                 ELSE Disposed(Parent[t], [rem EXCEPT ![Parent[t]] = @ - 1]))

(* The first call of the finaliser passed to unregisterTaskDataAccesses:  *)
(* TaskFinalization::taskFinished.  The parent learns that a child        *)
(* finished, and is re-queued if it waits for its last child.  From here  *)
(* on another worker may run the parent before this task is released.     *)
TaskFinished(t) ==
  LET p == Parent[t] IN
  /\ liveChildren' = IF p = None THEN liveChildren
                     ELSE [liveChildren EXCEPT ![p] = @ - 1]
  /\ ready' = IF p # None /\ blocked[p] /\ liveChildren[p] = 1
                THEN ready \cup {p} ELSE ready
  /\ hist' = [hist EXCEPT ![t] = Append(@, "taskFinished")]

(* Mutant: the finaliser disposes of the task whatever markAsReleased     *)
(* returned.                                                              *)
MarkAsReleasedAlwaysDispose(t) ==
  LET gone == {t} \cup Disposed(t, [removal EXCEPT ![t] = @ - 1])
      kids(u) == Cardinality({c \in gone : Parent[c] = u})
  IN /\ removal' = [u \in Tasks |-> removal[u] - (IF u = t THEN 1 ELSE 0) - kids(u)]
     /\ hist' = [u \in Tasks |->
                   hist[u] \o (IF u = t THEN <<"released">> ELSE <<>>)
                           \o (IF u \in gone THEN <<"disposed">> ELSE <<>>)]

(* The rest of the finaliser: markAsReleased and, when it returns true     *)
(* (no child left undisposed), disposeTask walking up the parent chain.    *)
MarkAsReleased(t) ==
  LET gone == Disposed(t, [removal EXCEPT ![t] = @ - 1])
      kids(u) == Cardinality({c \in gone : Parent[c] = u})
  IN /\ removal' = [u \in Tasks |-> removal[u] - (IF u = t THEN 1 ELSE 0) - kids(u)]
     /\ hist' = [u \in Tasks |->
                   hist[u] \o (IF u = t THEN <<"released">> ELSE <<>>)
                           \o (IF u \in gone THEN <<"disposed">> ELSE <<>>)]

-----------------------------------------------------------------------------
Init ==
  /\ created = {t \in Tasks : Parent[t] = None}
  /\ ready = created
  /\ wf = [t \in Tasks |-> "none"]
  /\ copy = [a \in Accesses |-> "none"]
  /\ pending = [t \in Tasks |-> 0]
  /\ exec = [t \in Tasks |-> "none"]
  /\ validSelf = {}
  /\ liveChildren = [t \in Tasks |-> 0]
  /\ removal = [t \in Tasks |-> 1]
  /\ blocked = [t \in Tasks |-> FALSE]
  /\ hist = [t \in Tasks |-> <<>>]
  /\ pc = [w \in Workers |-> "idle"]
  /\ wt = [w \in Workers |-> None]
  /\ idx = [w \in Workers |-> 0]
  /\ back = [w \in Workers |-> 0]

Goto(w, l) == pc' = [pc EXCEPT ![w] = l]

(* The worker's call to the execution step's start() from inside          *)
(* executeTask: the task is the worker's own, so the body runs inline and  *)
(* control comes back to root index r of start() (0: back to executeTask). *)
RunInline(w, r) == /\ Goto(w, "body")
                   /\ back' = [back EXCEPT ![w] = r]

(* A worker takes a ready task (Scheduler::getReadyTask) and calls         *)
(* executeTask.  On the first call it builds the workflow: one copy step   *)
(* per access, each a root and a predecessor of the execution step, which  *)
(* is a root itself when it has no predecessor; then setWorkflow and       *)
(* start().                                                                *)
ExecuteTaskCreate(w, t) ==
  /\ pc[w] = "idle" /\ t \in ready /\ wf[t] = "none"
  /\ ready' = ready \ {t}
  /\ wf' = [wf EXCEPT ![t] = "live"]
  /\ copy' = [a \in Accesses |-> IF a \in ToSet(AccessesOf[t]) THEN "created" ELSE copy[a]]
  /\ pending' = [pending EXCEPT ![t] = Len(AccessesOf[t])]
  /\ exec' = [exec EXCEPT ![t] = "waiting"]
  /\ validSelf' = validSelf \cup {a \in ToSet(AccessesOf[t]) : MarksValidSelf(a, t)}
  /\ wt' = [wt EXCEPT ![w] = t]
  /\ idx' = [idx EXCEPT ![w] = 1]
  /\ Goto(w, "start")
  /\ UNCHANGED <<created, liveChildren, removal, blocked, hist, back>>

(* executeTask on a task whose workflow is set and whose execution step    *)
(* was queued by the transfer poller: executionStep->start(), which runs   *)
(* the body on this worker.                                                *)
ExecuteTaskStep(w, t) ==
  /\ pc[w] = "idle" /\ t \in ready /\ wf[t] # "none" /\ exec[t] = "queued"
  /\ ready' = ready \ {t}
  /\ wt' = [wt EXCEPT ![w] = t]
  /\ RunInline(w, 0)
  /\ UNCHANGED <<created, wf, copy, pending, exec, validSelf, liveChildren,
                 removal, blocked, hist, idx>>

(* executeTask on a task whose workflow pointer is set but whose execution *)
(* step is null: the return from a wait clause.  completeDelayedRelease,   *)
(* markAsUnblocked, handleExitTaskwait, then unregisterTaskDataAccesses    *)
(* with the finaliser.  The workflow pointer is the dangling one.          *)
(* Mutant: the re-entry tests only the workflow pointer, not whether an   *)
(* execution step is pending.                                              *)
ExecuteTaskResumeAnyStep(w, t) ==
  /\ pc[w] = "idle" /\ t \in ready /\ wf[t] # "none"
  /\ wt' = [wt EXCEPT ![w] = t]
  /\ Goto(w, "resume")
  /\ ready' = ready \ {t}
  /\ UNCHANGED <<created, wf, copy, pending, exec, validSelf, liveChildren,
                 removal, blocked, hist, idx, back>>

ExecuteTaskResume(w, t) ==
  /\ pc[w] = "idle" /\ t \in ready /\ wf[t] # "none" /\ exec[t] = "done"
  /\ wt' = [wt EXCEPT ![w] = t]
  /\ Goto(w, "resume")
  /\ ready' = ready \ {t}
  /\ UNCHANGED <<created, wf, copy, pending, exec, validSelf, liveChildren,
                 removal, blocked, hist, idx, back>>

WaitResume(w) ==
  LET t == wt[w] IN
  /\ pc[w] = "resume"
  /\ blocked' = [blocked EXCEPT ![t] = FALSE]
  /\ TaskFinished(t)
  /\ Goto(w, "resumeRelease")
  /\ UNCHANGED <<created, wf, copy, pending, exec, validSelf, removal, wt, idx, back>>

(* The wait-clause re-entry finishes the finaliser and executeTask returns. *)
WaitResumeRelease(w) ==
  LET t == wt[w] IN
  /\ pc[w] = "resumeRelease"
  /\ MarkAsReleased(t)
  /\ Goto(w, "idle")
  /\ wt' = [wt EXCEPT ![w] = None]
  /\ UNCHANGED <<ready, created, wf, copy, pending, exec, validSelf,
                 liveChildren, blocked, idx, back>>

(* One iteration of the root-step loop of WorkflowBase::start.  A null     *)
(* copy, or a cluster copy that needs no transfer (requiresDataFetch       *)
(* releases its successors itself), completes at once and may start the   *)
(* execution step; a cluster copy that needs a fetch joins its source's    *)
(* group.  The loop reads _rootSteps of the workflow on every iteration.   *)
StartRoot(w) ==
  LET t == wt[w]
      i == idx[w]
      s == RootSteps(t)[i]
  IN
  /\ pc[w] = "start" /\ i <= Len(RootSteps(t))
  /\ \/ /\ s = ExecRoot
        /\ RunInline(w, i + 1)
        /\ UNCHANGED <<copy, pending, idx>>
     \/ /\ s # ExecRoot
        /\ CopyKind(s, t) = "cluster" /\ RequiresDataFetch(s, t)
        /\ copy' = [copy EXCEPT ![s] = "grouped"]
        /\ idx' = [idx EXCEPT ![w] = i + 1]
        /\ UNCHANGED <<pending, pc, back>>
     \/ /\ s # ExecRoot
        /\ CopyKind(s, t) = "null" \/ ~RequiresDataFetch(s, t)
        /\ copy' = [copy EXCEPT ![s] = "done"]
        /\ pending' = [pending EXCEPT ![t] = @ - 1]
        /\ IF pending[t] = 1
             THEN RunInline(w, i + 1) /\ UNCHANGED idx
             ELSE idx' = [idx EXCEPT ![w] = i + 1] /\ UNCHANGED <<pc, back>>
  /\ UNCHANGED <<ready, created, wf, exec, validSelf, liveChildren, removal,
                 blocked, hist, wt>>

(* The end of the root-step loop; the fetches are issued next.            *)
StartLoopEnd(w) ==
  /\ pc[w] = "start" /\ idx[w] > Len(RootSteps(wt[w]))
  /\ Goto(w, "fetch")
  /\ UNCHANGED <<ready, created, wf, copy, pending, exec, validSelf,
                 liveChildren, removal, blocked, hist, wt, idx, back>>

(* ClusterManager::fetchVector for one source's group, in map order (any  *)
(* order here); when no group is left, start() and executeTask return.    *)
Grouped(t, src) == {a \in ToSet(AccessesOf[t]) : copy[a] = "grouped" /\ Location[a] = src}

(* Mutant: start() returns after the first group's fetchVector.          *)
FetchGroupFirstOnly(w) ==
  LET t == wt[w] IN
  /\ pc[w] = "fetch"
  /\ \/ \E src \in Places :
          /\ Grouped(t, src) # {}
          /\ copy' = [a \in Accesses |-> IF a \in Grouped(t, src) THEN "fetching" ELSE copy[a]]
     \/ /\ \A src \in Places : Grouped(t, src) = {}
        /\ UNCHANGED copy
  /\ Goto(w, "idle")
  /\ wt' = [wt EXCEPT ![w] = None]
  /\ UNCHANGED <<ready, created, wf, pending, exec, validSelf, liveChildren,
                 removal, blocked, hist, idx, back>>

FetchGroup(w) ==
  LET t == wt[w] IN
  /\ pc[w] = "fetch"
  /\ \/ \E src \in Places :
          /\ Grouped(t, src) # {}
          /\ copy' = [a \in Accesses |-> IF a \in Grouped(t, src) THEN "fetching" ELSE copy[a]]
          /\ UNCHANGED <<pc, wt>>
     \/ /\ \A src \in Places : Grouped(t, src) = {}
        /\ Goto(w, "idle")
        /\ wt' = [wt EXCEPT ![w] = None]
        /\ UNCHANGED copy
  /\ UNCHANGED <<ready, created, wf, pending, exec, validSelf, liveChildren,
                 removal, blocked, hist, idx, back>>

(* The data-transfer polling service completes the transfer of copy step  *)
(* a and releases its successor.  When that was the execution step's last *)
(* predecessor, the step starts on the polling thread, which is not a     *)
(* worker running the task: HostExecutionStep::start records itself as    *)
(* the task's execution step and adds the task to the scheduler.          *)
TransferComplete(a) ==
  LET t == TaskOf(a) IN
  /\ copy[a] = "fetching"
  /\ copy' = [copy EXCEPT ![a] = "done"]
  /\ pending' = [pending EXCEPT ![t] = @ - 1]
  /\ IF pending[t] = 1
       THEN /\ exec' = [exec EXCEPT ![t] = "queued"]
            /\ ready' = ready \cup {t}
       ELSE UNCHANGED <<exec, ready>>
  /\ UNCHANGED <<created, wf, validSelf, liveChildren, removal, blocked, hist,
                 pc, wt, idx, back>>

(* The execution step runs the body (creating the task's children), then  *)
(* the release step starts and starts the notification step.              *)
RunBody(w) ==
  LET t == wt[w] IN
  /\ pc[w] = "body"
  /\ exec' = [exec EXCEPT ![t] = "done"]
  /\ created' = created \cup Children(t)
  /\ ready' = ready \cup Children(t)
  /\ liveChildren' = [liveChildren EXCEPT ![t] = Cardinality(Children(t))]
  /\ removal' = [removal EXCEPT ![t] = @ + Cardinality(Children(t))]
  /\ hist' = [hist EXCEPT ![t] = Append(@, "body")]
  /\ Goto(w, "notify")
  /\ UNCHANGED <<wf, copy, pending, validSelf, blocked, wt, idx, back>>

(* Control returns from the inline body to where start() was called.      *)
Return(w) ==
  IF back[w] = 0
    THEN Goto(w, "idle") /\ wt' = [wt EXCEPT ![w] = None] /\ idx' = idx
    ELSE Goto(w, "start") /\ idx' = [idx EXCEPT ![w] = back[w]] /\ wt' = wt

(* Mutant: a task that must wait for its children still goes on to      *)
(* unregister its accesses, as if the markAsFinished test were missing.   *)
NotifyFinishNoWait(w) ==
  LET t == wt[w] IN
  /\ pc[w] = "notify"
  /\ hist' = [hist EXCEPT ![t] = Append(@, "finished")]
  /\ blocked' = [blocked EXCEPT ![t] = t \in WaitClause /\ liveChildren[t] > 0]
  /\ Goto(w, "unregister")
  /\ UNCHANGED <<wf, wt, idx, ready, created, copy, pending, exec, validSelf,
                 liveChildren, removal, back>>

(* Mutant: markAsFinished never delays the release of a task with a wait *)
(* clause.                                                                *)
NotifyFinishNeverWaits(w) ==
  LET t == wt[w] IN
  /\ pc[w] = "notify"
  /\ hist' = [hist EXCEPT ![t] = Append(@, "finished")]
  /\ Goto(w, "unregister")
  /\ UNCHANGED <<blocked, wf, wt, idx, ready, created, copy, pending, exec,
                 validSelf, liveChildren, removal, back>>

(* The notification callback: unregisterLocallyPropagatedTaskDataAccesses *)
(* then markAsFinished, which is false for a task with a wait clause and  *)
(* live children; in that case the callback ends with delete workflow.    *)
NotifyFinish(w) ==
  LET t == wt[w] IN
  /\ pc[w] = "notify"
  /\ hist' = [hist EXCEPT ![t] = Append(@, "finished")]
  /\ IF t \in WaitClause /\ liveChildren[t] > 0
       THEN /\ blocked' = [blocked EXCEPT ![t] = TRUE]
            /\ wf' = [wf EXCEPT ![t] = "deleted"]
            /\ Return(w)
       ELSE /\ Goto(w, "unregister")
            /\ UNCHANGED <<blocked, wf, wt, idx>>
  /\ UNCHANGED <<ready, created, copy, pending, exec, validSelf, liveChildren,
                 removal, back>>

(* markAsFinished returned true: unregisterTaskDataAccesses calls the     *)
(* finaliser, whose first call is taskFinished.                            *)
NotifyRelease(w) ==
  LET t == wt[w] IN
  /\ pc[w] = "unregister"
  /\ TaskFinished(t)
  /\ Goto(w, "release")
  /\ UNCHANGED <<created, wf, copy, pending, exec, validSelf, removal, blocked,
                 wt, idx, back>>

(* markAsReleased and disposeTask, then delete workflow.                  *)
NotifyDispose(w) ==
  LET t == wt[w] IN
  /\ pc[w] = "release"
  /\ MarkAsReleased(t)
  /\ wf' = [wf EXCEPT ![t] = "deleted"]
  /\ Return(w)
  /\ UNCHANGED <<ready, created, copy, pending, exec, validSelf, liveChildren,
                 blocked, back>>
-----------------------------------------------------------------------------
WorkerStep(w) ==
  \/ \E t \in Tasks : ExecuteTaskCreate(w, t) \/ ExecuteTaskStep(w, t)
                      \/ ExecuteTaskResume(w, t)
  \/ StartRoot(w) \/ StartLoopEnd(w) \/ FetchGroup(w)
  \/ RunBody(w) \/ NotifyFinish(w) \/ NotifyRelease(w) \/ NotifyDispose(w)
  \/ WaitResume(w) \/ WaitResumeRelease(w)

PollerStep == \E a \in Accesses : TransferComplete(a)

Next == (\E w \in Workers : WorkerStep(w)) \/ PollerStep

(* Every worker keeps running the loop of WorkerThread::body while the    *)
(* runtime is up, and the polling service is called periodically.         *)
Fairness == (\A w \in Workers : WF_vars(WorkerStep(w))) /\ WF_vars(PollerStep)

Spec == Init /\ [][Next]_vars /\ Fairness

-----------------------------------------------------------------------------
Lifecycle == <<"body", "finished", "taskFinished", "released", "disposed">>
Has(t, e) == \E i \in 1..Len(hist[t]) : hist[t][i] = e

TypeOK ==
  /\ ready \subseteq created /\ created \subseteq Tasks
  /\ wf \in [Tasks -> {"none", "live", "deleted"}]
  /\ copy \in [Accesses -> {"none", "created", "grouped", "fetching", "done"}]
  /\ pending \in [Tasks -> 0..Cardinality(Accesses)]
  /\ exec \in [Tasks -> {"none", "waiting", "queued", "done"}]
  /\ validSelf \subseteq Accesses
  /\ liveChildren \in [Tasks -> 0..Cardinality(Tasks)]
  /\ removal \in [Tasks -> 0..Cardinality(Tasks)]
  /\ blocked \in [Tasks -> BOOLEAN]
  /\ pc \in [Workers -> {"idle", "start", "fetch", "body", "notify", "unregister",
                           "release", "resume", "resumeRelease"}]
  /\ wt \in [Workers -> Tasks \cup {None}]

(* Each task's lifecycle events happen at most once each and in the order *)
(* body, markAsFinished, taskFinished, markAsReleased, disposeTask, and a *)
(* task is disposed of only after all of its children are: the order the *)
(* notification callback, the wait-clause re-entry of executeTask and the *)
(* walk up of disposeTask must keep between them.                         *)
LifecycleOrder ==
  \A t \in Tasks :
    /\ IsPrefix(hist[t], Lifecycle)
    /\ Has(t, "disposed") => \A c \in Children(t) : Has(c, "disposed")

(* The body runs only once every copy step of the task has completed,     *)
(* whether they completed inline in start() or on the polling thread.     *)
BodyAfterCopies ==
  \A t \in Tasks : Has(t, "body") =>
    \A a \in ToSet(AccessesOf[t]) : copy[a] = "done"

(* No worker touches a deleted workflow: the root-step loop of start()    *)
(* and the steps run from it only run while the workflow is alive, even   *)
(* when the body run inline from the loop has deleted it, and the only    *)
(* executeTask that meets a deleted workflow is the return from a wait    *)
(* clause (the assert on mustDelayRelease), after the last child finished.*)
NoUseOfDeletedWorkflow ==
  \A w \in Workers :
    /\ pc[w] \in {"body", "notify", "unregister", "release"} => wf[wt[w]] = "live"
    /\ pc[w] = "start" /\ idx[w] <= Len(RootSteps(wt[w])) => wf[wt[w]] = "live"
    /\ pc[w] = "resume" => /\ wt[w] \in WaitClause /\ blocked[wt[w]]
                           /\ liveChildren[wt[w]] = 0

(* Every task that is submitted is eventually disposed of.                *)
AllDisposed == <>(\A t \in Tasks : Has(t, "disposed"))

(* The task status the lifecycle specification sees, read off the events *)
(* the workflow has produced.                                              *)
AbstractStatus ==
  [t \in Tasks |->
     IF Has(t, "disposed") THEN "disposed"
     ELSE IF Has(t, "released") THEN "released"
     ELSE IF Has(t, "finished") THEN "finished"
     ELSE IF Has(t, "body") THEN "ran"
     ELSE IF t \in created THEN "ready" ELSE "none"]

TaskLC == INSTANCE TaskLifecycle WITH status <- AbstractStatus

(* The workflow implements the task lifecycle: each step of executeTask,   *)
(* start(), the transfer poller and the notification callback is a step of *)
(* the lifecycle or leaves it unchanged; in particular a task with a wait  *)
(* clause is released only after all of its children have called          *)
(* taskFinished, and disposal walks up only through released parents.     *)
ImplementsLifecycle == TaskLC!Spec
====
