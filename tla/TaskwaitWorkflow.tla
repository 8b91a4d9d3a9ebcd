------------------------- MODULE TaskwaitWorkflow -------------------------
(***************************************************************************)
(* setupTaskwaitWorkflow (ExecutionWorkflow.cpp): the mini-workflow that   *)
(* brings the data of one taskwait fragment to its output location before  *)
(* the fragment is released.                                               *)
(*                                                                         *)
(* The dependency system calls setupTaskwaitWorkflow on a worker, inside   *)
(* one of its own calls.  A fragment with no output location is released   *)
(* at once.  Otherwise the workflow has one copy step, rooted, and a       *)
(* notification step after it whose callback releases the fragment and     *)
(* deletes the workflow.  start() either completes the copy inline, and    *)
(* the callback then runs on the worker inside start(), or groups it for   *)
(* fetchVector, and the callback then runs on the data-transfer polling    *)
(* thread when the transfer completes.  The fragment's task leaves its     *)
(* taskwait once all of its fragments are released (handleExitTaskwait,    *)
(* not in the tree).                                                       *)
(***************************************************************************)
EXTENDS Naturals, FiniteSets, DataCopy

CONSTANTS
  Fragments,       \* taskwait fragments (model values)
  FragType,        \* per fragment: the access type of its DataAccess
  FragLocation,    \* per fragment: getLocation(), or NullPlace
  OutputLocation,  \* per fragment: getOutputLocation(), or NullPlace
  Workers,         \* threads the dependency system calls setup on
  None

ASSUME \A f \in Fragments : OutputLocation[f] # Directory

VARIABLES
  setup,     \* fragments setupTaskwaitWorkflow has been called for
  wf,        \* per fragment: its workflow "none", "live" or "deleted"
  copy,      \* per fragment: copy step "none", "created", "grouped",
             \*   "fetching" (handed to fetchVector) or "done"
  releases,  \* per fragment: calls of releaseTaskwaitFragment for it
  exited,    \* the task has left its taskwait
  pc,        \* per worker: "idle", "start" or "fetch"
  fr         \* per worker: the fragment it is setting up

vars == <<setup, wf, copy, releases, exited, pc, fr>>

-----------------------------------------------------------------------------
(* The kind of the copy step created from the fragment's location to its  *)
(* output location, with isTaskwait set.                                   *)
TaskwaitCopyKind(f) ==
  CopyStepKind(FragType[f], FragLocation[f], OutputLocation[f])

(* Mutant: requiresDataFetch treats a taskwait copy like a task's copy:   *)
(* without a transfer it returns false, but it does not release the       *)
(* successors of a taskwait copy.                                         *)
TaskwaitRequiresFetchNoTransfer(f) ==
  NeedsTransfer(FragLocation[f], OutputLocation[f])

(* requiresDataFetch for a taskwait copy: it releases its successors      *)
(* itself only for a copy that needs no transfer and is not a taskwait     *)
(* copy (the comment in start()), so every taskwait cluster copy is        *)
(* grouped and fetched.                                                    *)
TaskwaitRequiresFetch(f) == TRUE

(* The notification callback: releaseTaskwaitFragment with a local         *)
(* CPUDependencyData, then delete workflow.                                *)
Notify(f) ==
  /\ releases' = [releases EXCEPT ![f] = @ + 1]
  /\ wf' = [wf EXCEPT ![f] = "deleted"]

Goto(w, l) == pc' = [pc EXCEPT ![w] = l]

(* setupTaskwaitWorkflow(task, fragment): release at once when there is   *)
(* no output location; otherwise build the workflow and call start().     *)
SetupTaskwaitWorkflow(w, f) ==
  /\ pc[w] = "idle" /\ f \notin setup
  /\ setup' = setup \cup {f}
  /\ IF OutputLocation[f] = NullPlace
       THEN /\ releases' = [releases EXCEPT ![f] = 1]
            /\ UNCHANGED <<wf, copy, pc, fr>>
       ELSE /\ wf' = [wf EXCEPT ![f] = "live"]
            /\ copy' = [copy EXCEPT ![f] = "created"]
            /\ fr' = [fr EXCEPT ![w] = f]
            /\ Goto(w, "start")
            /\ UNCHANGED releases
  /\ UNCHANGED exited

(* Mutant: a cluster copy is grouped for a fetch and also releases the   *)
(* notification step at once.                                             *)
StartCopyNotifyEarly(w) ==
  LET f == fr[w] IN
  /\ pc[w] = "start"
  /\ \/ /\ TaskwaitCopyKind(f) = "null"
        /\ copy' = [copy EXCEPT ![f] = "done"]
        /\ Notify(f)
        /\ Goto(w, "idle")
        /\ fr' = [fr EXCEPT ![w] = None]
     \/ /\ TaskwaitCopyKind(f) = "cluster" /\ TaskwaitRequiresFetch(f)
        /\ copy' = [copy EXCEPT ![f] = "grouped"]
        /\ Notify(f)
        /\ Goto(w, "fetch")
        /\ UNCHANGED fr
  /\ UNCHANGED <<setup, exited>>

(* The root-step loop of start() on the copy step: a plain (null) step     *)
(* completes and starts the notification step inline; a cluster copy that  *)
(* requires a fetch joins its source's group.  A cluster copy for which    *)
(* requiresDataFetch returned false would have released its successors     *)
(* only if it were not a taskwait copy, so nothing would follow it.        *)
StartCopy(w) ==
  LET f == fr[w] IN
  /\ pc[w] = "start"
  /\ \/ /\ TaskwaitCopyKind(f) = "null"
        /\ copy' = [copy EXCEPT ![f] = "done"]
        /\ Notify(f)
        /\ Goto(w, "idle")
        /\ fr' = [fr EXCEPT ![w] = None]
     \/ /\ TaskwaitCopyKind(f) = "cluster" /\ TaskwaitRequiresFetch(f)
        /\ copy' = [copy EXCEPT ![f] = "grouped"]
        /\ Goto(w, "fetch")
        /\ UNCHANGED <<releases, wf, fr>>
  /\ UNCHANGED <<setup, exited>>

(* fetchVector for the group; start() and setup then return.               *)
FetchCopy(w) ==
  LET f == fr[w] IN
  /\ pc[w] = "fetch"
  /\ copy' = [copy EXCEPT ![f] = "fetching"]
  /\ Goto(w, "idle")
  /\ fr' = [fr EXCEPT ![w] = None]
  /\ UNCHANGED <<setup, wf, releases, exited>>

(* The polling thread completes the transfer; the copy step releases the   *)
(* notification step, whose callback runs on the polling thread.           *)
TransferComplete(f) ==
  /\ copy[f] = "fetching"
  /\ copy' = [copy EXCEPT ![f] = "done"]
  /\ Notify(f)
  /\ UNCHANGED <<setup, exited, pc, fr>>

(* The task leaves the taskwait once every fragment has been released.     *)
ExitTaskwait ==
  /\ ~exited
  /\ \A f \in Fragments : releases[f] > 0
  /\ exited' = TRUE
  /\ UNCHANGED <<setup, wf, copy, releases, pc, fr>>

-----------------------------------------------------------------------------
Init ==
  /\ setup = {}
  /\ wf = [f \in Fragments |-> "none"]
  /\ copy = [f \in Fragments |-> "none"]
  /\ releases = [f \in Fragments |-> 0]
  /\ exited = FALSE
  /\ pc = [w \in Workers |-> "idle"]
  /\ fr = [w \in Workers |-> None]

WorkerStep(w) ==
  \/ \E f \in Fragments : SetupTaskwaitWorkflow(w, f)
  \/ StartCopy(w) \/ FetchCopy(w)

PollerStep == \E f \in Fragments : TransferComplete(f)

Next == (\E w \in Workers : WorkerStep(w)) \/ PollerStep \/ ExitTaskwait

(* Workers run to the end of the call they are in; the polling service is *)
(* called periodically; the dependency system sets up every fragment and   *)
(* lets the task go once all are released.                                 *)
Fairness ==
  /\ \A w \in Workers : WF_vars(WorkerStep(w))
  /\ WF_vars(PollerStep) /\ WF_vars(ExitTaskwait)

Spec == Init /\ [][Next]_vars /\ Fairness

-----------------------------------------------------------------------------
(* Properties                                                              *)

TypeOK ==
  /\ setup \subseteq Fragments
  /\ wf \in [Fragments -> {"none", "live", "deleted"}]
  /\ copy \in [Fragments -> {"none", "created", "grouped", "fetching", "done"}]
  /\ releases \in [Fragments -> Nat]
  /\ exited \in BOOLEAN
  /\ pc \in [Workers -> {"idle", "start", "fetch"}]
  /\ fr \in [Workers -> Fragments \cup {None}]

(* Each fragment is released once, and only with its data at its output   *)
(* location: whether the copy completed inline in start() or on the       *)
(* polling thread, the release never precedes it, and its workflow is      *)
(* deleted only by that release.  So the task leaves the taskwait with     *)
(* every fragment's data in place.                                         *)
ReleasedOnceAfterCopy ==
  \A f \in Fragments :
    /\ releases[f] <= 1
    /\ releases[f] = 1 /\ OutputLocation[f] # NullPlace => copy[f] = "done"
    /\ wf[f] = "deleted" <=> (releases[f] = 1 /\ OutputLocation[f] # NullPlace)

(* Every taskwait ends: each fragment's copy, inline or fetched, leads to  *)
(* its release, so the waiting task always leaves the taskwait.            *)
TaskwaitEnds == <>exited
=============================================================================
