--------------------------- MODULE TaskLifecycle ---------------------------
(***************************************************************************)
(* What the runtime promises about one task's life, whatever the workflow, *)
(* the transfers and the threads do: a submitted task runs its body once   *)
(* (creating its children), finishes, is released and is disposed of, in  *)
(* that order; a task with a wait clause is released only after every one  *)
(* of its children has finished (the wait-clause scenario of the design   *)
(* document: T completes after its child finishes; a child may still be   *)
(* releasing itself); and a task is disposed of only                       *)
(* after it is released and all of its children are disposed of.  Several *)
(* tasks may be disposed of in the step that releases one of them (the     *)
(* walk up the parent chain in disposeTask).                               *)
(***************************************************************************)
CONSTANTS Tasks, Parent, WaitClause, None

VARIABLE status   \* per task: "none", "ready", "ran", "finished",
                  \*   "released" or "disposed"

Kids(t) == {c \in Tasks : Parent[c] = t}
Finished == {"finished", "released", "disposed"}

Init == status = [t \in Tasks |-> IF Parent[t] = None THEN "ready" ELSE "none"]

(* The body runs once; its children are submitted.                        *)
Run(t) ==
  /\ status[t] = "ready"
  /\ status' = [u \in Tasks |-> IF u = t THEN "ran"
                               ELSE IF u \in Kids(t) THEN "ready" ELSE status[u]]

Finish(t) ==
  /\ status[t] = "ran"
  /\ status' = [status EXCEPT ![t] = "finished"]

(* t is released, and the tasks in D are disposed of: each of them is     *)
(* released by now and all of its children are disposed of.               *)
Release(t, D) ==
  /\ status[t] = "finished"
  /\ t \in WaitClause => \A c \in Kids(t) : status[c] \in Finished
  /\ status' = [u \in Tasks |-> IF u \in D THEN "disposed"
                               ELSE IF u = t THEN "released" ELSE status[u]]
  /\ \A d \in D : /\ d = t \/ status[d] = "released"
                  /\ \A c \in Kids(d) : status'[c] = "disposed"

Next == \E t \in Tasks : Run(t) \/ Finish(t) \/ \E D \in SUBSET Tasks : Release(t, D)

Spec == Init /\ [][Next]_status
=============================================================================
