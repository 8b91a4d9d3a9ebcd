------------------------------ MODULE DataCopy ------------------------------
(***************************************************************************)
(* WorkflowBase::createDataCopyStep (ExecutionWorkflow.cpp): which kind of *)
(* copy step is made for data at one memory place that a task or a         *)
(* taskwait needs at another, and ClusterDataCopyStep::requiresDataFetch,  *)
(* which decides whether start() hands the step to a fetch.  Shared by the *)
(* task workflow (ExecutionWorkflow) and the taskwait workflow             *)
(* (TaskwaitWorkflow).                                                     *)
(***************************************************************************)
CONSTANTS
  Places,         \* memory places
  PlaceType,      \* per place: "host", "cuda", "opencl" or "cluster"
  Directory,      \* the directory memory place
  CurrentNode,    \* ClusterManager::getCurrentMemoryNode()
  InClusterMode,  \* ClusterManager::inClusterMode()
  NullPlace       \* nullptr: the access is not yet read-satisfied

ASSUME /\ Directory \in Places /\ CurrentNode \in Places
       /\ NullPlace \notin Places

(* Access types that never take part in a data copy.                       *)
NoCopyTypes == {"reduction", "commutative", "concurrent"}

(* _transfersMap[source type][target type].                                *)
TransfersMap(src, dst) ==
  IF (src = "host" /\ dst = "cluster") \/ (src = "cluster" /\ dst \in {"host", "cluster"})
    THEN "cluster" ELSE "null"

(* The step createDataCopyStep makes for data of access type ty at src     *)
(* needed at dst: a plain Step for the special access types, a cluster     *)
(* copy for data in the directory in cluster mode, otherwise the table    *)
(* entry, a null source counting as the host.                             *)
CopyStepKind(ty, src, dst) ==
  IF ty \in NoCopyTypes THEN "null"
  ELSE IF src = Directory /\ InClusterMode THEN "cluster"
  ELSE TransfersMap(IF src = NullPlace THEN "host" ELSE PlaceType[src], PlaceType[dst])

(* setValidNamespaceSelf is called when the target is the host or the     *)
(* current memory node, for the accesses that reach that test.            *)
MarksValidSelfAt(ty, dst) ==
  /\ ty \notin NoCopyTypes
  /\ PlaceType[dst] = "host" \/ dst = CurrentNode

(* A cluster copy moves data only from another node: a null source (not   *)
(* read-satisfied) or the directory (uninitialised data) needs none.       *)
NeedsTransfer(src, dst) == src \notin {NullPlace, Directory, dst}
=============================================================================
