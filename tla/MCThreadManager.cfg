CONSTANTS
  NCPUs <- MCNCPUs
  TotalThreads <- MCTotalThreads
  Accepting = {1, 2}
  None = None

SPECIFICATION Spec

INVARIANT TypeOK
INVARIANT JoinedExactlyOnce
PROPERTY ShutdownTerminates

CHECK_DEADLOCK FALSE
