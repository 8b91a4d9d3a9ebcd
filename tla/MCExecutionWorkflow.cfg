CONSTANTS
  p = p  c = c  q = q  d = d
  a1 = a1  a2 = a2  a3 = a3  a4 = a4
  local = local  n1 = n1  n2 = n2  dir = dir
  w1 = w1  w2 = w2
  None = None  NullPlace = NullPlace
  Tasks <- MCTasks
  Parent <- MCParent
  WaitClause <- MCWaitClause
  AccessesOf <- MCAccessesOf
  AccessType <- MCAccessType
  Location <- MCLocation
  Target <- MCTarget
  Places <- MCPlaces
  PlaceType <- MCPlaceType
  Directory = dir
  CurrentNode = local
  InClusterMode = TRUE
  Workers <- MCWorkers
SPECIFICATION Spec
INVARIANT TypeOK
INVARIANT LifecycleOrder
INVARIANT BodyAfterCopies
INVARIANT NoUseOfDeletedWorkflow
PROPERTY AllDisposed
PROPERTY ImplementsLifecycle
CHECK_DEADLOCK FALSE
