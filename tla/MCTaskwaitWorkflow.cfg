CONSTANTS
  f1 = f1  f2 = f2  f3 = f3  f4 = f4
  local = local  n1 = n1  dir = dir
  w1 = w1  w2 = w2
  None = None  NullPlace = NullPlace
  Fragments <- MCFragments
  FragType <- MCFragType
  FragLocation <- MCFragLocation
  OutputLocation <- MCOutputLocation
  Places <- MCPlaces
  PlaceType <- MCPlaceType
  Directory = dir
  CurrentNode = local
  InClusterMode = TRUE
  Workers <- MCWorkers
SPECIFICATION Spec
INVARIANT ReleasedOnceAfterCopy
PROPERTY TaskwaitEnds
CHECK_DEADLOCK FALSE
