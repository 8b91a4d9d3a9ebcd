CONSTANTS
  Layouts <- MCLayouts
  PolicyValues = {"fifo", "lifo", "random"}
  BuildDevices <- MCBuildDevices
  BackendSets <- MCBackendSets
SPECIFICATION Spec
INVARIANT FatalConfigurationAborts
CHECK_DEADLOCK FALSE
