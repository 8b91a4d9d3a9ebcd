CONSTANTS
  t1 = t1
  t2 = t2
  t3 = t3
  w = w
  a1 = a1
  NoTask = NoTask
  Tasks <- MCTasks
  Worker = w
  Adders <- MCAdders
  Policy = "fifo"
  PollingIterations = 1
  Thresholds = {0, 1}
  MaxDisables = 0

SPECIFICATION Spec

PROPERTY ReadyTaskEventuallyRuns
