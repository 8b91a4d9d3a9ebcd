CONSTANTS
  t1 = t1
  t2 = t2
  t3 = t3
  w = w
  a1 = a1
  NoTask = NoTask
  Tasks <- MCTasks
  Worker = w
  Adders <- MCAdders
  Policy = "fifo"
  PollingIterations = 1
  Thresholds = {0, 1, 2}
  MaxDisables = 0

SPECIFICATION Spec

INVARIANT TypeOK
INVARIANT TaskConservation
PROPERTY SlotTaskIsTaken
