SPECIFICATION JobFairSpec
CONSTANTS
  w1 = w1
  w2 = w2
  w3 = w3
  N = 2
  JobWorker <- MCWorker
  NoWorker = NoWorker
INVARIANTS
  DoneOnce
  NoWorkAfterDone
PROPERTIES
  EndIsTold
CHECK_DEADLOCK FALSE
