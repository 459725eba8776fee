SPECIFICATION FairSpec
CONSTANTS
  t1 = t1
  t2 = t2
  Task <- MCTask
  NoTask = NoTask
INVARIANTS
  FaithfulResult
  ReleasedAccounted
PROPERTIES
  LifecycleSpec
  RunIsReleased
CHECK_DEADLOCK FALSE
