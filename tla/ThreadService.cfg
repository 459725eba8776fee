SPECIFICATION FairSpec
CONSTANTS
  t1 = t1
  t2 = t2
  Task <- MCTask
  Thread = {"a", "b"}
  None = None
INVARIANTS
  AtMostOnce
  OwnedAreListed
  HeldIsOwned
  ProgressIsHeld
PROPERTIES
  MainReturns
  Served
CHECK_DEADLOCK FALSE
