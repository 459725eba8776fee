SPECIFICATION FairSpec
CONSTANTS
  s1 = s1
  s2 = s2
  Schedule <- MCSchedule
  Delays = {2}
  Frames = {1, 2}
INVARIANTS
  TypeOK
  ToldOnce
  StoppedIsQuiet
PROPERTIES
  EventEnds
CHECK_DEADLOCK FALSE
