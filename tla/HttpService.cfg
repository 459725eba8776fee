SPECIFICATION FairSpec
CONSTANTS
  r1 = r1
  r2 = r2
  r3 = r3
  Request <- MCRequest
  Slots = 2
INVARIANTS
  ListedAreOwed
  CancelledIsSettled
PROPERTIES
  Answered
