SPECIFICATION FairSpec
CONSTANTS
  T = 3
  PacketSize = 2
  K = 1
  Refusals = 3
INVARIANTS
  TypeOK
  KidsAreStable
  NoTaskIsLost
  PacketsHaveSlots
PROPERTIES
  Served
CHECK_DEADLOCK FALSE
