SPECIFICATION NotificationSpec
CONSTANTS
  i1 = i1
  i2 = i2
  o1 = o1
  o2 = o2
  Id <- MCId
  Observer <- MCObserver
  MaxDepth = 2
  MaxCallables = 5
SYMMETRY Symmetry
INVARIANTS
  NotificationTypeOK
  LastAddedStays
