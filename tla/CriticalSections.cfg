SPECIFICATION FairSpec
CONSTANTS
  Thread = {t1, t2, t3}
  Address = {a1, a2}
  MaxMutex = 4
  MaxDepth = 2
  NoThread = NoThread
INVARIANT MutualExclusion
INVARIANT HandleIsCurrent
PROPERTY SectionsRefineLocks
PROPERTY WaiterGoesOn
CHECK_DEADLOCK FALSE
