SPECIFICATION Spec
CONSTANTS
  Thread = {t1, t2}
  W = 12
  PoolBase = 1
  PoolLimit = 8
  VmBase = 3
  VmLimit = 5
  KernelPage = 6
  ImagePages <- MCImagePages
  PoolRequests = {0, 2, 5, 12}
  VmRequests = {0, 1, 2, 13}
  VmFixed = {4}
  MaxCalls = 4
INVARIANT VmDisjoint
INVARIANT VmStaysCommitted
INVARIANT ReservedCommitted
INVARIANT PoolDisjoint
INVARIANT PoolCommitted
PROPERTY PoolRefinesBlockAllocator
CHECK_DEADLOCK FALSE
