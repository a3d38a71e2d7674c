CONSTANTS
  t1 = t1
  t2 = t2
  Thread <- MCOne
  HDR = 2
  PAGE_SIZE = 6
  InitialPages = 2
  MaxPages = 3
  Sizes <- MCSizes
  Preemptible = FALSE
SPECIFICATION Spec
INVARIANTS
  ListTilesHeap
  FreeHeadIsFirst
  Coalesced
PROPERTIES
  OnePageIsEnough
  ImplementsAllocator
CHECK_DEADLOCK FALSE
