CONSTANTS
  t1 = t1
  t2 = t2
  Thread <- MCTwo
  HDR = 2
  PAGE_SIZE = 12
  InitialPages = 1
  MaxPages = 1
  Sizes <- MCSmall
  Preemptible = TRUE
SPECIFICATION Spec
PROPERTY ImplementsAllocator
CHECK_DEADLOCK FALSE
