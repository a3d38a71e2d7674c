CONSTANTS
  MaxPid = 4
  MaxChildren = 1
  ReapBeforeExit = FALSE
  ExitCodes <- MCExitCodes
SPECIFICATION FairSpec
INVARIANTS
  OneCollector
  WaitCollectsDead
PROPERTIES
  RoundRobin
  ImplementsApi
CHECK_DEADLOCK FALSE
