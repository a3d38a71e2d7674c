CONSTANTS
  MaxPid = 3
  MaxChildren = 2
  ReapBeforeExit = TRUE
  ExitCodes <- MCExitCodes
SPECIFICATION Spec
INVARIANTS
  WaitCollectsDead
CHECK_DEADLOCK FALSE
