CONSTANTS
  MaxPid = 3
  MaxChildren = 1
  ReapBeforeExit = TRUE
  ExitCodes <- MCExitCodes
SPECIFICATION Spec
INVARIANTS
  NeverCrashes
CHECK_DEADLOCK FALSE
