CONSTANTS
  MaxPid = 4
  MaxChildren = 2
  ReapBeforeExit = FALSE
  ExitCodes <- MCExitCodes
SPECIFICATION Spec
INVARIANTS
  TypeOK
  OffCpuIsReady
  ListDescends
  WaiterCanBeWoken
  DeadStaysInExit
PROPERTIES
  LosesOnlyTheChild
CHECK_DEADLOCK FALSE
