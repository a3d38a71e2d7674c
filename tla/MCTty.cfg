CONSTANTS
  MaxPid = 2
  TTY_RING_SIZE = 3
  Char <- MCChar
  NL <- MCNL
  Lens <- MCLens
SPECIFICATION FairSpec
INVARIANTS
  TypeOK
  LineLenExact
  BlockedOnlyInHlt
PROPERTIES
  ImplementsLine
  LineIsDelivered
