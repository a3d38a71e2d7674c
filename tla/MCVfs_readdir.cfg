CONSTANTS
  p1 = p1
  p2 = p2
  f1 = f1
  f2 = f2
  f3 = f3
  f4 = f4
  KERNEL = KERNEL
  NULL = NULL
  Process <- MCProcess
  File <- MCFile
  MAX_FDS = 2
  Mount <- MCMount
  Member <- MCMember
  BLOCK = 2
  NAME_SIZE = 4
  DIGITS = 3
  MAX_NAME = 8
  registry <- MCRegistry
  Path <- MCPath
  Spelling <- MCSpelling
  Lens <- MCLens
  MaxOffset = 2
  WORD = 256
  KERNEL_VIRT_BASE = 192
  UserMapped <- MCUserMapped
  FramePointer = 175
SYMMETRY MCSymmetry
SPECIFICATION Spec
INVARIANT ReaddirReturns
CHECK_DEADLOCK FALSE
