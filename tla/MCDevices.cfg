CONSTANTS
  PIT_HZ = 2
  BLINK = 3
  MaxTicks = 6
  BootTimes <- MCBootTimes
  console_cols = 3
  console_rows = 2
  Glyph = {"a"}
  Blank = "blank"
  KEYBOARD_BUF_SIZE = 2
  CharKey = {"A"}
  DeadKey = {"ESC"}
  MaxWire = 3
  MaxHeld = 3
  WIDTH = 4
  HEIGHT = 3
  Packet <- MCPacket
  NULL = NULL
  MaxObuf = 3
  WORD = 32
  TMP = 4
  TMP_F = 11
  Directive <- MCDirective
  Chars = {"q"}
  Sizes = {0, 1, 5, 12}
  MaxChars = 2
  MaxDirectives = 1
  MemSize = 4
  Byte = {"NUL", "a", "b"}
  NUL = "NUL"
  MAX_ARGS = 2
  MAX_PATH = 3
  STACK_PAGE = 14
  WORD_SIZE = 2
  STACK_BASE = 100
  Given <- MCGiven
SPECIFICATION Spec
INVARIANTS
  KeepsTime
  NothingBehindCursor
  ModsAreHeld
  FollowsPackets
  PollsAreAnswered
  FormatsAsSpecified
  CopiesAsIfAtOnce
  ArgumentsArrive
PROPERTIES
  FaultsOnlyOnEarlyKeys
  EntryFrameLostOnlyAtHandover
CHECK_DEADLOCK FALSE
