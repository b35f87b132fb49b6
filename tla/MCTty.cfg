SPECIFICATION MCSpec
CONSTANTS
  COLS = 4
  ROWS = 3
  TABSTOP = 2
  TERM_STACK_SIZE = 2
  INT_MAX = 15
  KB_BUFFER_SIZE = 3
  Scancodes <- MCScancodes
  SerialChars = {120}
  Output <- MCOutput
  Glyphs = {32, 91, 68}
  ReadSizes = {2}
  MaxLate = 2
INVARIANTS
  TypeOK
  ScreenExact
  EchoColumn
PROPERTIES
  FifoRing
  LineDelivered
CHECK_DEADLOCK FALSE
