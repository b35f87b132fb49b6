SPECIFICATION Spec
CONSTANTS
  MAX_INODES = 4
  NFILE = 1
  Name = {"a", "b"}
  Paths <- MCPaths
  MaxFid = 5
  MAXREADS = 2
INVARIANTS
  FidDiscipline
  WireExact
PROPERTIES
  NothingLost
  CallsEnd
CHECK_DEADLOCK FALSE
