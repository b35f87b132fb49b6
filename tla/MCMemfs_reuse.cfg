SPECIFICATION Spec
CONSTANTS
  MAX_INODES = 4
  NFILE = 1
  BSIZE = 2
  NDIRECT = 2
  MAXENTS = 4
  Paths <- MCPaths
  Flags <- MCFlags
  MaxCwd = 1
  MaxUse = 4
  MaxOff = 1
  MaxLinks = 2
  MaxDotted = 2
CHECK_DEADLOCK FALSE
INVARIANT FreedIsUnneeded
