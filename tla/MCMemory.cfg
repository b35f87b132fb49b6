\* Three processes without an mmap area fit, or two with one; an mmap of 30
\* pages never fits, and pmm_alloc panics.
CONSTANTS
  sh = sh
  a = a
  b = b
  None = None
  Procs <- MCProcs
  Shell = sh
  NPages = 23
  Reserved = {0}
  TableSize = 4
  Images <- MCImages
  STACK = 6
  MMAP_BASE = 7
  TRAMPOLINE = 32
  Lengths = {0, 1, 2, 30}
  MaxKernel = 1
VIEW MCView
SPECIFICATION Spec
INVARIANTS TypeOK OneOwner NothingLost MmapAreaExact
CHECK_DEADLOCK FALSE
