\* Pages of four bytes, words of six bits.  The kernel ends inside page 1; pages
\* 2, 3 and 7, 8 can be handed out, and page 5, which the region at 84 is taken
\* for; page 9 is free but beyond the limit.
CONSTANTS
  PAGE_SIZE = 4
  MAX_PAGES = 10
  Word = 64
  Total = 9
  LOW = 4
  KernelEnd = 7
  Regions <- MCRegions
  RunLengths = {0, 1, 2, 3, 10}
SPECIFICATION FairSpec
INVARIANTS HeldIsMarked RamOnly
PROPERTIES ImplementsPool CallsEnd
CHECK_DEADLOCK FALSE
