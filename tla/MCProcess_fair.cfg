SPECIFICATION FairSpec
CONSTANTS
  MAX_PROCESSES = 5
  MaxPid = 5
  MaxSleep = 2
  WaitTicks = 1
  Signals = {2}
  Dispositions = {0}
  Groups = {0}
  Calls <- FairCalls
PROPERTIES
  EveryProcessRuns
  ZombiesAreReaped
CHECK_DEADLOCK FALSE
