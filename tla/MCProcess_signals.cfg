SPECIFICATION Spec
CONSTANTS
  MAX_PROCESSES = 4
  MaxPid = 3
  MaxSleep = 1
  WaitTicks = 1
  Signals = {2, 17}
  Dispositions = {2}
  Groups = {0}
  Calls <- SignalCalls
INVARIANTS
  SleepHonoured
PROPERTIES
  SignalsNotLost
CHECK_DEADLOCK FALSE
