SPECIFICATION Spec
CONSTANTS
  MAX_PROCESSES = 5
  MaxPid = 5
  MaxSleep = 2
  WaitTicks = 1
  Signals = {2}
  Dispositions = {0}
  Groups = {0}
  Calls <- LifecycleCalls
CONSTRAINT FewGroups
INVARIANTS
  TypeOK
  CurrentIsLoaded
  PidsNameProcesses
  IdleAlwaysRunnable
  OwnKernelStack
PROPERTIES
  HandsOverToRunnable
CHECK_DEADLOCK FALSE
