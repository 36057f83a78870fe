SPECIFICATION SchedSpec
CONSTANTS
  None = None
  e1 = e1
  e2 = e2
  Events <- MCEvents
  Waits <- MCWaits
  TIME_SLICE = 3
  MIN_EXEC_TIME = 2
  MaxPid = 3
  MaxWaitId = 3
INVARIANTS
  NeverTwice
  NoneLost
  WakeupsPending
PROPERTIES
  ImplementsAbstract
