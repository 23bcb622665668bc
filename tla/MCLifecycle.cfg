SPECIFICATION FairSpec
CONSTANTS
  Threads = {t1, t2}
  None = None
  MaxInits = 2
  MaxCalls = 2
  MaxFaults = 1
INVARIANTS LifecycleInv GoodbyeOnce ExitWaitsForCalls
PROPERTIES ExitCompletes SessionsEnd
CHECK_DEADLOCK FALSE
