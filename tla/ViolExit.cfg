SPECIFICATION FairSpec
CONSTANTS
  Threads = {t1}
  MaxCalls = 1
  Functions <- MCFunctions
  Stranger = Stranger
  None = None
  SocketBuffer = 1
  Backlog = 1
  Faults = {"reset"}
  MaxFaults = 1
PROPERTY ExitCompletes
CHECK_DEADLOCK FALSE
