SPECIFICATION Spec
CONSTANTS
  Threads = {t1}
  MaxCalls = 1
  Functions <- MCFunctions
  Stranger = Stranger
  None = None
  SocketBuffer = 1
  Backlog = 1
  Faults = {}
  MaxFaults = 0
INVARIANT ArgumentsDeleted
CHECK_DEADLOCK FALSE
