SPECIFICATION FairSpec
CONSTANTS
  Threads = {t1, t2}
  MaxCalls = 2
  Functions <- MCFunctions
  Stranger = Stranger
  None = None
  SocketBuffer = 1
  Backlog = 2
  Faults = {}
  MaxFaults = 0
INVARIANT PInv
PROPERTIES CallReturns SentIsExecuted ExitEndsSession
