SPECIFICATION FairSpec
CONSTANTS
  Threads = {t1}
  MaxCalls = 2
  Functions <- MCFunctions
  Stranger = Stranger
  None = None
  SocketBuffer = 1
  Backlog = 1
  Faults = {"late", "connect", "accept", "close", "reset", "stranger", "silent",
            "servercrash", "clientcrash"}
  MaxFaults = 2
INVARIANTS TypeOK PInv ResponseIsOurs
PROPERTIES ImplementsRemoteCall CallReturns AbandonedSessionEnds
CHECK_DEADLOCK FALSE
