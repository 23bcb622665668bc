SPECIFICATION Spec
CONSTANTS
  Threads = {t1, t2}
  MaxCalls = 2
  Functions <- MCFunctions
  Stranger = Stranger
  None = None
  SocketBuffer = 1
  Backlog = 3
  Faults = {"reset"}
  MaxFaults = 1
SYMMETRY ThreadSymmetry
INVARIANTS IInv ContainmentInv InStep ResponseIsOurs NoEarlyExecution CallsNeverSelfDeadlock GoodbyeAfterAllCalls FailureIsContained
PROPERTY ImplementsRemoteCall
CHECK_DEADLOCK FALSE
