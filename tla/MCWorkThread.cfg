CONSTANTS
  NumThreads = 2
  Fds = {f1, f2}
  Sessions = {s1, s2, s3, s4}
  None = None
  Step = 2
  PipeCap = 3
SPECIFICATION Spec
INVARIANTS OneOwner PoolBounded FdsAccounted ShutdownFreesAll
PROPERTIES AcceptedIsServed ShutdownCompletes
CHECK_DEADLOCK FALSE
