CONSTANTS
  Args = {a1, a2}
  Delays = {1, 2}
  Backlog = 2
  Unset = Unset
  NoArg = NoArg
  MICRO_PER_SEC = 3
  MaxSec = 1
SPECIFICATION Spec
CHECK_DEADLOCK FALSE
INVARIANTS DeadlineIsEarliest RestIsNeverLong
PROPERTIES KeepsPromise ArmedExpires ExpiredIsRun
