SPECIFICATION Spec
CONSTANTS
  a = a
  b = b
  c = c
  p = p
  q = q
  Callers = {a, b, c}
  Pids = {p, q}
  PidOf <- Shared
  NoInfo = NoInfo
  Retries = 2
  Stale = 1
  LookupMayFail = FALSE
  MaxTime = 2
  MaxCalls = 3
  MaxStarts = 2
INVARIANTS
  Serialized
  ReleaseSucceeds
  WindowNeedsDeath
  LockInv
PROPERTY LiveOwnerKept
CHECK_DEADLOCK FALSE
