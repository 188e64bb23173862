SPECIFICATION FairSpec
CONSTANTS
  a = a
  b = b
  c = c
  p = p
  q = q
  Callers = {a, b}
  Pids = {p, q}
  PidOf <- Pair
  NoInfo = NoInfo
  Retries = 2
  Stale = 1
  LookupMayFail = TRUE
  MaxTime = 2
  MaxCalls = 2
  MaxStarts = 2
CHECK_DEADLOCK FALSE
PROPERTY CallReturns
