SPECIFICATION Spec
CONSTANTS
  x = x
  y = y
  x1 = x1
  x2 = x2
  y1 = y1
  g = g
  Owners = {x, y}
  Threads = {x1, x2, y1}
  OwnerOf <- ThreeThreads
  Gcs = {g}
  NoThread = NoThread
  NoLease = NoLease
  Ttl = 1
  MaxTime = 1
  MaxCalls = 4
CHECK_DEADLOCK FALSE
INVARIANTS
  LockedView
PROPERTIES
  LeaseSpec
  LiveLeaseKept
