SPECIFICATION Spec
CONSTANTS
  x = x
  y = y
  Owners <- TwoOwners
  NoLease = NoLease
  NoOwner = NoOwner
  Ttl = 1
  MaxTime = 1
  MaxFrames = 0
  MaxCalls = 1
  MaxFaults = 1
INVARIANTS HolderKeepsLease SocketIsHolders
PROPERTY WriterHolds
CHECK_DEADLOCK FALSE
SYMMETRY Symmetry
