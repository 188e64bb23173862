SPECIFICATION FairSpec
CONSTANTS
  x = x
  y = y
  Owners <- OneOwner
  NoLease = NoLease
  NoOwner = NoOwner
  Ttl = 1
  MaxTime = 0
  MaxFrames = 2
  MaxCalls = 1
  MaxFaults = 2
INVARIANTS ClosedBeforeHandover FramesPersisted CursorsDistinct
CHECK_DEADLOCK FALSE
PROPERTY StopCompletes
