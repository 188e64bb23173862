SPECIFICATION FairSpec
CONSTANTS
  j1 = j1
  j2 = j2
  j3 = j3
  Jobs = {j1, j3}
  Own = {j1}
  Calls = {c1}
  MaxAttempts = 2
  MaxQueue = 1
  MaxPrompts = 1
  MaxLeases = 1
PROPERTIES QueueServed
CHECK_DEADLOCK FALSE
