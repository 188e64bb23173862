SPECIFICATION FairSpec
CONSTANTS
  j1 = j1
  j2 = j2
  j3 = j3
  Jobs = {j1}
  Own = {j1}
  Calls = {c1}
  MaxAttempts = 2
  MaxQueue = 1
  MaxPrompts = 1
  MaxLeases = 0
PROPERTIES ResultArrives
CHECK_DEADLOCK FALSE
