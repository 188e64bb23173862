SPECIFICATION Spec
CONSTANTS
  j1 = j1
  j2 = j2
  j3 = j3
  Jobs = {j1, j2}
  Own = {j1, j2}
  Calls = {c1, c2}
  MaxAttempts = 2
  MaxQueue = 1
  MaxPrompts = 1
  MaxLeases = 1
INVARIANTS InjectedOnce  LoopWorks
PROPERTIES HeldBack ShownNotInjected
CHECK_DEADLOCK FALSE
SYMMETRY Symmetry
