SPECIFICATION Spec
CONSTANTS
  Calls = {c1, c2}
  Recoverers = {r1}
  Answers = {yes, no}
  NoAnswer = NoAnswer
  MaxGates = 1
  MaxStarts = 2
  MaxFaults = 2
  RecoveryLimit = 2
INVARIANTS ContinuedIsDurable OneAnswer AckOnce NotOfferedAgain AdvanceOnce
PROPERTIES KeepsContract
CHECK_DEADLOCK FALSE
SYMMETRY Symmetry
