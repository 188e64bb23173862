SPECIFICATION Spec
CONSTANTS
  o1 = o1  o2 = o2  s1 = s1  s2 = s2  s3 = s3
  Owners = {o1, o2}
  Closing = {o1}
  Subagents = {s1, s2, s3}
  OwnerOf <- OwnerOfThree
  Messages = {t1}
  NoMessage = NoMessage
  MaxRunning = 1
  MaxRuns = 2
  MaxLaunches = 4
  MaxLeases = 1
  MaxResumes = 2
SYMMETRY Siblings
INVARIANTS OneRun WithinLimit QueuedHasEntry QueuedWaits GivenIsWanted
PROPERTIES ReplacedWhenStopped FencedStartsNone RefusedForCause
CHECK_DEADLOCK FALSE
