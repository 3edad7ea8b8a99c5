CONSTANTS
  MaxTurns = 1
  MaxId = 2
  MaxQueue = 1
  MaxPush = 1
  MaxOps = 2
  Closers = {c1, c2}
  WithAudio = FALSE
SPECIFICATION FairSpec
PROPERTIES ClosersReturn UserIsServed
CHECK_DEADLOCK FALSE
