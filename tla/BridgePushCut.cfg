CONSTANTS
  MaxTurns = 1
  MaxId = 4
  MaxQueue = 2
  MaxPush = 2
  MaxOps = 1
  Closers = {c1}
  WithAudio = TRUE
SPECIFICATION Spec
INVARIANT NoAudioAfterEnd
CHECK_DEADLOCK FALSE
