CONSTANTS
  MaxTurns = 2
  MaxId = 4
  MaxQueue = 2
  MaxPush = 2
  MaxOps = 1
  Closers = {c1}
  WithAudio = TRUE
SPECIFICATION Spec
INVARIANTS WireIsInOrder SessionEndsComplete NoTurnOutlivesClose NoForeignAudioAfterEnd
CHECK_DEADLOCK FALSE
