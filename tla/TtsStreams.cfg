CONSTANTS
  Streams = {s1, s2}
  Probe = Probe
  MaxStreams = 1
  MaxBuffer = 1
  MaxLevel = 2
  MaxStarts = 3
  MaxText = 1
  MaxAudio = 2
SYMMETRY Symmetry
SPECIFICATION TtsSpec
INVARIANTS TextInOrder FinishedOnce
PROPERTIES OutageCountsOnce
CHECK_DEADLOCK FALSE
