CONSTANTS
  Flushes = {f1, f2}
  MaxMsgs = 4
SPECIFICATION FairSpec
INVARIANTS CountsAreExact NothingLeftBehind
PROPERTIES EveryFlushEnds IsAClientChannel
CHECK_DEADLOCK FALSE
