CONSTANTS
  MaxTries = 1
  MaxFaults = 1
  Poll = 2
  Timeout = 2
  MaxStrikes = 2
SPECIFICATION Spec
INVARIANTS NoSocketLeft DropIsKnown
PROPERTIES StrikesAreEarned SttSettles DeafClientIsClosed
CHECK_DEADLOCK FALSE
