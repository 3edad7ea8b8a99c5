CONSTANTS
  Sessions = {s1, s2}
  Permits = 1
  MaxFrames = 3
  MaxFaults = 1
SYMMETRY Symmetry
SPECIFICATION Spec
INVARIANTS PermitsHold HealthIsHonest EndIsComing
CHECK_DEADLOCK FALSE
