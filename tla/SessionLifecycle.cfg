CONSTANTS
  Sessions = {s1, s2}
  None = None
  MaxCauses = 2
SPECIFICATION FairSpec
INVARIANTS NewestIsReachable SessionsSettle ErrorsAreNotHidden
PROPERTIES SessionsEnd
CHECK_DEADLOCK FALSE
