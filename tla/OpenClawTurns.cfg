CONSTANTS
  Keys = {k1}
  Reqs = {r1, r2}
  Pushes = {p1}
  None = None
  QMax = 1
  MaxWire = 2
VIEW WithoutHistory
SPECIFICATION FairSpec
INVARIANTS KeysAccounted QueuesHold NobodyWaitsInVain
PROPERTIES HandedOver KeysComeBack
CHECK_DEADLOCK FALSE
