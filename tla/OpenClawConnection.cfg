CONSTANTS
  Tasks = {t1, t2, t3}
  Socks = {s1, s2}
  None = None
  MaxFlaps = 3
  MaxTriggers = 2
SPECIFICATION FairSpec
INVARIANTS NoSocketLost ConnectedIsHeard SomebodyTries NobodyStartsAgain
PROPERTIES Recovers
CHECK_DEADLOCK FALSE
