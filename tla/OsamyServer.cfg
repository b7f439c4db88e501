SPECIFICATION FairSpec
CONSTANTS
  Clients = {c1, c2}
  Timeout = 3
  Drain = 2
  NewGrace = 1
  Holds = {0, 3, 4}
  LongestHold = 3
  Lag = 1
INVARIANTS
  TypeOK
  GraceHonoured
PROPERTIES
  NobodyJoinsTheDrain
  
  StopsAfterSignal
  
CHECK_DEADLOCK FALSE
