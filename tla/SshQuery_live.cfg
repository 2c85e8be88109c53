SPECIFICATION FairSpec
CONSTANTS
  Calls = {a}
  Whoami = whoami
  Sessions <- ThreeSessions
  None = None
  Failures = 1
  Trails = FALSE
  MaxOwed = 1
  MaxTurns = 1
  MaxFaults = 2
PROPERTIES CallsEnd ComesBack
CHECK_DEADLOCK FALSE
