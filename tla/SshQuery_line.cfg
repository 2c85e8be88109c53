SPECIFICATION Spec
CONSTANTS
  Calls = {a, b}
  Whoami = whoami
  Sessions <- ThreeSessions
  None = None
  Failures = 2
  Trails = TRUE
  MaxOwed = 2
  MaxTurns = 1
  MaxFaults = 1
INVARIANTS LineMoves InStep
PROPERTIES IsALine DestroyedIsQuiet
CHECK_DEADLOCK FALSE
