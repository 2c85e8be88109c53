SPECIFICATION FairSpec
CONSTANTS
  Jobs <- Jobs2
  MaxAttempts = 2
  MaxCleanups = 2
  MaxFaults = 0
  MaxGlitches = 0
  MaxCommands = 2
  PlayerWrites = FALSE
PROPERTY JoinReconnects
CHECK_DEADLOCK FALSE
