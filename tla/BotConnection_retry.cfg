SPECIFICATION FairSpec
CONSTANTS
  Jobs <- Jobs2
  MaxAttempts = 2
  MaxCleanups = 2
  MaxFaults = 4
  MaxGlitches = 1
  MaxCommands = 4
  PlayerWrites = TRUE
INVARIANTS TypeOK NothingAhead LiveAsShown RoundEnds
PROPERTY Settles
CHECK_DEADLOCK FALSE
