SPECIFICATION FairSpec
CONSTANTS
  NoTrack = NoTrack
  Station = Station
  HistoryLimit = 2
  MaxTracks = 3
  MaxCommands = 6
INVARIANTS TypeOK OneDecoder StatusIsHeard PauseIsAPause PlaysCurrent
PROPERTIES NothingWaits QueueEnds
CHECK_DEADLOCK FALSE
