SPECIFICATION FairSpec
CONSTANTS
  scheduled = scheduled  manual = manual  free = free
  Names = {scheduled, free}
  Scheduled = {scheduled}
  NoName = "no name"
  SkipAllowed = TRUE
  MaxWork = 1
  MaxCrashes = 1
INVARIANTS NeverAMix
PROPERTIES RestoreIsDecided
