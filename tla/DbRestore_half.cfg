SPECIFICATION Spec
CONSTANTS
  scheduled = scheduled  manual = manual  free = free
  Names = {scheduled, manual, free}
  Scheduled = {scheduled}
  NoName = "no name"
  SkipAllowed = FALSE
  MaxWork = 1
  MaxCrashes = 1
INVARIANTS HalfRestoreGoesBack
