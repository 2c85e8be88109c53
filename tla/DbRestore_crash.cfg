SPECIFICATION Spec
CONSTANTS
  scheduled = scheduled  manual = manual  free = free
  Names = {scheduled, manual, free}
  Scheduled = {scheduled}
  NoName = "no name"
  SkipAllowed = FALSE
  MaxWork = 2
  MaxCrashes = 1
INVARIANTS RestoreInv CurrentStateKept NoOldSessions
PROPERTIES SwitchesAreWhole ComesUpAsAsked ResultIsTrue
SYMMETRY Symmetry
