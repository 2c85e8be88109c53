SPECIFICATION FairSpec
CONSTANTS
  Pairs = {p1}
  Ids = {i1, i2}
  Posts = {a}
  Revokes = {r}
  Job = job
  NoOne = NoOne
  ByHand = ByHand
  Stray = Stray
  MaxSpan = 2
  MaxFaults = 1
INVARIANTS TempInv NobodyForgotten
PROPERTIES EndedStaysEnded OverdueEnds
