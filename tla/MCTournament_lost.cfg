CONSTANTS
  None = None
  CoremarkTarget = None
  LutTarget = None
  TournamentSize = 2
  InitialDesigns <- MCInitial
  Designs <- MCFew
  Faults = {"kill"}
  MaxRound = 2
  MaxStarts = 2
SPECIFICATION Spec
INVARIANTS
  OnlyBetterMerges
CHECK_DEADLOCK FALSE
