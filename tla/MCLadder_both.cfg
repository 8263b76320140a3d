CONSTANTS
  None = None
  CoremarkTarget = 3
  LutTarget = 2
  InitialDesigns <- MCInitial
  Designs <- MCDesigns
SPECIFICATION Spec
INVARIANTS
  NeverRevisits
  BeatsAllFormer
PROPERTIES
  MetStaysMet
CHECK_DEADLOCK FALSE
