CONSTANTS
  None = None
  Caller <- MCCaller
  TraceElf = {"selftest", "extra"}
  Seed = {1, 2, 3}
  MinSuccessful = 2
  Freq = {1, 2, 4}
  Nrets <- MCNrets
  Defects = {"timeout", "short", "oob", "uart", "unbracketed"}
SPECIFICATION Spec
INVARIANTS
  ArtifactsAreOwn
  CreditIsEarned
  MedianIsFair
CHECK_DEADLOCK FALSE
