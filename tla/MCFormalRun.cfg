CONSTANTS
  None = None
  Eval = {e1}
  SelfCheck = {c1, c2}
  Pid = {p1, p2}
  Checks = {"reg_ch0", "reg_ch1"}
  Ch1 = {"reg_ch1"}
  MinChecks = 2
  Outcomes = {"pass", "preunsat"}
  Nrets <- MCNrets
  Setups <- MCSetups
  MaxWorkers = 2
SPECIFICATION Spec
INVARIANTS
  LiveDirIsKept
  PassIsOwn
PROPERTIES
  EvalsReturn
CHECK_DEADLOCK FALSE
