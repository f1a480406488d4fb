SPECIFICATION AcSpec
CONSTANTS
  Groups = {"fhd", "qhd"}
  Rates = {60, 90, 120}
  FramesToDefer = 2
  CanIdle = FALSE
  MaxCalls = 2
  MaxOverrides = 0
  MaxFailures = 0
INVARIANT LatestRequestWins
CHECK_DEADLOCK FALSE
