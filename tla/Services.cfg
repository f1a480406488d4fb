SPECIFICATION Spec
CONSTANTS
  Displays = {0, 1}
  Async = {1}
  MaxClients = 2
  MaxReports = 3
  MaxTasks = 3
  Frames = {1, 2}
  RingSize = 2
  MaxTime = 4
  MaxStarts = 2
  MaxEvents = 4
  Groups = {"fhd", "qhd"}
  Rates = {60, 120}
  FramesToDefer = 2
  CanIdle = TRUE
  MaxCalls = 2
  MaxOverrides = 1
  MaxFailures = 1
INVARIANTS
  NoLateUse
  CallsAreComplete
  ViewsAgree
PROPERTIES
  EveryCallReturns
  QueuesAreWorkedOff
CHECK_DEADLOCK FALSE
