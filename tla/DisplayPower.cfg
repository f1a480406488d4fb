SPECIFICATION Spec
CONSTANTS
  Kinds <- ThreeKinds
  MaxCalls = 5
  MaxSessions = 2
INVARIANTS
  PendingIsKept
  IdleIsResumed
  OffVideoIsNotDrawn
  PanelFollowsOnOff
PROPERTIES
  PendingIsDone
  VmKeepsVideoPanel
CHECK_DEADLOCK FALSE
