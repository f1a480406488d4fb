SPECIFICATION HsSpec
CONSTANTS
  Waiters = {partial_update, trusted_ui}
  MaxFrames = 3
  MaxCalls = 2
  MaxSpurious = 1
  Builtins = {0}
  Pluggables = {1}
  Kinds <- MCKinds
  MaxSwitches = 3
  MaxPowerCalls = 3
  MaxPlugs = 2
  MaxFaults = 1
INVARIANTS
  NoForgottenWaiter
PROPERTIES
  NoTransitionalSnapshot
  EveryWaitReturns
  ComesBackAfterSession
  PendingIsRestored
CHECK_DEADLOCK FALSE
