SPECIFICATION SsSpec
CONSTANTS
  Builtins = {0, 2}
  Pluggables = {1}
  Kinds <- MCOneKind
  MaxSwitches = 2
  MaxPowerCalls = 2
  MaxPlugs = 1
  MaxFaults = 0
INVARIANTS
  NoNullMapInfo
CHECK_DEADLOCK FALSE
