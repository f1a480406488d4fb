SPECIFICATION Spec
CONSTANTS
  Displays <- MCDisplays
  Boot = {1}
  Slots = {1, 2}
  BwCheck = TRUE
  MaxChanges = 2
  MaxRegisters = 2
  MaxOthers = 1
INVARIANTS
  ViewIsTrue
  OneSlotPerDisplay
  NoPluggableInTUI
  PutOffIsTakenUp
PROPERTIES
  Converges
CHECK_DEADLOCK FALSE
