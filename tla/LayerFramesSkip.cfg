SPECIFICATION LfSpec
CONSTANTS
  Layers = {"l1", "l2"}
  Buffers = {"b1", "b2"}
  MaxEdits = 4
  MaxRefreshes = 1
  MaxFaults = 0
PROPERTIES
  SkipsOnlyRepeats
CHECK_DEADLOCK FALSE
