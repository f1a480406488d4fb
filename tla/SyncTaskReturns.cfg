SPECIFICATION StSpec
CONSTANT MaxTasks = 2
INVARIANT PerformTaskWaits
CHECK_DEADLOCK FALSE
