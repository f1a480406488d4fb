SPECIFICATION Spec
CONSTANTS
  Requests = {r1, r2, r3}
  Buffers = {b1, b2}
  Tasks = {t1, t2}
  NoTask = none
  MaxSpurious = 1
INVARIANTS
  CallbacksInOrder
  TaskIsInStep
  ReportFindsItsNode
PROPERTIES
  AcceptedIsDelivered
CHECK_DEADLOCK FALSE
