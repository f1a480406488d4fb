SPECIFICATION Spec
CONSTANTS
  Requests = {r1, r2}
  Buffers = {b1, b2}
  Tasks = {t1}
  NoTask = none
  MaxSpurious = 0
INVARIANT RejectedIsRemoved
SYMMETRY Symmetry
CHECK_DEADLOCK FALSE
