SPECIFICATION Spec
CONSTANTS
  Configs = {1, 2}
  MaxLayers = 2
  MaxFrames = 3
  MaxSessions = 3
  Users = {"u1", "u2"}
  Handles = {"h1", "h2"}
  Widths = {1, 2, 17, 66, 1026, 2050}
  Heights = {1, 2, 17, 66, 82}
  PageSize = 4096
  GpuAlignment = 32
  Layers = {"l1", "l2"}
  Buffers = {"b1", "b2"}
  MaxEdits = 4
  MaxRefreshes = 1
  MaxFaults = 1
  Planes = {p1, p2}
  LutPlanes = {p1}
  Displays = {d1, d2}
  Fp16Planes = {p2}
  Values = {v1, v2}
  Fp16Values = {f1}
  None = None
  Absent = Absent
SYMMETRY Symmetric
INVARIANTS
  WithinBounds
  OneUserEach
  NothingLeaks
  HeldIsThere
  UsersKeepApart
  CacheIsTrue
  ShowsItsFrame
PROPERTIES
  SkipLosesNothing
  CommitDoesItsPart
  RetainKeepsThePicture
CHECK_DEADLOCK FALSE
