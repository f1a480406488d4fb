SPECIFICATION Spec
CONSTANTS
  Clients = {composer, binder}
  Owner = owner
  Worker = worker
  NoThread = none
  MaxFrames = 3
  MaxOps = 3
  MaxSpurious = 2
INVARIANTS
  LockImpliesNoFrameInFlight
  AsyncCommitUsesNoCallerStack
  OneWaiterOnWorkerCv
PROPERTIES
  EveryCallReturns
  PipelineSpec
