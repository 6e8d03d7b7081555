SPECIFICATION Spec
CONSTANTS
  MaxWorkers = 3
  Owners = {"usm", "zimg"}
INVARIANTS
  TypeOK
  ReleasedOnce
  LiveThreadsOwnStorage
  WholeFrameWritten
  RetiredPoolIsIdle

