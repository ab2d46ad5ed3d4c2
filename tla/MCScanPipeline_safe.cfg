CONSTANTS
  Files = {"a", "b"}
  NoFile = NoFile
  Cost <- MCCost
  Workers = {w1, w2}
  JobCap = 1
  EventCap = 1
  PageSize = 2
  Window = 2
  BatchMax = 2
  MaxMemory = 6
  Reservation = 2
  HashBuffer = 1
  MaxFiles = 2
  MaxNotices = 1
  MaxEntries = 1
  Requests = {"paused", "cancelled"}
  Faults = {"sink", "persist", "started", "producer"}
SPECIFICATION Spec
SYMMETRY Symmetry
INVARIANTS PipelineSound MemoryAccounted
PROPERTIES ShownInOrder FollowsJournal
CHECK_DEADLOCK FALSE
