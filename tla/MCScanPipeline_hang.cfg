CONSTANTS
  Files = {"a", "b"}
  NoFile = NoFile
  Cost <- MCCost
  Workers = {w1, w2}
  JobCap = 1
  EventCap = 1
  PageSize = 1
  Window = 2
  BatchMax = 2
  MaxMemory = 4
  Reservation = 2
  HashBuffer = 1
  MaxFiles = 2
  MaxNotices = 0
  MaxEntries = 2
  Requests = {}
  Faults = {"sink"}
SPECIFICATION FairSpec
PROPERTY Returns
CHECK_DEADLOCK FALSE
