CONSTANTS
  Files = {"a", "b"}
  NoFile = NoFile
  Cost <- MCCost
  Workers = {w1, w2}
  JobCap = 1
  EventCap = 1
  PageSize = 1
  Window = 2
  BatchMax = 2
  MaxMemory = 4
  Reservation = 2
  HashBuffer = 1
  MaxFiles = 2
  MaxNotices = 0
  MaxEntries = 2
  Requests = {"deadline"}
  Faults = {"started"}
SPECIFICATION FairSpec
PROPERTIES Returns Completes
CHECK_DEADLOCK FALSE
