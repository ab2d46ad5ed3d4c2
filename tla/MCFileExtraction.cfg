CONSTANTS
  Bytes <- MCBytes
  MaxBytes = 6
  MaxEntries = 2
  MaxSecond = 1
  Files = {a}
  Elsewhere = Elsewhere
  Contents <- MCContents
  Others <- MCOthers
  SourceLimit = 2
  MaxWrites = 2
  Nothing = Nothing
  Faults = {"reply", "crash", "cache"}
SPECIFICATION FairSpec
INVARIANTS ExtractionSound CacheSound
PROPERTIES DiscoveredContent Ends
CHECK_DEADLOCK FALSE
