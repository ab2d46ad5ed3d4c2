CONSTANTS
  Info = Info
  None = None
  Nobody = Nobody
  r1 = r1
  r2 = r2
  p = p
  q = q
  k1 = k1
  Keys <- MCKeys
  Values <- MCValues
  EventRows = 2
  MaxRevision = 2
  MaxDamage = 1
  PageBytes = 2
  Cases <- MCCases
  Inserts <- MCInserts
  Beginnings <- MCBeginnings
  Queries <- MCQueries
  Limit = 2
  MaxCollected = 3
  MaxEdits = 2
  Actors <- MCActors
  FilePaths <- MCValues
  Signers <- MCSigners
  Inputs <- MCInputs
  MaxRecords = 2
  MaxWrites = 1
  MaxChanges = 2
  MaxOps = 2
  FirstRows <- MCFirstRows
  MoreRows <- MCInserts
  Mimes <- MCMimes
  PageSize = 1
  MaxRevised = 1
  MaxEvents = 3
  Originals <- MCOriginals
  Requests <- MCProfiles
  Absent = Absent
  RootDir = "R"
  Files <- MCFiles
  Trees <- MCTrees
  Policies <- MCOptions
  Replacements <- MCReplacements
  MaxSwaps = 1
  MaxPath = 4
  Forests <- MCForests
  RecursiveLimits <- MCPolicies
  Overhead = 1
  Texts <- MCTexts
  OtherTags <- MCCompanions
  Extracts <- MCRecords
  RecordLimits <- MCRecordLimits
  MaxRuns = 2
  Hasty = {}
SYMMETRY Symmetric
SPECIFICATION Workbench
INVARIANTS CaseSound TreeSound ReadingSound ViewSound TransferSound WalkSound
INVARIANTS RedactionSound ComparisonSound ChunksSound TimesSound ImageSound GeoSound
INVARIANTS JudgementSound ReadingsSound
PROPERTIES NothingReplaced DecisionsKept
CHECK_DEADLOCK FALSE
