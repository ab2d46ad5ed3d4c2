CONSTANTS
  f1 = f1  f2 = f2  f3 = f3
  a = a  b = b
  NoFile = NoFile
  Files = {f1, f2, f3}
  Invocations = {a, b}
  PageSize = 1
  MaxFiles = 2
  MaxGeneration = 3
  CatchUpPage = 1
  MaxOverlapped = 2
SPECIFICATION Both
SYMMETRY Symmetry
INVARIANTS TypeOK OneWriter Owned CompletedMeansDone
INVARIANTS AppSound TrueAlone
PROPERTIES IdsStable ResultsImmutable DiscoveryCloses KeepsLedger FinalIsFinal
CHECK_DEADLOCK FALSE
