CONSTANTS
  f1 = f1  f2 = f2
  a = a  b = b
  NoFile = NoFile
  Files = {f1, f2}
  Invocations = {a, b}
  PageSize = 1
  MaxFiles = 2
  MaxGeneration = 3
  CatchUpPage = 1
  MaxOverlapped = 3
SPECIFICATION AppSpec
SYMMETRY Symmetry
INVARIANT LiveScanRuns
CHECK_DEADLOCK FALSE
