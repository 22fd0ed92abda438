CONSTANTS
  Magnitudes <- MCMagnitudes
  One = 256
  Epsilon = 16
  MinNormal = 16
  HalfPi = 1617
  SinhBeyond = 2560
  TanhBeyond = 2048
  Library = "apmathlib"
  CoreMathLog = TRUE
  Builds = {TRUE, FALSE}
  Starts <- MCStarts
  Others <- MCOthers
SPECIFICATION Spec
INVARIANTS
  RangesAreNear WavesAreNear ToldIntegersAreExact ReversesKeepSolutions
CHECK_DEADLOCK FALSE
