\* The proved bounds of all the roots, and the bounds of the three libraries in both builds
CONSTANTS
  Magnitudes <- MCMagnitudes
  Degrees <- MCDegrees
  Functions <- MCFunctions
  Values <- MCValues
  PowerUp <- ipow_hi
  PowerDown <- ipow_lo
  One = 16
  Epsilon = 4
  MinNormal = 4
  SearchLimit = 8
SPECIFICATION MCFairRun
INVARIANTS
  SearchKeepsItsBracket SearchIsTight SearchIsShort LibraryBoundsAreNear
PROPERTIES
  SearchEnds LibraryLeavesTheDirection
