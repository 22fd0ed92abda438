\* The intervals without SSE2, x -= x
CONSTANTS
  Magnitudes <- MCMagnitudes
  Exponents <- MCExponents
  One = 2
  Kinds = {FALSE}
  Builds = {FALSE}
  Aliased = TRUE
  Fine = 4
  Beyond = 100
SPECIFICATION MCSpec
INVARIANT SumsGiveHulls
