\* Intervals of doubles, of both builds, and of floats; x -= x written with SSE2 only
CONSTANTS
  Magnitudes <- MCMagnitudes
  Exponents <- MCExponents
  One = 2
  Kinds = {TRUE, FALSE}
  Builds = {TRUE, FALSE}
  Aliased = FALSE
  Fine = 4
  Beyond = 100
SPECIFICATION MCSpec
INVARIANTS
  IntervalsAreWellFormed ArithmeticGivesHulls ReversesGiveHulls DivisionKeepsSolutions
  RelationsAreOfReals FunctionsGiveHulls MidpointsAreCentred
  FloatArithmeticIsKept FloatPowersAreKept FloatBoundsAreRead
  PairsAreTwoIntervals PowersOfPairsAreTwoPowers
