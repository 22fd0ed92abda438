\* operator<< left by an exception of the stream, in the default build
CONSTANTS
  Preserve = FALSE
  Slots <- MCSlots
  Paths <- MCThrownPaths
SPECIFICATION Spec
INVARIANT DirectionContract
