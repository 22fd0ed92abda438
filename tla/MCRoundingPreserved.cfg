\* The paths of GAOL, the direction restored (GAOL_PRESERVE_ROUNDING)
CONSTANTS
  Preserve = TRUE
  Slots <- MCSlots
  Paths <- MCPaths
  Outline <- MCOutline
SPECIFICATION Spec
INVARIANTS BoundsRoundedRight DirectionContract IInv
PROPERTY ImplementsContract
