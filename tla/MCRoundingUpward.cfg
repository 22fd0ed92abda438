\* The paths of GAOL, the direction left upward (the default build)
CONSTANTS
  Preserve = FALSE
  Slots <- MCSlots
  Paths <- MCPaths
  Outline <- MCOutline
SPECIFICATION Spec
INVARIANT BoundsRoundedRight
