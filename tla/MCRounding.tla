----------------------------- MODULE MCRounding -----------------------------
(***************************************************************************)
(* Model checking of Rounding on the paths of GAOL.                        *)
(***************************************************************************)
EXTENDS Rounding

G == INSTANCE GaolRounding

MCSlots == G!GaolSlots
MCPaths == G!GaolPaths
MCThrownPaths == G!ThrownPaths
=============================================================================
