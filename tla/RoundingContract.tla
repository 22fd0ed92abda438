-------------------------- MODULE RoundingContract --------------------------
(***************************************************************************)
(* What GAOL promises the code that calls it about the rounding direction  *)
(* (doc/using.md, "The rounding direction"): an operation is one step,     *)
(* which leaves the direction as it found it, or upward in both registers, *)
(* and as it found it when the library is built with                       *)
(* GAOL_PRESERVE_ROUNDING; and no result of an operation is ever rounded   *)
(* the wrong way.                                                          *)
(***************************************************************************)
CONSTANTS Preserve, Directions, Upward

VARIABLES direction, sound

vars == <<direction, sound>>

Init == direction \in Directions /\ sound = TRUE

CallerSets == direction' \in Directions /\ UNCHANGED sound

Operation ==
  /\ direction' \in IF Preserve THEN {direction} ELSE {direction, Upward}
  /\ UNCHANGED sound

Next == CallerSets \/ Operation

Spec == Init /\ [][Next]_vars
=============================================================================
