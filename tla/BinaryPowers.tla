---------------------------- MODULE BinaryPowers ----------------------------
(***************************************************************************)
(* ipow_hi() and ipow_lo() (gaol_interval.cpp): the powers of a double by  *)
(* binary exponentiation, rounded outward.                                 *)
(***************************************************************************)
EXTENDS Doubles

odd(k) == k % 2 = 1

(* The powers of x by binary exponentiation, from y0, the squares rounded   *)
(* upward or downward                                                       *)
Power(y0, x0, e, rounded) ==
  LET power[k \in 1 .. e, y \in Doubles, z \in Doubles] ==
        LET yz == IF odd(k) THEN MulUp(y, z) ELSE y IN
        IF k = 1 THEN yz ELSE power[k \div 2, yz, IF rounded = "up" THEN MulUp(z, z) ELSE Opposite(MulUp(Opposite(z), z))]
  IN power[e, y0, x0]

ipow_hi(v, e) == Power(OfNum(One), v, e, "up")

(* Mutant: the squares rounded upward *)
ipow_loOfSquares(v, e) == Opposite(Power(OfNum(-One), v, e, "up"))

ipow_lo(v, e) == Opposite(Power(OfNum(-One), v, e, "dn"))
=============================================================================
