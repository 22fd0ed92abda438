----------------------------- MODULE Elementary -----------------------------
(***************************************************************************)
(* The elementary functions of intervals that are monotonic, or so on both *)
(* sides of 0 (gaol_interval.cpp): exp ... atanh, and atan2.  The rounding *)
(* direction is upward but for the bounds of the library (see Rounding).   *)
(***************************************************************************)
EXTENDS ElementaryBounds

CONSTANT CoreMathLog   \* GAOL_CORE_MATH_LOG

ASSUME LogAssumption == CoreMathLog \in BOOLEAN

(* The empty interval has NaN bounds, of which a NaN is computed *)
exp(I) ==
  LET l == left(I)  r == right(I)
      u == IF IsZero(l) THEN one ELSE nearest_dn("exp", l)
      v == IF IsZero(r) THEN one ELSE nearest_up("exp", r)
  IN IF NaN \in {l, r} THEN Interval(NaN, NaN)
     ELSE Interval(maximum(Zero(FALSE), u), v)

(* CORE-MATH's log rounds correctly in the direction in effect, upward *)
gaol_cr_log(x) == Up(exact("log", x))

log(I) ==
  LET l == maximum(Zero(FALSE), left(I))  r == right(I) IN
  IF is_empty(I) \/ ~Positive(right(I)) THEN emptyset
  ELSE IF CoreMathLog
  THEN Interval(IF Eq(l, one) THEN Zero(FALSE) ELSE previous_float(gaol_cr_log(l)),
                IF Eq(r, one) THEN Zero(FALSE) ELSE gaol_cr_log(r))
  ELSE Interval(IF Eq(l, one) THEN Zero(FALSE) ELSE nearest_dn("log", l),
                IF Eq(r, one) THEN Zero(FALSE) ELSE nearest_up("log", r))

acos(I) ==
  LET J == Meet(I, minus_one_plus_one) IN
  IF is_empty(J) THEN emptyset ELSE Interval(acos_lo(right(J)), acos_hi(left(J)))

asin(I) ==
  LET J == Meet(I, minus_one_plus_one) IN
  IF is_empty(J) THEN emptyset ELSE Interval(asin_lo(left(J)), asin_hi(right(J)))

atan(I) == IF is_empty(I) THEN I ELSE Interval(atan_lo(left(I)), atan_hi(right(I)))

(* The corners where the angle of the points of the box [yl, yu] x [xl, xu] is *)
(* least and greatest, by half-planes: pairs of an ordinate and an abscissa  *)
LeastCorner(yl, yu, xl, xu) ==
  IF Leq(Zero(FALSE), yl) THEN <<IF Positive(xu) THEN yl ELSE yu, xu>>
  ELSE IF Lt(yu, Zero(FALSE)) THEN <<IF Leq(Zero(FALSE), xl) THEN yl ELSE yu, xl>>
  ELSE <<yl, xl>>
GreatestCorner(yl, yu, xl, xu) ==
  IF Leq(Zero(FALSE), yl) THEN <<IF Leq(Zero(FALSE), xl) THEN yu ELSE yl, xl>>
  ELSE IF Lt(yu, Zero(FALSE)) THEN <<IF Positive(xu) THEN yu ELSE yl, xu>>
  ELSE <<yu, xl>>

(* Mutant: the segment {0} x [0, xu] left to atan2_hi() *)
AngleAboveOfCorner(yl, yu, xl, xu, c) ==
  IF IsZero(yu) /\ Lt(yl, Zero(FALSE))
  THEN IF IsZero(xu) THEN Opposite(half_pi_dn) ELSE Zero(FALSE)
  ELSE atan2_hi(c[1], c[2])

(* The greatest angle, c being the corner where it is: 0 on the positive axis *)
AngleAbove(yl, yu, xl, xu, c) ==
  IF Leq(Zero(FALSE), yl) /\ IsZero(xl) /\ IsZero(yu) THEN Zero(FALSE)
  ELSE IF IsZero(yu) /\ Lt(yl, Zero(FALSE))
  THEN IF IsZero(xu) THEN Opposite(half_pi_dn) ELSE Zero(FALSE)
  ELSE atan2_hi(c[1], c[2])

(* The angles of a box, from its corners *)
Angles(yl, yu, xl, xu, least, greatest) ==
  IF Lt(yl, Zero(FALSE)) /\ Leq(Zero(FALSE), yu) /\ Lt(xl, Zero(FALSE))
  THEN Interval(Opposite(pi_up), pi_up)
  ELSE Interval(atan2_lo(least[1], least[2]), AngleAbove(yl, yu, xl, xu, greatest))

AnglesOfBox(yl, yu, xl, xu) ==
  Angles(yl, yu, xl, xu, LeastCorner(yl, yu, xl, xu), GreatestCorner(yl, yu, xl, xu))

atan2(Y, X) ==
  IF is_empty(Y) \/ is_empty(X) \/ (is_zero(Y) /\ is_zero(X)) THEN emptyset
  ELSE AnglesOfBox(left(Y), right(Y), left(X), right(X))

-----------------------------------------------------------------------------
(* The arguments of the bounds of cosh: 0 stands for the exact 1 *)
cosh_least(l, r) == IF Lt(r, Zero(FALSE)) THEN r ELSE IF Positive(l) THEN l ELSE Zero(FALSE)
cosh_greatest(I) ==
  IF Lt(right(I), Zero(FALSE)) THEN left(I)
  ELSE IF Positive(left(I)) THEN right(I)
  ELSE IF Leq(right(I), I.lb) THEN I.lb ELSE right(I)

cosh(I) ==
  IF is_empty(I) THEN I
  ELSE Interval(cosh_lo(cosh_least(left(I), right(I))), cosh_hi(cosh_greatest(I)))

sinh(I) == IF is_empty(I) THEN I ELSE Interval(sinh_lo(left(I)), sinh_hi(right(I)))

tanh(I) ==
  IF is_empty(I) THEN I
  ELSE Meet(Interval(tanh_lo(left(I)), tanh_hi(right(I))), minus_one_plus_one)

acosh(I) ==
  LET J == Meet(I, one_plus_infinity) IN
  IF is_empty(J) THEN J ELSE Interval(acosh_lo(left(J)), acosh_hi(right(J)))

asinh(I) == IF is_empty(I) THEN I ELSE Interval(asinh_lo(left(I)), asinh_hi(right(I)))

atanh(I) ==
  LET J == Meet(I, minus_one_plus_one) IN
  IF is_empty(J) THEN emptyset ELSE Interval(atanh_lo(left(J)), atanh_hi(right(J)))

(* The x of I in A or in its opposite *)
OnEitherSide(A, I) ==
  IF certainly_positive(I) THEN Meet(I, A)
  ELSE IF certainly_negative(I) THEN Meet(I, Minus(A))
  ELSE Join(Meet(I, Minus(A)), Meet(I, A))

(* The x of I whose image is in J *)
acosh_rel(J, I) ==
  IF is_empty(I) \/ is_empty(J) THEN emptyset ELSE OnEitherSide(acosh(J), I)

asinh_rel(J, I) == Meet(asinh(J), I)

atanh_rel(J, I) == Meet(atanh(J), I)
=============================================================================
