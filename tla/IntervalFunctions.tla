------------------------- MODULE IntervalFunctions -------------------------
(***************************************************************************)
(* The functions of the bounds of intervals (gaol_interval.cpp, and        *)
(* hausdorff of gaol_interval_sse.cpp): magnitudes, midpoint and radius,   *)
(* splitting, distance.                                                    *)
(***************************************************************************)
EXTENDS IntervalRelations

fabs(x) == IF x = NaN THEN NaN ELSE [x EXCEPT !.neg = FALSE]

max(I, J) == Interval(maximum(left(I), left(J)), maximum(right(I), right(J)))
min(I, J) == Interval(minimum(left(I), left(J)), minimum(right(I), right(J)))

abs(I) ==
  IF is_empty(I) \/ certainly_positive(I) THEN I
  ELSE IF certainly_negative(I) THEN Interval(Opposite(right(I)), I.lb)
  ELSE Interval(Zero(FALSE), maximum(I.lb, I.rb))

(* Mutant: the negative numbers of K not left out *)
invabs_relOfSigned(K, I) ==
  IF is_empty(K) THEN emptyset
  ELSE IF certainly_geq(I, zero) THEN Meet(K, I)
  ELSE IF certainly_leq(I, zero) THEN Meet(Minus(K), I)
  ELSE Join(Meet(K, I), Meet(Minus(K), I))

(* The x of I whose magnitude is in K *)
invabs_rel(K, I) ==
  LET J == Meet(K, positive) IN
  IF is_empty(J) THEN emptyset
  ELSE IF certainly_geq(I, zero) THEN Meet(J, I)
  ELSE IF certainly_leq(I, zero) THEN Meet(Minus(J), I)
  ELSE Join(Meet(J, I), Meet(Minus(J), I))

smig(I) ==
  IF is_empty(I) THEN NaN
  ELSE IF straddles_zero(I) THEN Zero(FALSE)
  ELSE IF Lt(right(I), Zero(FALSE)) THEN right(I) ELSE left(I)

mig(I) == fabs(smig(I))
mag(I) == maximum(fabs(left(I)), fabs(right(I)))

-----------------------------------------------------------------------------
(* Mutant: the sum of the bounds taken not to overflow *)
midpointOfSum(I) ==
  IF is_empty(I) THEN NaN
  ELSE IF is_symmetric(I) THEN Zero(FALSE)
  ELSE IF left(I) = MinusInfinity THEN OfNum(-Largest)
  ELSE IF right(I) = Infinity THEN OfNum(Largest)
  ELSE LET sum == RoundNearest(Num(left(I)) + Num(right(I)), 1) IN
       IF IsInf(sum) THEN sum ELSE RoundNearest(Num(sum), 2)

HalfNearest(x) == RoundNearest(Num(x), 2)
SumNearest(x, y) == RoundNearest(Num(x) + Num(y), 1)

(* The half of the sum of l and r, or the sum of their halves if it overflows *)
HalfOfSum(sum, l, r) ==
  IF IsInf(sum) THEN SumNearest(HalfNearest(l), HalfNearest(r)) ELSE HalfNearest(sum)

(* midpoint(), rounded to nearest *)
midpoint(I) ==
  IF is_empty(I) THEN NaN
  ELSE IF is_symmetric(I) THEN Zero(FALSE)
  ELSE IF left(I) = MinusInfinity THEN OfNum(-Largest)
  ELSE IF right(I) = Infinity THEN OfNum(Largest)
  ELSE HalfOfSum(SumNearest(left(I), right(I)), left(I), right(I))

width(I) == IF is_empty(I) THEN NaN ELSE SubUp(right(I), left(I))

(* The radius of mid_rad() *)
GreaterOf(x, y) == IF Lt(y, x) THEN x ELSE y
Radius(I, m) == GreaterOf(SubUp(m, left(I)), SubUp(right(I), m))
rad(I) == IF is_empty(I) THEN NaN ELSE Radius(I, midpoint(I))

split_left(I) == Interval(left(I), midpoint(I))
split_right(I) == Interval(midpoint(I), right(I))

hausdorff(I, J) ==
  LET all == {I.lb, I.rb, J.lb, J.rb}
      apart(x, y) == maximum(SubUp(x, y), SubUp(y, x))
  IN IF is_empty(I) \/ is_empty(J) THEN NaN
     ELSE IF all = {Infinity} THEN Zero(FALSE)
     ELSE IF Infinity \in all THEN Infinity
     ELSE maximum(apart(left(I), left(J)), apart(right(I), right(J)))
=============================================================================
