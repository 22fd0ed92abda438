--------------------------- MODULE FloatIntervals ---------------------------
(***************************************************************************)
(* The intervals of floats, gaol::intervalf (gaol_intervalf.h,             *)
(* gaol_intervalf.cpp, option GAOL_FLOAT_INTERVALS), with the rounding     *)
(* direction upward.  _left is the opposite of the left bound.  No         *)
(* constructor compares the bounds, and the functions test for the empty   *)
(* set, two NaNs, only where shown.                                        *)
(***************************************************************************)
EXTENDS Doubles

Bounds(l, r) == [lb |-> l, rb |-> r]

left(I) == Opposite(I.lb)
right(I) == I.rb

(* intervalf(float l, float r) *)
intervalf(l, r) == Bounds(Opposite(l), r)

emptyset == intervalf(NaN, NaN)
universe == intervalf(MinusInfinity, Infinity)
one == intervalf(OfNum(One), OfNum(One))

is_empty(I) == ~Leq(left(I), right(I))
is_zero(I) == IsZero(I.lb) /\ IsZero(I.rb)
certainly_positive(I) == Leq(I.lb, Zero(FALSE))
strictly_straddles_zero(I) == Lt(Zero(FALSE), I.lb) /\ Lt(Zero(FALSE), I.rb)

-----------------------------------------------------------------------------
Plus(I, J) == Bounds(AddUp(I.lb, J.lb), AddUp(I.rb, J.rb))

(* operator-=: I is J when same, and its bound is read after it is written *)
Minus(I, J, same) ==
  LET lb == AddUp(I.lb, J.rb) IN Bounds(lb, AddUp(I.rb, IF same THEN lb ELSE J.lb))

(* operator-() *)
Opposed(I) == intervalf(Opposite(I.rb), I.lb)

(* operator*= for an interval of the sign P, M or N *)
TimesP(I, J) ==
  IF certainly_positive(J)
  THEN Bounds(MulUp(I.lb, Opposite(J.lb)), MulUp(I.rb, J.rb))
  ELSE IF strictly_straddles_zero(J)
  THEN Bounds(MulUp(I.rb, J.lb), MulUp(I.rb, J.rb))
  ELSE Bounds(MulUp(I.rb, J.lb), MulUp(Opposite(I.lb), J.rb))

TimesM(I, J) ==
  LET greater(x, y) == IF Lt(y, x) THEN x ELSE y IN
  IF certainly_positive(J)
  THEN Bounds(MulUp(I.lb, J.rb), MulUp(I.rb, J.rb))
  ELSE IF strictly_straddles_zero(J)
  THEN Bounds(greater(MulUp(I.lb, J.rb), MulUp(I.rb, J.lb)),
              greater(MulUp(I.lb, J.lb), MulUp(I.rb, J.rb)))
  ELSE Bounds(MulUp(I.rb, J.lb), MulUp(I.lb, J.lb))

TimesN(I, J) ==
  IF certainly_positive(J)
  THEN Bounds(MulUp(I.lb, J.rb), MulUp(I.rb, Opposite(J.lb)))
  ELSE IF strictly_straddles_zero(J)
  THEN Bounds(MulUp(I.lb, J.rb), MulUp(I.lb, J.lb))
  ELSE Bounds(MulUp(I.rb, Opposite(J.rb)), MulUp(I.lb, J.lb))

(* Mutant: no test for the zero operands *)
TimesUntestedZero(I, J) ==
  IF is_empty(I) \/ is_empty(J) THEN emptyset
  ELSE IF certainly_positive(I) THEN TimesP(I, J)
  ELSE IF strictly_straddles_zero(I) THEN TimesM(I, J)
  ELSE TimesN(I, J)

(* operator*= *)
Times(I, J) ==
  IF is_empty(I) \/ is_empty(J) THEN emptyset
  ELSE IF is_zero(I) THEN I
  ELSE IF is_zero(J) THEN J
  ELSE IF certainly_positive(I) THEN TimesP(I, J)
  ELSE IF strictly_straddles_zero(I) THEN TimesM(I, J)
  ELSE TimesN(I, J)

inverse(I) ==
  LET over(x) == DivUp(OfNum(-One), x)  z == Zero(FALSE) IN
  IF is_empty(I) THEN emptyset
  ELSE IF Leq(right(I), z)
  THEN IF ~Lt(left(I), z) THEN emptyset
       ELSE Bounds(IF Lt(right(I), z) THEN over(I.rb) ELSE Infinity, over(I.lb))
  ELSE IF Lt(left(I), z) THEN universe
  ELSE Bounds(over(I.rb), IF IsZero(left(I)) THEN Infinity ELSE over(I.lb))

(* operator/= *)
Over(I, J) == Times(I, inverse(J))

-----------------------------------------------------------------------------
odd(n) == n % 2 = 1

(* The squares of binary exponentiation: y times the power e of z, both       *)
(* rounded upward by the products, in the order of the loops; those of a    *)
(* left bound are negated, rounded downward therefore, but for its squares   *)
Square(z, squares) ==
  CASE squares = "up" -> MulUp(z, z)
    [] squares = "down" -> MulUp(z, Opposite(z))
    [] squares = "negated" -> Opposite(MulUp(z, z))
Multiplied(n, y, z, products) ==
  IF ~odd(n) THEN y
  ELSE IF products = "up" THEN MulUp(y, z) ELSE Opposite(MulUp(y, z))

BinaryPower(z0, e, squares, products) ==
  LET power[s \in [n : 0 .. e, y : Doubles \union {NaN}, z : Doubles \union {NaN}]] ==
        IF s.n = 0 THEN s.y
        ELSE power[[n |-> s.n \div 2,
                    y |-> Multiplied(s.n, s.y, s.z, products),
                    z |-> IF s.n = 1 THEN s.z ELSE Square(s.z, squares)]]
  IN power[[n |-> e, y |-> OfNum(One), z |-> z0]]

(* The right bound of uipow_dnup(), and both of uipow_upup() *)
PowerUp(x, e) == BinaryPower(x, e, "up", "up")

(* Mutant: the squares of the left bound rounded outward *)
PowerDnOutward(x, e) == BinaryPower(x, e, "negated", "down")

(* The left bound of uipow_dnup(), of its opposite x: the products are       *)
(* rounded upward with the sign of x, and downward without                  *)
PowerDn(x, e) == BinaryPower(x, e, "down", "down")

uipow_dnup(I, e) == intervalf(PowerDn(I.lb, e), PowerUp(I.rb, e))
uipow_upup(I, e) == Bounds(PowerUp(I.lb, e), PowerUp(I.rb, e))

negative(x) == Lt(x, Zero(FALSE))

(* The power of an interval around 0, from those of its bounds, and that of   *)
(* one below 0, from that of its opposite                                    *)
AroundZero(r, e) ==
  IF odd(e) THEN r ELSE intervalf(Zero(FALSE), IF Lt(r.lb, r.rb) THEN r.rb ELSE r.lb)
BelowZero(r, e) == IF odd(e) THEN Opposed(r) ELSE r

uipow(I, e) ==
  CASE ~negative(I.lb) /\ ~negative(I.rb) -> AroundZero(uipow_upup(I, e), e)
    [] negative(I.lb) /\ ~negative(I.rb) -> uipow_dnup(I, e)
    [] ~negative(I.lb) /\ negative(I.rb) -> BelowZero(uipow_dnup(Opposed(I), e), e)
    [] OTHER -> intervalf(Zero(FALSE), Zero(FALSE))

(* pow(const intervalf&, int) *)
InvertedIf(negated, r) == IF negated THEN inverse(r) ELSE r

pow(I, n) ==
  IF is_empty(I) THEN I
  ELSE IF n = 0 THEN one ELSE InvertedIf(n < 0, uipow(I, IF n < 0 THEN -n ELSE n))

-----------------------------------------------------------------------------
(* Mutant: the sum of the bounds rounded to a float first *)
midpointOfFloatSum(I) ==
  IF is_empty(I) THEN NaN
  ELSE IF Eq(left(I), Opposite(right(I))) THEN Zero(FALSE)
  ELSE IF left(I) = MinusInfinity THEN OfNum(-Largest)
  ELSE IF right(I) = Infinity THEN OfNum(Largest)
  ELSE RoundNearest(Num(RoundNearest(Num(left(I)) + Num(right(I)), 1)), 2)

(* The middle computed with doubles, which hold it exactly or nearly, is     *)
(* rounded to nearest once                                                  *)
midpoint(I) ==
  IF is_empty(I) THEN NaN
  ELSE IF Eq(left(I), Opposite(right(I))) THEN Zero(FALSE)
  ELSE IF left(I) = MinusInfinity THEN OfNum(-Largest)
  ELSE IF right(I) = Infinity THEN OfNum(Largest)
  ELSE RoundNearest(Num(left(I)) + Num(right(I)), 2)

split_first(I) == intervalf(left(I), midpoint(I))
split_second(I) == intervalf(midpoint(I), right(I))

possibly_eq(I, J) == Leq(left(I), right(J)) /\ Leq(left(J), right(I))
set_eq(I, J) ==
  (is_empty(I) /\ is_empty(J)) \/ (Eq(left(I), left(J)) /\ Eq(right(I), right(J)))
set_contains(I, J) == is_empty(J) \/ (Leq(left(I), left(J)) /\ Leq(right(J), right(I)))

set_disjoint(I, J) ==
  Lt(right(I), left(J)) \/ Lt(right(J), left(I)) \/ is_empty(I) \/ is_empty(J)
set_strictly_contains(I, J) == is_empty(J) \/ (Lt(left(I), left(J)) /\ Lt(right(J), right(I)))
=============================================================================
