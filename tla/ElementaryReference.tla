------------------------ MODULE ElementaryReference ------------------------
(***************************************************************************)
(* What the elementary functions of intervals promise (doc/accuracy.md),   *)
(* from the functions of reals (MathValues): bounds around the exact       *)
(* range, or the exact preimage, and next to the tightest.                 *)
(*                                                                         *)
(* Angles are in quarters of a unit, where pi/2 is an integer.             *)
(***************************************************************************)
EXTENDS Trigonometry

(* A bound below, and above, an exact value, by less than two doubles; the   *)
(* tightest one when it is asked for                                         *)
LowerBound(x, e, tight) ==
  AtMost(x, e) /\ Leq(IF tight THEN Down(e) ELSE previous_float(Down(e)), x)
UpperBound(x, e, tight) ==
  AtLeast(x, e) /\ Leq(x, IF tight THEN Up(e) ELSE next_float(Up(e)))

Encloses(I, e) == AtMost(left(I), e) /\ AtLeast(right(I), e)

(* The arguments at which the tightest bounds are promised *)
IsTight(f, x) ==
  CASE f \in {"exp", "sinh", "cosh", "tanh", "asinh", "atanh", "sin", "cos", "tan"} -> IsZero(x)
    [] f = "acosh" -> Eq(x, one)
    [] f = "log" -> CoreMathLog \/ Eq(x, one)
    [] f \in {"asin", "acos"} -> Num(x) \in {-One, 0, One}
    [] f = "atan" -> Num(x) \in {-Oo, -One, 0, One, Oo}

-----------------------------------------------------------------------------
(* The monotonic functions, on their domain *)
Domain(f) ==
  CASE f = "log" -> Interval(Zero(FALSE), Infinity)
    [] f \in {"asin", "acos", "atanh"} -> Interval(minus_one, one)
    [] f = "acosh" -> Interval(one, Infinity)
    [] f \in {"exp", "atan", "sinh", "tanh", "asinh"} -> universe

IncreasingRange(f, I, R) ==
  LET low == IF Lt(left(I), left(Domain(f))) THEN left(Domain(f)) ELSE left(I)
      high == IF Lt(right(Domain(f)), right(I)) THEN right(Domain(f)) ELSE right(I)
  IN IF is_empty(I) \/ Lt(high, low) \/ (f = "log" /\ IsZero(high)) THEN is_empty(R)
     ELSE /\ LowerBound(left(R), exact(f, low), IsTight(f, low))
          /\ UpperBound(right(R), exact(f, high), IsTight(f, high))
          /\ f = "exp" => Leq(Zero(FALSE), left(R))
          /\ f = "tanh" => Leq(minus_one, left(R)) /\ Leq(right(R), one)

AcosRange(I, R) ==
  LET low == IF Lt(left(I), minus_one) THEN minus_one ELSE left(I)
      high == IF Lt(one, right(I)) THEN one ELSE right(I)
  IN IF is_empty(I) \/ Lt(high, low) THEN is_empty(R)
     ELSE /\ LowerBound(left(R), exact("acos", high), IsTight("acos", high))
          /\ UpperBound(right(R), exact("acos", low), IsTight("acos", low))

CoshRange(I, R) ==
  LET nearer == IF Lt(fabs(left(I)), fabs(right(I))) THEN left(I) ELSE right(I)
      farther == IF nearer = left(I) THEN right(I) ELSE left(I)
  IN IF is_empty(I) THEN is_empty(R)
     ELSE /\ IF Leq(left(I), Zero(FALSE)) /\ Leq(Zero(FALSE), right(I)) THEN Eq(left(R), one)
             ELSE LowerBound(left(R), exact("cosh", nearer), FALSE)
          /\ UpperBound(right(R), exact("cosh", farther), IsTight("cosh", farther))

(* The angles of the corners of a box, but for (0, 0) and where both are      *)
(* infinite; the angle jumps where the box is on both sides of the negative  *)
(* axis                                                                      *)
CornerAngle(y, x) ==
  IF IsInf(x) THEN Value(IF ~x.neg THEN 0 ELSE IF Lt(y, Zero(FALSE)) THEN -HalfPi ELSE HalfPi, 2)
  ELSE IF IsInf(y) THEN Value(IF y.neg THEN -HalfPi ELSE HalfPi, 4)
  ELSE Angle(Num(y), Num(x))

Corners(Y, X) ==
  {c \in {left(Y), right(Y)} \X {left(X), right(X)} :
     ~(IsZero(c[1]) /\ IsZero(c[2])) /\ ~(IsInf(c[1]) /\ IsInf(c[2]))}

Atan2Range(Y, X, R) ==
  IF is_empty(Y) \/ is_empty(X) \/ (is_zero(Y) /\ is_zero(X)) THEN is_empty(R)
  ELSE IF Lt(left(Y), Zero(FALSE)) /\ Leq(Zero(FALSE), right(Y)) /\ Lt(left(X), Zero(FALSE))
  THEN R = Interval(Opposite(pi_up), pi_up)
  ELSE LET angles == {CornerAngle(c[1], c[2]) : c \in Corners(Y, X)} IN
       /\ \A e \in angles : Encloses(R, e)
       /\ \E e \in angles : LowerBound(left(R), e, FALSE)
       /\ \E e \in angles : UpperBound(right(R), e, FALSE)

-----------------------------------------------------------------------------
(* Whether a real phase + k period, k an integer, is within the bounds *)
HasOneOf(phase, period, I) ==
  \/ IsInf(left(I)) \/ IsInf(right(I))
  \/ (phase - 4 * Num(left(I))) % period <= 4 * (Num(right(I)) - Num(left(I)))

(* 1 and -1 are the bounds where a maximum, a minimum of f is within I, and  *)
(* from the width 2 pi_dn on, rounded upward                                 *)
WaveRange(f, I, R) ==
  LET top == IF f = "cos" THEN 0 ELSE HalfPi
      wide == ~Lt(SubUp(right(I), left(I)), MulUp(OfNum(2 * One), pi_dn))
      ends == {left(I), right(I)}
      Below(x, e) == LowerBound(x, exact(f, e), IsTight(f, e))
      Above(x, e) == UpperBound(x, exact(f, e), IsTight(f, e))
  IN IF is_empty(I) THEN is_empty(R)
     ELSE /\ Leq(minus_one, left(R)) /\ Leq(right(R), one)
          /\ IF wide \/ HasOneOf(top + 2 * HalfPi, 4 * HalfPi, I) THEN Eq(left(R), minus_one)
             ELSE /\ \A e \in ends : AtMost(left(R), exact(f, e))
                  /\ \E e \in ends : Below(left(R), e)
          /\ IF wide \/ HasOneOf(top, 4 * HalfPi, I) THEN Eq(right(R), one)
             ELSE /\ \A e \in ends : AtLeast(right(R), exact(f, e))
                  /\ \E e \in ends : Above(right(R), e)

(* Everything where a pole is within I; maybe so between the widths pi_dn and *)
(* pi                                                                        *)
TanRange(I, R) ==
  IF is_empty(I) THEN is_empty(R)
  ELSE IF HasOneOf(HalfPi, 2 * HalfPi, I) THEN R = universe
  ELSE \/ R = universe /\ ~Lt(SubUp(right(I), left(I)), pi_dn)
       \/ /\ LowerBound(left(R), exact("tan", left(I)), IsTight("tan", left(I)))
          /\ UpperBound(right(R), exact("tan", right(I)), IsTight("tan", right(I)))

-----------------------------------------------------------------------------
(* The function a relational function reverses, and the period of the        *)
(* preimage, 0 if none                                                       *)
Reversed(f) ==
  CASE f = "acos_rel" -> "cos" [] f = "asin_rel" -> "sin" [] f = "atan_rel" -> "tan"
    [] f = "acosh_rel" -> "cosh" [] f = "asinh_rel" -> "sinh" [] f = "atanh_rel" -> "tanh"
Period(f) ==
  CASE f \in {"acos_rel", "asin_rel"} -> 4 * HalfPi
    [] f = "atan_rel" -> 2 * HalfPi
    [] OTHER -> 0

Clipped(J, D) == IF set_disjoint(J, D) THEN {} ELSE {left(Meet(J, D)), right(Meet(J, D))}

(* The ends of the pieces of the preimage of J, but for the period: a point   *)
(* of each piece is between two of them                                      *)
Ends(f, J) ==
  LET Reflected(e) == Value(2 * HalfPi * e.d - 4 * e.n, 4 * e.d) IN
  CASE f = "acos_rel" ->
         LET S == {exact("acos", v) : v \in Clipped(J, minus_one_plus_one)}
         IN S \union {Negated(e) : e \in S}
    [] f = "asin_rel" ->
         LET S == {exact("asin", v) : v \in Clipped(J, minus_one_plus_one)}
         IN S \union {Reflected(e) : e \in S}
    [] f = "atan_rel" -> {exact("atan", v) : v \in Clipped(J, universe)}
    [] f = "acosh_rel" ->
         LET S == {exact("acosh", v) : v \in Clipped(J, one_plus_infinity)}
         IN S \union {Negated(e) : e \in S}
    [] f = "asinh_rel" -> {exact("asinh", v) : v \in Clipped(J, universe)}
    [] f = "atanh_rel" -> {exact("atanh", v) : v \in Clipped(J, minus_one_plus_one)}

(* The first end from x on, and the last one up to it *)
FirstFrom(e, p, x) ==
  LET at == 4 * Num(x) * e.d IN
  Value(at + ((4 * e.n - at) % (p * e.d)), 4 * e.d)
LastUpTo(e, p, x) ==
  LET at == 4 * Num(x) * e.d IN
  Value(at - ((at - 4 * e.n) % (p * e.d)), 4 * e.d)

(* The ends within I, the extreme ones if they are many *)
EndsWithin(f, J, I) ==
  LET p == Period(f)
      all == IF p = 0 THEN Ends(f, J)
             ELSE {FirstFrom(e, p, left(I)) : e \in IF IsInf(left(I)) THEN {} ELSE Ends(f, J)}
                  \union
                  {LastUpTo(e, p, right(I)) : e \in IF IsInf(right(I)) THEN {} ELSE Ends(f, J)}
  IN {e \in all : ~IsLimit(e) /\ Encloses(I, e)}

(* The bounds of I that are solutions *)
BoundsWithin(f, J, I) ==
  {x \in {left(I), right(I)} : ~IsInf(x) /\ Encloses(J, exact(Reversed(f), x))}

KeepsSolutions(f, J, I, R) ==
  /\ \A e \in EndsWithin(f, J, I) : Encloses(R, e)
  /\ \A x \in BoundsWithin(f, J, I) : Leq(left(R), x) /\ Leq(x, right(R))
  /\ Period(f) # 0 /\ Ends(f, J) # {} =>
       /\ IsInf(left(I)) => IsInf(left(R))
       /\ IsInf(right(I)) => IsInf(right(R))
=============================================================================
