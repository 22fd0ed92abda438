-------------------------- MODULE ElementaryBounds --------------------------
(***************************************************************************)
(* The bounds of the elementary functions at a double (gaol_interval.cpp): *)
(* those of the mathematical library, but where the value or its tightest  *)
(* bound is known.                                                         *)
(***************************************************************************)
EXTENDS MathValues, IntervalFunctions

CONSTANT Library   \* Of the build: "apmathlib" or "crlibm"

ASSUME LibraryAssumption == Library \in Libraries \ {"m"}

pi_dn == Down(Value(HalfPi, 2))
pi_up == Up(Value(HalfPi, 2))
half_pi_dn == Down(Value(HalfPi, 4))
half_pi_up == Up(Value(HalfPi, 4))
pi == Interval(pi_dn, pi_up)
half_pi == Interval(half_pi_dn, half_pi_up)

minus_one_plus_one == Interval(OfNum(-One), OfNum(One))
one_plus_infinity == Interval(OfNum(One), Infinity)

(* The outermost bound that the library may return of a value *)
Lowest(S) == CHOOSE x \in S : \A y \in S : Leq(x, y)
Highest(S) == CHOOSE x \in S : \A y \in S : Leq(y, x)

value_dn(f, e) ==
  Lowest(IF Library = "apmathlib" THEN apmathlib_dn(e) ELSE crlibm_dn(f, e))
value_up(f, e) ==
  Highest(IF Library = "apmathlib" THEN apmathlib_up(e) ELSE crlibm_up(f, e))

nearest_dn(f, x) == value_dn(f, exact(f, x))
nearest_up(f, x) == value_up(f, exact(f, x))

-----------------------------------------------------------------------------
(* sin, tan, asinh and atanh are 0 at 0, and only there known exactly; so are *)
(* cos and cosh 1 at 0, and acosh 0 at 1                                     *)
KnownAt(f) == IF f = "acosh" THEN OfNum(One) ELSE Zero(FALSE)
KnownAs(f) == IF f \in {"cos", "cosh"} THEN OfNum(One) ELSE Zero(FALSE)

odd_lo(f, x) == IF Eq(x, KnownAt(f)) THEN KnownAs(f) ELSE nearest_dn(f, x)
odd_hi(f, x) == IF Eq(x, KnownAt(f)) THEN KnownAs(f) ELSE nearest_up(f, x)

tan_lo(x) == odd_lo("tan", x)
tan_hi(x) == odd_hi("tan", x)
asinh_lo(x) == odd_lo("asinh", x)
asinh_hi(x) == odd_hi("asinh", x)
acosh_lo(x) == odd_lo("acosh", x)
acosh_hi(x) == odd_hi("acosh", x)
atanh_lo(x) == odd_lo("atanh", x)
atanh_hi(x) == odd_hi("atanh", x)

(* The signs of sin(x) and cos(x) *)
sign_of_sin(x) ==
  IF IsZero(x) THEN 0
  ELSE IF Lt(fabs(x), OfNum(3 * One)) THEN sign(Num(x))
  ELSE IF Lt(Zero(FALSE), nearest_dn("sin", x)) THEN 1 ELSE -1

sign_of_cos(x) ==
  IF Lt(fabs(x), OfNum(ThreeHalves)) THEN 1
  ELSE IF Lt(Zero(FALSE), nearest_dn("cos", x)) THEN 1 ELSE -1

(* A bound at a double where it is one of the constants: known is a set of    *)
(* pairs of an argument and a bound                                          *)
Known(known, x, otherwise) ==
  IF \E k \in known : Eq(x, k[1]) THEN (CHOOSE k \in known : Eq(x, k[1]))[2] ELSE otherwise

one == OfNum(One)
minus_one == OfNum(-One)
zero_dn == Zero(FALSE)

asin_lo(x) ==
  Known({<<zero_dn, zero_dn>>, <<one, half_pi_dn>>, <<minus_one, Opposite(half_pi_up)>>}, x,
        nearest_dn("asin", x))
asin_hi(x) ==
  Known({<<zero_dn, zero_dn>>, <<one, half_pi_up>>, <<minus_one, Opposite(half_pi_dn)>>}, x,
        nearest_up("asin", x))
acos_lo(x) ==
  Known({<<one, zero_dn>>, <<zero_dn, half_pi_dn>>, <<minus_one, pi_dn>>}, x,
        nearest_dn("acos", x))
acos_hi(x) ==
  Known({<<one, zero_dn>>, <<zero_dn, half_pi_up>>, <<minus_one, pi_up>>}, x,
        nearest_up("acos", x))

half(x) == MulUp(OfNum(One \div 2), x)

atan_lo(x) ==
  LET at(b) == IF x.neg THEN Opposite(b) ELSE b
      end == IF x.neg THEN half_pi_up ELSE half_pi_dn
  IN IF IsZero(x) THEN zero_dn
     ELSE IF fabs(x) = one THEN at(half(end))
     ELSE IF IsInf(x) THEN at(end)
     ELSE nearest_dn("atan", x)

atan_hi(x) ==
  LET at(b) == IF x.neg THEN Opposite(b) ELSE b
      end == IF x.neg THEN half_pi_dn ELSE half_pi_up
  IN IF IsZero(x) THEN zero_dn
     ELSE IF fabs(x) = one THEN at(half(end))
     ELSE IF IsInf(x) THEN at(end)
     ELSE nearest_up("atan", x)

(* atan2(y, x): an infinite y or x stands for the limit there *)
Positive(x) == Lt(Zero(FALSE), x)

atan2_lo(y, x) ==
  LET at(d, u) == IF Positive(y) THEN d ELSE Opposite(u) IN
  IF IsZero(y) \/ x = Infinity THEN IF Positive(x) THEN zero_dn ELSE pi_dn
  ELSE IF IsZero(x) \/ IsInf(y) THEN at(half_pi_dn, half_pi_up)
  ELSE IF x = MinusInfinity THEN at(pi_dn, pi_up)
  ELSE IF Eq(x, fabs(y)) THEN at(half(half_pi_dn), half(half_pi_up))
  ELSE maximum(value_dn("atan2", Angle(Num(y), Num(x))), Opposite(pi_up))

atan2_hi(y, x) ==
  LET at(d, u) == IF Positive(y) THEN u ELSE Opposite(d) IN
  IF IsZero(y) \/ x = Infinity THEN IF Positive(x) THEN zero_dn ELSE pi_up
  ELSE IF IsZero(x) \/ IsInf(y) THEN at(half_pi_dn, half_pi_up)
  ELSE IF x = MinusInfinity THEN at(pi_dn, pi_up)
  ELSE IF Eq(x, fabs(y)) THEN at(half(half_pi_dn), half(half_pi_up))
  ELSE minimum(value_up("atan2", Angle(Num(y), Num(x))), pi_up)

-----------------------------------------------------------------------------
(* sinh, cosh and tanh beyond an argument where their value is bounded *)
sinh_lo(x) ==
  IF IsZero(x) THEN zero_dn
  ELSE IF Leq(OfNum(SinhBeyond), x) THEN OfNum(Largest) ELSE nearest_dn("sinh", x)
sinh_hi(x) ==
  IF IsZero(x) THEN zero_dn
  ELSE IF Leq(x, OfNum(-SinhBeyond)) THEN OfNum(-Largest) ELSE nearest_up("sinh", x)

cosh_lo(x) ==
  IF Leq(OfNum(SinhBeyond), fabs(x)) THEN OfNum(Largest) ELSE odd_lo("cosh", x)
cosh_hi(x) == odd_hi("cosh", x)

below_one == Opposite(AddUp(MulUp(OfNum(One \div 2), OfNum(Epsilon)), minus_one))

tanh_lo(x) ==
  IF IsZero(x) THEN zero_dn
  ELSE IF Leq(OfNum(TanhBeyond), x) THEN below_one ELSE nearest_dn("tanh", x)
tanh_hi(x) ==
  IF IsZero(x) THEN zero_dn
  ELSE IF Leq(x, OfNum(-TanhBeyond)) THEN Opposite(below_one) ELSE nearest_up("tanh", x)

-----------------------------------------------------------------------------
(* std::floor(), std::ceil() of a double, and feven() *)
floor(x) == IF x = NaN \/ IsInf(x) THEN x ELSE OfNum((Num(x) \div One) * One)
ceil(x) == Opposite(floor(Opposite(x)))

feven(x) == Eq(MulUp(floor(half(x)), OfNum(2 * One)), x)
=============================================================================
