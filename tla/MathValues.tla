----------------------------- MODULE MathValues -----------------------------
(***************************************************************************)
(* The elementary functions, as far as GAOL looks at them: their signs,    *)
(* monotonic pieces, poles, limits, period and values at 0, 1 and oo are   *)
(* those of the real functions, and in between they are fractions that the *)
(* bounds can be compared with exactly.                                    *)
(*                                                                         *)
(* cos goes from 1 to -1 in straight lines, as acos and asin do; tan t is  *)
(* t/(pi/2 - |t|) between two poles; the angle of a point of a quadrant    *)
(* is pi/2 y/(x + y); exp and log are inverses of one another, with two    *)
(* pieces that meet at 1; sinh, cosh are straight lines, tanh is           *)
(* v/(1/4 + |v|).                                                          *)
(***************************************************************************)
EXTENDS MathLibraries

CONSTANTS
  HalfPi,      \* pi/2, in quarters of a unit
  SinhBeyond,  \* 711, where sinh and cosh are beyond the doubles, in units
  TanhBeyond   \* 20, where tanh is beyond the double below 1, in units

(* Where a double may be in the first quadrant, cos is known to be positive *)
ThreeHalves == One + One \div 2

-----------------------------------------------------------------------------
sign(v) == IF v < 0 THEN -1 ELSE 1
size(v) == sign(v) * v

(* The functions at a number of units v *)
Cos(v) ==
  LET r == (4 * v) % (4 * HalfPi)
      t == IF r <= 2 * HalfPi THEN r ELSE 4 * HalfPi - r
  IN Value(One * (HalfPi - t), HalfPi)

Sin(v) ==
  LET r == (4 * v - HalfPi) % (4 * HalfPi)
      t == IF r <= 2 * HalfPi THEN r ELSE 4 * HalfPi - r
  IN Value(One * (HalfPi - t), HalfPi)

Tan(v) ==
  LET t == ((4 * v + HalfPi) % (2 * HalfPi)) - HalfPi
  IN Value(One * t, HalfPi - size(t))

Acos(v) == Value(HalfPi * (One - v), 4 * One)
Asin(v) == Value(HalfPi * v, 4 * One)
Atan(v) == Value(HalfPi * v, 4 * (One + size(v)))

(* In (-pi, pi], the angle of a point other than (0, 0) *)
Angle(y, x) ==
  LET quadrant == HalfPi * size(y)
      all == size(x) + size(y)
      n == IF x >= 0 THEN quadrant ELSE 2 * HalfPi * all - quadrant
  IN Value(sign(y) * n, 4 * all)

Exp(v) ==
  IF v >= 0 THEN Value(32 * One + 101 * v, 32)
  ELSE Value(32 * One * One, 32 * One - 101 * v)

Log(v) ==
  IF v >= One THEN Value(32 * (v - One), 101)
  ELSE Value(32 * One * (v - One), 101 * v)

Sinh(v)  == Value(101 * v, 32)
Cosh(v)  == Value(32 * One + 101 * size(v), 32)
Tanh(v)  == Value(4 * One * v, One + 4 * size(v))
Asinh(v) == Value(32 * v, 101)
Acosh(v) == Value(32 * (v - One), 101)
Atanh(v) == Value(One * v, 4 * (One - size(v)))

(* They are at an infinity *)
AtInfinity(f, neg) ==
  CASE f = "exp"  -> IF neg THEN Value(0, 1) ELSE Limit(FALSE)
    [] f = "atan" -> Value(IF neg THEN -HalfPi ELSE HalfPi, 4)
    [] f = "tanh" -> Value(IF neg THEN -One ELSE One, 1)
    [] f = "cosh" -> Limit(FALSE)
    [] f \in {"log", "acosh", "sinh", "asinh"} -> Limit(neg)

(* The functions at a double of their domain, or of its closure *)
exact(f, x) ==
  LET v == Num(x) IN
  IF IsInf(x) THEN AtInfinity(f, x.neg)
  ELSE CASE f = "cos"   -> Cos(v)
         [] f = "sin"   -> Sin(v)
         [] f = "tan"   -> Tan(v)
         [] f = "acos"  -> Acos(v)
         [] f = "asin"  -> Asin(v)
         [] f = "atan"  -> Atan(v)
         [] f = "exp"   -> Exp(v)
         [] f = "log"   -> IF v = 0 THEN Limit(TRUE) ELSE Log(v)
         [] f = "sinh"  -> Sinh(v)
         [] f = "cosh"  -> Cosh(v)
         [] f = "tanh"  -> Tanh(v)
         [] f = "asinh" -> Asinh(v)
         [] f = "acosh" -> Acosh(v)
         [] f = "atanh" -> IF size(v) = One THEN Limit(v < 0) ELSE Atanh(v)

(* What is supposed of them: no double but 0 is a multiple of pi/2, and the  *)
(* sine and the cosine of a double are too great for a double next to them    *)
(* to have another sign, or known from the quadrant; sinh and tanh are where  *)
(* they are said to be                                                       *)
ASSUME ValuesAssumption ==
  /\ HalfPi \in Nat /\ 4 * ThreeHalves < HalfPi
  /\ {ThreeHalves, 3 * One, TanhBeyond, SinhBeyond} \subseteq Magnitudes
  /\ \A m \in Magnitudes \ {0} : (4 * m) % HalfPi # 0
  /\ \A m \in Magnitudes :
       /\ m >= ThreeHalves => 2 * size(Cos(m).n) > 3 * HalfPi
       /\ m >= 3 * One => 2 * size(Sin(m).n) > 3 * HalfPi
  /\ Sinh(SinhBeyond).n > Largest * Sinh(SinhBeyond).d
  /\ LET below == Max({m \in Magnitudes : m < One})
     IN Tanh(TanhBeyond).n > below * Tanh(TanhBeyond).d
=============================================================================
