------------------------------- MODULE Doubles -------------------------------
(***************************************************************************)
(* Floating-point numbers rounded upward, as GAOL computes with them.      *)
(*                                                                         *)
(* A double is a sign and a magnitude, the magnitude a multiple of the     *)
(* least one above 0: what the bounds of the intervals depend on (signed   *)
(* zeros, underflow, overflow, infinities, NaN, inexact results) is that   *)
(* of IEEE 754, in a format as small as one likes.                         *)
(***************************************************************************)
EXTENDS Integers, Sequences, FiniteSets, FiniteSetsExt

CONSTANTS
  Magnitudes,   \* The magnitudes of the finite doubles, in units of the least
  One           \* That of 1.0

ASSUME MagnitudesAssumption ==
  /\ Magnitudes \subseteq Nat /\ IsFiniteSet(Magnitudes)
  /\ 0 \in Magnitudes
  /\ One \in Magnitudes \ {0}
  /\ One \div 2 \in Magnitudes   \* That of 0.5

Largest == CHOOSE m \in Magnitudes : \A k \in Magnitudes : k <= m
Oo == Largest + 1

Doubles == [neg : BOOLEAN, mag : Magnitudes \union {Oo}]
NaN == [neg |-> FALSE, mag |-> -1]

Infinity == [neg |-> FALSE, mag |-> Oo]
Zero(neg) == [neg |-> neg, mag |-> 0]
Opposite(x) == IF x = NaN THEN NaN ELSE [x EXCEPT !.neg = ~@]
MinusInfinity == Opposite(Infinity)

(* The double of a number of units *)
OfNum(v) == [neg |-> v < 0, mag |-> IF v < 0 THEN -v ELSE v]

(* The value of a double other than a NaN, an infinity being beyond the rest *)
Num(x) == IF x.neg THEN -x.mag ELSE x.mag

IsInf(x) == x.mag = Oo
IsZero(x) == x.mag = 0

(* The comparisons, all false with a NaN *)
Leq(x, y) == x # NaN /\ y # NaN /\ Num(x) <= Num(y)
Lt(x, y)  == x # NaN /\ y # NaN /\ Num(x) < Num(y)
Eq(x, y)  == x # NaN /\ y # NaN /\ Num(x) = Num(y)

-----------------------------------------------------------------------------
FiniteNums == Magnitudes \union {-m : m \in Magnitudes}

(* The least finite double from a whole number q of units on, a sequence that *)
(* starts at q = -Largest                                                    *)
LeastFrom ==
  <<>> \o [i \in 1 .. 2 * Largest + 1 |->
             CHOOSE v \in FiniteNums :
               /\ v >= i - Largest - 1
               /\ \A w \in FiniteNums : w >= i - Largest - 1 => v <= w]
Least(q) == LeastFrom[IF q < -Largest THEN 1 ELSE q + Largest + 1]

CeilingOf(n, d) == -((-n) \div d)

(* The double of a number of units, neg being the sign of a 0 *)
Signed(v, neg) == IF v = 0 THEN Zero(neg) ELSE OfNum(v)

(* The least double at least q units *)
Rounded(q, neg) == IF q > Largest THEN Infinity ELSE Signed(Least(q), neg)

(* The least double at least n/d units, d > 0; neg, the sign of an exact 0   *)
RoundUp(n, d, neg) == Rounded(CeilingOf(n, d), IF n = 0 THEN neg ELSE TRUE)

(* x + y, rounded upward: an exact sum of 0 is +0, but of two -0 *)
AddUp(x, y) ==
  IF NaN \in {x, y} \/ (IsInf(x) /\ IsInf(y) /\ x # y) THEN NaN
  ELSE IF IsInf(x) THEN x
  ELSE IF IsInf(y) THEN y
  ELSE RoundUp(Num(x) + Num(y), 1, x = Zero(TRUE) /\ y = Zero(TRUE))

SubUp(x, y) == AddUp(x, Opposite(y))

(* x*y, rounded upward *)
MulUp(x, y) ==
  LET neg == x.neg # y.neg IN
  IF NaN \in {x, y} \/ (IsInf(x) /\ IsZero(y)) \/ (IsZero(x) /\ IsInf(y)) THEN NaN
  ELSE IF IsInf(x) \/ IsInf(y) THEN [neg |-> neg, mag |-> Oo]
  ELSE RoundUp(Num(x) * Num(y), One, neg)

(* x/y, rounded upward *)
DivUp(x, y) ==
  LET neg == x.neg # y.neg IN
  IF NaN \in {x, y} \/ (IsInf(x) /\ IsInf(y)) \/ (IsZero(x) /\ IsZero(y)) THEN NaN
  ELSE IF IsInf(x) \/ IsZero(y) THEN [neg |-> neg, mag |-> Oo]
  ELSE IF IsInf(y) THEN Zero(neg)
  ELSE RoundUp((IF y.neg THEN -1 ELSE 1) * Num(x) * One, y.mag, neg)

(* Rounding to nearest, ties to even, of n/d units *)
Even(m) == Cardinality({k \in Magnitudes : k < m}) % 2 = 0

(* The double above m, of a greater format where m is the largest *)
NextMagnitude(m) == IF m = Largest THEN 2 * Largest + Least(1 - Largest) ELSE Least(m + 1)

(* Whether size/d is nearer to the double above than to the one below *)
IsUpper(size, d, below, above) ==
  \/ (2 * size) \div d > below + above
  \/ (2 * size) \div d = below + above /\ ((2 * size) % d # 0 \/ ~Even(below))

(* The nearest to size/d of the doubles below and above it *)
NearestOf(size, d, below, above) ==
  IF ~IsUpper(size, d, below, above) THEN below ELSE IF above > Largest THEN Oo ELSE above

(* The size of the double nearest to size/d, from the one below *)
NearestFrom(size, d, below) == NearestOf(size, d, below, NextMagnitude(below))

FloorOf(q) == IF q >= Largest THEN Largest ELSE -Least(-q)

RoundNearest(n, d) ==
  LET size == IF n < 0 THEN -n ELSE n
  IN [neg |-> n < 0, mag |-> NearestFrom(size, d, FloorOf(size \div d))]

(* s_nextafter(x, +oo): the double above x; 0 keeps the sign of x *)
nextafter(x) == IF x \in {NaN, Infinity} THEN x ELSE Rounded(Num(x) + 1, TRUE)

next_float(x) == nextafter(x)
previous_float(x) == Opposite(nextafter(Opposite(x)))

(* maximum() and minimum() of gaol_common.cpp, which tell the zeros apart *)
maximum(x, y) ==
  IF NaN \in {x, y} THEN NaN
  ELSE IF x.neg THEN IF Leq(x, y) THEN y ELSE x
  ELSE IF Leq(y, x) THEN x ELSE y

minimum(x, y) ==
  IF NaN \in {x, y} THEN NaN
  ELSE IF x.neg THEN IF Leq(x, y) THEN x ELSE y
  ELSE IF Leq(y, x) THEN y ELSE x

(* _mm_max_pd(): the second operand for a NaN, or equal operands *)
MaxPd(x, y) == IF Lt(y, x) THEN x ELSE y

(* _mm_and_pd(x, _mm_cmpord_pd(x, x)): a NaN becomes +0 *)
NaNToZero(x) == IF x = NaN THEN Zero(FALSE) ELSE x

(* The sign bit of _mm_movemask_pd() *)
SignBit(x) == x.neg
=============================================================================
