-------------------------- MODULE IntervalReference --------------------------
(***************************************************************************)
(* What the operations of IntervalOps have to give, from the definition of *)
(* an interval operation: the hull, in doubles, of the results of the      *)
(* operation on reals ("tightest" in doc/accuracy.md, lines 14-19).        *)
(*                                                                         *)
(* The reals of an interval are represented by its finite bounds, a real   *)
(* beyond all doubles when it is not bounded, and reals next to 0, where   *)
(* the quotients tend to an infinity.  The operations being monotonic on   *)
(* each side of 0, the hull rounded outward of the results on them is that *)
(* of all the results.  Reals are integers, in units of 1/Fine of the      *)
(* least double above 0.                                                   *)
(***************************************************************************)
EXTENDS IntervalBounds

CONSTANTS
  Fine,     \* 1/Fine: a number whose inverse is beyond the doubles
  Beyond    \* A number of units whose sums and products are beyond the doubles

ASSUME FineAssumption ==
  /\ Fine \in Nat /\ Fine * One > Largest
  /\ Beyond \in Nat /\ Beyond > Largest * Largest * One /\ Beyond > 2 * Largest

(* A real within an interval *)
In(x, I) ==
  /\ ~is_empty(I)
  /\ left(I) = MinusInfinity \/ Num(left(I)) * Fine <= x
  /\ right(I) = Infinity \/ x <= Num(right(I)) * Fine

Samples(I) ==
  {x \in {b.mag * Fine * s : b \in {e \in {I.lb, I.rb} : e # NaN /\ ~IsInf(e)}, s \in {-1, 1}}
           \union {-Beyond * Fine, Beyond * Fine, -1, 0, 1} : In(x, I)}

(* The least double, in units, that no rational <<n, d>> of Q, d > 0, exceeds *)
Ceiling(Q) ==
  LET above == {v \in FiniteNums : \A q \in Q : q[1] <= v * q[2]}
  IN IF above = {} THEN Oo ELSE Min(above)

(* The hull in doubles of a set of rationals, the left bound negated *)
Hull(Q) ==
  IF Q = {} THEN << >>
  ELSE <<Ceiling({<<-(q[1]), q[2]>> : q \in Q}), Ceiling(Q)>>

(* The values of the bounds, the left one negated *)
Value(I) == IF is_empty(I) THEN << >> ELSE <<Num(I.lb), Num(I.rb)>>

Sums(I, J) == {<<x + y, Fine>> : x \in Samples(I), y \in Samples(J)}
Differences(I, J) == {<<x - y, Fine>> : x \in Samples(I), y \in Samples(J)}
RealProducts(I, J) == {<<x * y, Fine * Fine * One>> : x \in Samples(I), y \in Samples(J)}

Ratio(x, y) == IF y < 0 THEN <<-x * One, -y>> ELSE <<x * One, y>>

Ratios(I, J) == {Ratio(x, y) : x \in Samples(I), y \in Samples(J) \ {0}}

(* The hull of the x such that x*y is in I for a y of J *)
RelHull(I, J) ==
  IF In(0, I) /\ In(0, J) THEN <<Oo, Oo>> ELSE Hull(Ratios(I, J))

Squares(I) == {<<x * x, Fine * Fine * One>> : x \in Samples(I)}

Modulus(x) == IF x < 0 THEN -x ELSE x

Moduli(I) == {<<Modulus(x), Fine>> : x \in Samples(I)}
MaximaOf(I, J) == {<<IF x < y THEN y ELSE x, Fine>> : x \in Samples(I), y \in Samples(J)}
MinimaOf(I, J) == {<<IF x < y THEN x ELSE y, Fine>> : x \in Samples(I), y \in Samples(J)}

(* The x of I whose modulus is in K *)
OfModulus(I, K) ==
  LET near == Samples(I) \union Samples(K) \union {-y : y \in Samples(K)}
  IN {<<x, Fine>> : x \in {z \in near : In(z, I) /\ In(Modulus(z), K)}}

(* The farthest that the bounds of one side are *)
Farthest(I, J) == Max({Modulus(Num(I.lb) - Num(J.lb)), Modulus(Num(I.rb) - Num(J.rb))})

(* The middle of the bounds, which are finite *)
Middle(I) == {<<Num(I.rb) - Num(I.lb), 2>>}

(* x, a rational in units, times a y of J is in K *)
Solves(x, J, K) ==
  LET bound(b) == IF IsInf(b) THEN Num(b) * Beyond * Fine ELSE Num(b)
      ends == {-(x[1] * bound(J.lb)), x[1] * bound(J.rb)}
  IN /\ ~is_empty(J) /\ ~is_empty(K)
     /\ Min(ends) <= bound(K.rb) * x[2] * One
     /\ Max(ends) >= -(bound(K.lb) * x[2] * One)

InRational(x, I) ==
  /\ ~is_empty(I)
  /\ left(I) = MinusInfinity \/ Num(left(I)) * x[2] <= x[1]
  /\ right(I) = Infinity \/ x[1] <= Num(right(I)) * x[2]
=============================================================================
