---------------------------- MODULE IntervalProof ----------------------------
(***************************************************************************)
(* Proofs about the intervals of doubles, for every format: whatever the   *)
(* operations a program applies, each interval is one of IEEE 1788, or the *)
(* empty set with its two NaN bounds; the relations are those of the reals *)
(* of the intervals, represented by samples, and the sums, differences,    *)
(* products, squares, quotients and inverses are the hulls of the results  *)
(* on them, also with a double as an operand; the operations that undo     *)
(* others keep what they undo, div_rel() its solutions, and the functions  *)
(* of bounds are those of the reals.                                       *)
(*                                                                         *)
(* The reals of an interval are represented by samples, the least and the  *)
(* greatest of which are its bounds, or a real beyond all the doubles.  An *)
(* operation gives the hull when each bound that it stores is the least    *)
(* double at or above the extreme of the results on the samples            *)
(* (IsCeiling): the lemmas find the extremes of the sums, products and     *)
(* quotients of the samples by the sides of 0 on which they are, and which *)
(* of them the operation rounds.                                           *)
(***************************************************************************)
EXTENDS IntervalMachine, DoublesProof

-----------------------------------------------------------------------------
(* The intervals that are not empty, and all of them: what a program keeps *)
NonEmpty == {I \in [lb : Ends, rb : Ends] : Num(I.lb) + Num(I.rb) >= 0}
Intervals == NonEmpty \union {emptyset}

(* What the bounds of an interval that is not empty are.                    *)
LEMMA NonEmptyIs ==
  ASSUME NEW I \in NonEmpty
  PROVE  /\ I.lb \in Ends /\ I.rb \in Ends /\ I.lb \in Doubles /\ I.rb \in Doubles
         /\ Num(I.lb) \in Int /\ Num(I.rb) \in Int /\ Num(I.lb) + Num(I.rb) >= 0
         /\ left(I) \in Doubles /\ Num(left(I)) = -Num(I.lb) /\ left(I) # NaN
         /\ IsInf(left(I)) <=> IsInf(I.lb)
         /\ right(I) = I.rb
         /\ I.lb # NaN /\ I.rb # NaN
         /\ Num(I.lb) <= 0 => ~IsInf(I.lb)
         /\ Num(I.rb) <= 0 => ~IsInf(I.rb)
         /\ ~is_empty(I)
         /\ I = Bounds(I.lb, I.rb)
<1>1. I.lb \in Ends /\ I.rb \in Ends /\ Num(I.lb) + Num(I.rb) >= 0 /\ I = Bounds(I.lb, I.rb)
  BY DEF NonEmpty, Bounds
<1>2. /\ I.lb \in Doubles /\ I.rb \in Doubles /\ I.lb # NaN /\ I.rb # NaN
      /\ Num(I.lb) \in Int /\ Num(I.rb) \in Int
  BY <1>1, EndsAre
<1>3. /\ Num(I.lb) <= 0 => ~IsInf(I.lb)
      /\ Num(I.rb) <= 0 => ~IsInf(I.rb)
  <2>1. \A x \in Ends : Num(x) <= 0 => ~IsInf(x)
    BY EndsAre, LargestMagnitude
  <2> QED
    BY <1>1, <2>1
<1>4. /\ left(I) \in Doubles /\ Num(left(I)) = -Num(I.lb) /\ left(I) # NaN
      /\ left(I).mag = I.lb.mag
  BY <1>2, OppositeIsDouble, FiniteOrInfinite DEF left
<1>5. IsInf(left(I)) <=> IsInf(I.lb)
  BY <1>4 DEF IsInf
<1>6. right(I) = I.rb
  BY DEF right
<1>7. ~is_empty(I)
  BY <1>1, <1>2, <1>4, <1>6 DEF is_empty, Leq
<1> QED
  BY <1>1, <1>2, <1>3, <1>4, <1>5, <1>6, <1>7

(* The empty set is the interval of NaN bounds.                             *)
LEMMA EmptySetIs ==
  /\ emptyset.lb = NaN /\ emptyset.rb = NaN /\ left(emptyset) = NaN /\ right(emptyset) = NaN
  /\ is_empty(emptyset)
  /\ \A I \in Intervals : is_empty(I) <=> I = emptyset
  /\ \A I \in Intervals : ~is_empty(I) <=> I \in NonEmpty
<1>1. /\ emptyset.lb = NaN /\ emptyset.rb = NaN /\ left(emptyset) = NaN /\ right(emptyset) = NaN
  BY OppositeIsDouble DEF emptyset, Bounds, left, right
<1>2. is_empty(emptyset)
  BY <1>1 DEF is_empty, Leq
<1>3. \A I \in NonEmpty : ~is_empty(I)
  BY NonEmptyIs
<1> QED
  BY <1>1, <1>2, <1>3 DEF Intervals

(* Two ends that bound from above two numbers, of a sum not below 0, are     *)
(* the bounds of an interval.                                               *)
LEMMA UppersArePair ==
  ASSUME NEW lb \in Ends, NEW rb \in Ends, NEW n \in Int, NEW k \in Int, NEW d \in Nat, d >= 1,
         n + k >= 0, AtLeast(lb, n, d), AtLeast(rb, k, d)
  PROVE  Bounds(lb, rb) \in NonEmpty
<1>1. /\ Num(lb) \in Int /\ Num(rb) \in Int /\ -Largest <= Num(lb) /\ -Largest <= Num(rb)
      /\ Largest \in Nat
      /\ lb = Infinity => Num(lb) = Largest + 1
      /\ rb = Infinity => Num(rb) = Largest + 1
  BY EndsAre, LargestMagnitude
<1>2. Num(lb) + Num(rb) >= 0
  <2>1. CASE lb = Infinity \/ rb = Infinity
    BY <1>1, <2>1
  <2>2. CASE lb # Infinity /\ rb # Infinity
    <3> DEFINE a == Num(lb)
               b == Num(rb)
    <3>1. a \in Int /\ b \in Int
      BY <1>1
    <3>2. n <= d * a /\ k <= d * b
      BY <2>2 DEF AtLeast
    <3> HIDE DEF a, b
    <3>3. d * (a + b) = d * a + d * b /\ d * a \in Int /\ d * b \in Int
      BY <3>1
    <3>4. d * (a + b) >= 0
      BY <3>2, <3>3
    <3>5. ASSUME a + b <= -1 PROVE d * (a + b) <= -1
      <4>1. -(a + b) \in Nat /\ -(a + b) >= 1
        BY <3>1, <3>5
      <4>2. 1 * 1 <= d * (-(a + b))
        BY <4>1, ProductsGrow
      <4> QED
        BY <3>1, <4>2
    <3>6. a + b >= 0
      BY <3>1, <3>4, <3>5
    <3> QED
      BY <3>6 DEF a, b
  <2> QED
    BY <2>1, <2>2
<1> QED
  BY <1>2 DEF NonEmpty, Bounds

(* The same when the numbers are fractions n/p and k/q.                     *)
LEMMA FractionsArePair ==
  ASSUME NEW lb \in Ends, NEW rb \in Ends, NEW n \in Int, NEW k \in Int,
         NEW p \in Nat, NEW q \in Nat, p >= 1, q >= 1,
         q * n + p * k >= 0, AtLeast(lb, One * n, p), AtLeast(rb, One * k, q)
  PROVE  Bounds(lb, rb) \in NonEmpty
<1>1. Num(lb) \in Int /\ Num(rb) \in Int /\ One \in Nat
  BY EndsAre, LargestMagnitude
<1>2. ASSUME NEW u \in Int, NEW v \in Int, NEW f \in Nat, u <= v PROVE f * u <= f * v
  <2>1. f * (v - u) >= 0
    BY <1>2, SignsMultiply
  <2> QED
    BY <2>1
<1>3. AtLeast(lb, q * (One * n), p * q)
  <2>1. One * n <= p * Num(lb) => q * (One * n) <= q * (p * Num(lb))
    BY <1>1, <1>2
  <2>2. q * (p * Num(lb)) = (p * q) * Num(lb)
    BY <1>1
  <2> QED
    BY <2>1, <2>2 DEF AtLeast
<1>4. AtLeast(rb, p * (One * k), p * q)
  <2>1. One * k <= q * Num(rb) => p * (One * k) <= p * (q * Num(rb))
    BY <1>1, <1>2
  <2>2. p * (q * Num(rb)) = (p * q) * Num(rb)
    BY <1>1
  <2> QED
    BY <2>1, <2>2 DEF AtLeast
<1>5. q * (One * n) + p * (One * k) >= 0
  <2>1. q * (One * n) + p * (One * k) = One * (q * n + p * k)
    BY <1>1
  <2>2. One * (q * n + p * k) >= 0
    BY <1>1, SignsMultiply
  <2> QED
    BY <2>1, <2>2
<1>6. p * q \in Nat /\ p * q >= 1
  <2>1. 1 * 1 <= p * q
    BY ProductsGrow
  <2> QED
    BY <2>1
<1>7. q * (One * n) \in Int /\ p * (One * k) \in Int
  BY <1>1
<1> QED
  BY <1>3, <1>4, <1>5, <1>6, <1>7, UppersArePair

-----------------------------------------------------------------------------
(* A side that tells the signs of the bounds *)
OnSide(side, I) ==
  /\ side \in {"P", "M", "N"}
  /\ side = "P" => Num(I.lb) <= 0 /\ Num(I.rb) >= 0
  /\ side = "M" => Num(I.lb) >= 0 /\ Num(I.rb) >= 0
  /\ side = "N" => Num(I.lb) >= 0 /\ Num(I.rb) <= 0

(* Products of bounds that are those of an interval.                        *)
LEMMA ProductsArePair ==
  ASSUME NEW x \in Doubles, NEW y \in Doubles, NEW v \in Doubles, NEW w \in Doubles,
         IsInf(x) \/ IsInf(y) => Agree(x, y), IsInf(v) \/ IsInf(w) => Agree(v, w),
         Num(x) * Num(y) + Num(v) * Num(w) >= 0
  PROVE  Bounds(NaNToZero(MulUp(x, y)), NaNToZero(MulUp(v, w))) \in NonEmpty
<1>1. /\ Num(x) * Num(y) \in Int /\ Num(v) * Num(w) \in Int
      /\ One \in Nat /\ One >= 1
  BY NumOfMagnitude, LargestMagnitude
<1>2. /\ NaNToZero(MulUp(x, y)) \in Ends
      /\ AtLeast(NaNToZero(MulUp(x, y)), Num(x) * Num(y), One)
  BY ProductIsUpper
<1>3. /\ NaNToZero(MulUp(v, w)) \in Ends
      /\ AtLeast(NaNToZero(MulUp(v, w)), Num(v) * Num(w), One)
  BY ProductIsUpper
<1> QED
  BY <1>1, <1>2, <1>3, UppersArePair

(* The products that operator*= takes are the bounds of an interval.         *)
LEMMA ProductsAreInterval ==
  ASSUME NEW I \in NonEmpty, NEW J \in NonEmpty, NEW s, NEW t, OnSide(s, I), OnSide(t, J)
  PROVE  Products(<<s, t>>, I, J) \in NonEmpty
<1> DEFINE a == Num(I.lb)
           b == Num(I.rb)
           c == Num(J.lb)
           d == Num(J.rb)
           of(x, y, v, w) == Bounds(NaNToZero(MulUp(x, y)), NaNToZero(MulUp(v, w)))
<1>1. /\ I.lb \in Doubles /\ I.rb \in Doubles /\ J.lb \in Doubles /\ J.rb \in Doubles
      /\ a \in Int /\ b \in Int /\ c \in Int /\ d \in Int /\ a + b >= 0 /\ c + d >= 0
      /\ a <= 0 => ~IsInf(I.lb)
      /\ b <= 0 => ~IsInf(I.rb)
      /\ c <= 0 => ~IsInf(J.lb)
      /\ d <= 0 => ~IsInf(J.rb)
  BY NonEmptyIs
<1>2. \A x \in Doubles : /\ Opposite(x) \in Doubles /\ Num(Opposite(x)) = -Num(x)
                         /\ IsInf(Opposite(x)) <=> IsInf(x)
  BY OppositeIsDouble DEF IsInf
<1>3. /\ a <= 0 /\ c <= 0 => a * (-c) + b * d >= 0
      /\ b >= 0 => b * c + b * d >= 0
      /\ a <= 0 /\ d <= 0 => b * c + (-a) * d >= 0
      /\ d >= 0 => a * d + b * d >= 0
      /\ c >= 0 => b * c + a * c >= 0
      /\ b <= 0 /\ c <= 0 => a * d + b * (-c) >= 0
      /\ a >= 0 => a * d + a * c >= 0
      /\ b <= 0 /\ d <= 0 => b * (-d) + a * c >= 0
  BY <1>1, BoundsMultiply
<1>0. /\ a = Num(I.lb) /\ b = Num(I.rb) /\ c = Num(J.lb) /\ d = Num(J.rb)
      /\ Num(Opposite(I.lb)) = -a /\ Num(Opposite(J.lb)) = -c /\ Num(Opposite(J.rb)) = -d
  BY <1>1, <1>2
<1>14. ASSUME NEW x \in Doubles, NEW y \in Doubles, NEW v \in Doubles, NEW w \in Doubles,
               IsInf(x) \/ IsInf(y) => Agree(x, y), IsInf(v) \/ IsInf(w) => Agree(v, w),
               Num(x) * Num(y) + Num(v) * Num(w) >= 0
       PROVE  of(x, y, v, w) \in NonEmpty
  BY <1>14, ProductsArePair
<1> HIDE DEF of
<1>4. /\ s = "P" \/ s = "M" \/ s = "N"
      /\ t = "P" \/ t = "M" \/ t = "N"
      /\ s = "P" => a <= 0 /\ b >= 0
      /\ s = "M" => a >= 0 /\ b >= 0
      /\ s = "N" => a >= 0 /\ b <= 0
      /\ t = "P" => c <= 0 /\ d >= 0
      /\ t = "M" => c >= 0 /\ d >= 0
      /\ t = "N" => c >= 0 /\ d <= 0
  BY DEF OnSide
<1> HIDE DEF a, b, c, d
<1>5. CASE s = "P" /\ t = "P"
  <2>1. Products(<<s, t>>, I, J) = of(I.lb, Opposite(J.lb), I.rb, J.rb)
    BY <1>5 DEF Products, of
  <2>2. /\ IsInf(I.lb) \/ IsInf(Opposite(J.lb)) => Agree(I.lb, Opposite(J.lb))
        /\ IsInf(I.rb) \/ IsInf(J.rb) => Agree(I.rb, J.rb)
    BY <1>0, <1>1, <1>2, <1>4, <1>5 DEF Agree
  <2>3. Num(I.lb) * Num(Opposite(J.lb)) + Num(I.rb) * Num(J.rb) >= 0
    <3>1. a * (-c) + b * d >= 0
      BY <1>3, <1>4, <1>5
    <3> QED
      BY <1>0, <3>1
  <2>4. I.lb \in Doubles /\ Opposite(J.lb) \in Doubles /\ I.rb \in Doubles /\ J.rb \in Doubles
    BY <1>1, <1>2
  <2>5. of(I.lb, Opposite(J.lb), I.rb, J.rb) \in NonEmpty
    BY <1>14, <2>2, <2>3, <2>4
  <2> QED
    BY <2>1, <2>5
<1>6. CASE s = "P" /\ t = "M"
  <2>1. Products(<<s, t>>, I, J) = of(I.rb, J.lb, I.rb, J.rb)
    BY <1>6 DEF Products, of
  <2>2. /\ IsInf(I.rb) \/ IsInf(J.lb) => Agree(I.rb, J.lb)
        /\ IsInf(I.rb) \/ IsInf(J.rb) => Agree(I.rb, J.rb)
    BY <1>0, <1>1, <1>2, <1>4, <1>6 DEF Agree
  <2>3. Num(I.rb) * Num(J.lb) + Num(I.rb) * Num(J.rb) >= 0
    <3>1. b * c + b * d >= 0
      BY <1>3, <1>4, <1>6
    <3> QED
      BY <1>0, <3>1
  <2>4. I.rb \in Doubles /\ J.lb \in Doubles /\ I.rb \in Doubles /\ J.rb \in Doubles
    BY <1>1, <1>2
  <2>5. of(I.rb, J.lb, I.rb, J.rb) \in NonEmpty
    BY <1>14, <2>2, <2>3, <2>4
  <2> QED
    BY <2>1, <2>5
<1>7. CASE s = "P" /\ t = "N"
  <2>1. Products(<<s, t>>, I, J) = of(I.rb, J.lb, Opposite(I.lb), J.rb)
    BY <1>7 DEF Products, of
  <2>2. /\ IsInf(I.rb) \/ IsInf(J.lb) => Agree(I.rb, J.lb)
        /\ IsInf(Opposite(I.lb)) \/ IsInf(J.rb) => Agree(Opposite(I.lb), J.rb)
    BY <1>0, <1>1, <1>2, <1>4, <1>7 DEF Agree
  <2>3. Num(I.rb) * Num(J.lb) + Num(Opposite(I.lb)) * Num(J.rb) >= 0
    <3>1. b * c + (-a) * d >= 0
      BY <1>3, <1>4, <1>7
    <3> QED
      BY <1>0, <3>1
  <2>4. I.rb \in Doubles /\ J.lb \in Doubles /\ Opposite(I.lb) \in Doubles /\ J.rb \in Doubles
    BY <1>1, <1>2
  <2>5. of(I.rb, J.lb, Opposite(I.lb), J.rb) \in NonEmpty
    BY <1>14, <2>2, <2>3, <2>4
  <2> QED
    BY <2>1, <2>5
<1>8. CASE s = "M" /\ t = "P"
  <2>1. Products(<<s, t>>, I, J) = of(I.lb, J.rb, I.rb, J.rb)
    BY <1>8 DEF Products, of
  <2>2. /\ IsInf(I.lb) \/ IsInf(J.rb) => Agree(I.lb, J.rb)
        /\ IsInf(I.rb) \/ IsInf(J.rb) => Agree(I.rb, J.rb)
    BY <1>0, <1>1, <1>2, <1>4, <1>8 DEF Agree
  <2>3. Num(I.lb) * Num(J.rb) + Num(I.rb) * Num(J.rb) >= 0
    <3>1. a * d + b * d >= 0
      BY <1>3, <1>4, <1>8
    <3> QED
      BY <1>0, <3>1
  <2>4. I.lb \in Doubles /\ J.rb \in Doubles /\ I.rb \in Doubles /\ J.rb \in Doubles
    BY <1>1, <1>2
  <2>5. of(I.lb, J.rb, I.rb, J.rb) \in NonEmpty
    BY <1>14, <2>2, <2>3, <2>4
  <2> QED
    BY <2>1, <2>5
<1>9. CASE s = "M" /\ t = "N"
  <2>1. Products(<<s, t>>, I, J) = of(I.rb, J.lb, I.lb, J.lb)
    BY <1>9 DEF Products, of
  <2>2. /\ IsInf(I.rb) \/ IsInf(J.lb) => Agree(I.rb, J.lb)
        /\ IsInf(I.lb) \/ IsInf(J.lb) => Agree(I.lb, J.lb)
    BY <1>0, <1>1, <1>2, <1>4, <1>9 DEF Agree
  <2>3. Num(I.rb) * Num(J.lb) + Num(I.lb) * Num(J.lb) >= 0
    <3>1. b * c + a * c >= 0
      BY <1>3, <1>4, <1>9
    <3> QED
      BY <1>0, <3>1
  <2>4. I.rb \in Doubles /\ J.lb \in Doubles /\ I.lb \in Doubles /\ J.lb \in Doubles
    BY <1>1, <1>2
  <2>5. of(I.rb, J.lb, I.lb, J.lb) \in NonEmpty
    BY <1>14, <2>2, <2>3, <2>4
  <2> QED
    BY <2>1, <2>5
<1>10. CASE s = "N" /\ t = "P"
  <2>1. Products(<<s, t>>, I, J) = of(I.lb, J.rb, I.rb, Opposite(J.lb))
    BY <1>10 DEF Products, of
  <2>2. /\ IsInf(I.lb) \/ IsInf(J.rb) => Agree(I.lb, J.rb)
        /\ IsInf(I.rb) \/ IsInf(Opposite(J.lb)) => Agree(I.rb, Opposite(J.lb))
    BY <1>0, <1>1, <1>2, <1>4, <1>10 DEF Agree
  <2>3. Num(I.lb) * Num(J.rb) + Num(I.rb) * Num(Opposite(J.lb)) >= 0
    <3>1. a * d + b * (-c) >= 0
      BY <1>3, <1>4, <1>10
    <3> QED
      BY <1>0, <3>1
  <2>4. I.lb \in Doubles /\ J.rb \in Doubles /\ I.rb \in Doubles /\ Opposite(J.lb) \in Doubles
    BY <1>1, <1>2
  <2>5. of(I.lb, J.rb, I.rb, Opposite(J.lb)) \in NonEmpty
    BY <1>14, <2>2, <2>3, <2>4
  <2> QED
    BY <2>1, <2>5
<1>11. CASE s = "N" /\ t = "M"
  <2>1. Products(<<s, t>>, I, J) = of(I.lb, J.rb, I.lb, J.lb)
    BY <1>11 DEF Products, of
  <2>2. /\ IsInf(I.lb) \/ IsInf(J.rb) => Agree(I.lb, J.rb)
        /\ IsInf(I.lb) \/ IsInf(J.lb) => Agree(I.lb, J.lb)
    BY <1>0, <1>1, <1>2, <1>4, <1>11 DEF Agree
  <2>3. Num(I.lb) * Num(J.rb) + Num(I.lb) * Num(J.lb) >= 0
    <3>1. a * d + a * c >= 0
      BY <1>3, <1>4, <1>11
    <3> QED
      BY <1>0, <3>1
  <2>4. I.lb \in Doubles /\ J.rb \in Doubles /\ I.lb \in Doubles /\ J.lb \in Doubles
    BY <1>1, <1>2
  <2>5. of(I.lb, J.rb, I.lb, J.lb) \in NonEmpty
    BY <1>14, <2>2, <2>3, <2>4
  <2> QED
    BY <2>1, <2>5
<1>12. CASE s = "N" /\ t = "N"
  <2>1. Products(<<s, t>>, I, J) = of(I.rb, Opposite(J.rb), I.lb, J.lb)
    BY <1>12 DEF Products, of
  <2>2. /\ IsInf(I.rb) \/ IsInf(Opposite(J.rb)) => Agree(I.rb, Opposite(J.rb))
        /\ IsInf(I.lb) \/ IsInf(J.lb) => Agree(I.lb, J.lb)
    BY <1>0, <1>1, <1>2, <1>4, <1>12 DEF Agree
  <2>3. Num(I.rb) * Num(Opposite(J.rb)) + Num(I.lb) * Num(J.lb) >= 0
    <3>1. b * (-d) + a * c >= 0
      BY <1>3, <1>4, <1>12
    <3> QED
      BY <1>0, <3>1
  <2>4. I.rb \in Doubles /\ Opposite(J.rb) \in Doubles /\ I.lb \in Doubles /\ J.lb \in Doubles
    BY <1>1, <1>2
  <2>5. of(I.rb, Opposite(J.rb), I.lb, J.lb) \in NonEmpty
    BY <1>14, <2>2, <2>3, <2>4
  <2> QED
    BY <2>1, <2>5
<1>13. CASE s = "M" /\ t = "M"
  <2> DEFINE Mul(x, y) == NaNToZero(MulUp(x, y))
  <2>1. Products(<<s, t>>, I, J) = Bounds(MaxPd(Mul(I.lb, J.rb), Mul(I.rb, J.lb)),
                                        MaxPd(Mul(I.lb, J.lb), Mul(I.rb, J.rb)))
    BY <1>13 DEF Products
  <2>2. ASSUME NEW x \in Doubles, NEW y \in Doubles, Num(x) >= 0, Num(y) >= 0
        PROVE  Mul(x, y) \in Ends /\ AtLeast(Mul(x, y), 0, One)
    <3>1. Agree(x, y)
      BY <2>2 DEF Agree
    <3>2. Mul(x, y) \in Ends /\ AtLeast(Mul(x, y), Num(x) * Num(y), One)
      BY <3>1, ProductIsUpper
    <3>3. /\ Num(x) * Num(y) >= 0 /\ Num(x) * Num(y) \in Int
          /\ One * Num(Mul(x, y)) \in Int
      BY <2>2, <3>2, NumOfMagnitude, LargestMagnitude, SignsMultiply, EndsAre
    <3> QED
      BY <3>2, <3>3 DEF AtLeast
  <2> HIDE DEF Mul
  <2>3. \A x \in {I.lb, I.rb}, y \in {J.lb, J.rb} :
          Mul(x, y) \in Ends /\ AtLeast(Mul(x, y), 0, One)
    <3>1. \A x \in {I.lb, I.rb} : x \in Doubles /\ Num(x) >= 0
      BY <1>0, <1>1, <1>4, <1>13
    <3>2. \A y \in {J.lb, J.rb} : y \in Doubles /\ Num(y) >= 0
      BY <1>0, <1>1, <1>4, <1>13
    <3> QED
      BY <2>2, <3>1, <3>2
  <2>4. \A u, v \in Ends : AtLeast(u, 0, One) /\ AtLeast(v, 0, One) =>
          MaxPd(u, v) \in Ends /\ AtLeast(MaxPd(u, v), 0, One)
    BY MaxPdIsUpper
  <2>5. \A u, v \in Ends : AtLeast(u, 0, One) /\ AtLeast(v, 0, One) => Bounds(u, v) \in NonEmpty
    BY UppersArePair, LargestMagnitude
  <2> QED
    BY <2>1, <2>3, <2>4, <2>5
<1> QED
  BY <1>4, <1>5, <1>6, <1>7, <1>8, <1>9, <1>10, <1>11, <1>12, <1>13

(* How the bounds compare with 0, and with the infinities.                  *)
LEMMA BoundsCompare ==
  ASSUME NEW I \in NonEmpty
  PROVE  /\ Leq(Zero(FALSE), left(I)) <=> Num(I.lb) <= 0
         /\ Leq(left(I), Zero(FALSE)) <=> Num(I.lb) >= 0
         /\ Lt(left(I), Zero(FALSE)) <=> Num(I.lb) > 0
         /\ Leq(right(I), Zero(FALSE)) <=> Num(I.rb) <= 0
         /\ Leq(Zero(FALSE), right(I)) <=> Num(I.rb) >= 0
         /\ Lt(right(I), Zero(FALSE)) <=> Num(I.rb) < 0
         /\ Lt(Zero(FALSE), right(I)) <=> Num(I.rb) > 0
         /\ IsZero(left(I)) <=> Num(I.lb) = 0
         /\ IsZero(right(I)) <=> Num(I.rb) = 0
         /\ is_zero(I) <=> Num(I.lb) = 0 /\ Num(I.rb) = 0
         /\ Lt(left(I), Infinity) /\ Lt(MinusInfinity, right(I))
<1> DEFINE z == Zero(FALSE)
<1>1. z \in Doubles /\ Num(z) = 0 /\ z # NaN
  BY EndsAre
<1> HIDE DEF z
<1>2. /\ left(I) \in Doubles /\ Num(left(I)) = -Num(I.lb) /\ left(I) # NaN
      /\ right(I) = I.rb /\ I.rb \in Doubles /\ I.rb # NaN
      /\ Num(I.lb) \in Int /\ Num(I.rb) \in Int
      /\ I.lb \in Ends /\ I.rb \in Ends
  BY NonEmptyIs
<1>3. /\ Leq(z, left(I)) <=> Num(I.lb) <= 0
      /\ Leq(left(I), z) <=> Num(I.lb) >= 0
      /\ Lt(left(I), z) <=> Num(I.lb) > 0
      /\ Eq(left(I), z) <=> Num(I.lb) = 0
  BY <1>1, <1>2 DEF Leq, Lt, Eq
<1>4. /\ Leq(right(I), z) <=> Num(I.rb) <= 0
      /\ Leq(z, right(I)) <=> Num(I.rb) >= 0
      /\ Lt(right(I), z) <=> Num(I.rb) < 0
      /\ Lt(z, right(I)) <=> Num(I.rb) > 0
      /\ Eq(right(I), z) <=> Num(I.rb) = 0
  BY <1>1, <1>2 DEF Leq, Lt, Eq
<1>5. /\ IsZero(left(I)) <=> Num(I.lb) = 0
      /\ IsZero(right(I)) <=> Num(I.rb) = 0
  BY <1>2, FiniteOrInfinite
<1>6. is_zero(I) <=> Num(I.lb) = 0 /\ Num(I.rb) = 0
  BY <1>3, <1>4 DEF is_zero, z
<1>7. Lt(left(I), Infinity) /\ Lt(MinusInfinity, right(I))
  <2>1. /\ Infinity \in Doubles /\ Infinity # NaN /\ Num(Infinity) = Largest + 1
        /\ -Largest <= Num(I.lb) /\ -Largest <= Num(I.rb) /\ Largest \in Nat
    BY <1>2, EndsAre, LargestMagnitude
  <2>2. MinusInfinity \in Doubles /\ MinusInfinity # NaN /\ Num(MinusInfinity) = -(Largest + 1)
    BY <2>1, OppositeIsDouble, FiniteOrInfinite DEF MinusInfinity
  <2>3. Num(left(I)) < Num(Infinity)
    BY <1>2, <2>1
  <2>4. Num(MinusInfinity) < Num(right(I))
    BY <1>2, <2>1, <2>2
  <2> QED
    BY <1>2, <2>1, <2>2, <2>3, <2>4 DEF Lt
<1> QED
  BY <1>3, <1>4, <1>5, <1>6, <1>7 DEF z

(* The sides that the sign bits tell, and those that the bounds tell.       *)
LEMMA SidesAre ==
  ASSUME NEW I \in NonEmpty
  PROVE  /\ SideBySigns(I) # "Z" => OnSide(SideBySigns(I), I)
         /\ SideByBounds(I) # "Z" => OnSide(SideByBounds(I), I)
<1>1. /\ I.lb \in Doubles /\ I.rb \in Doubles /\ Num(I.lb) \in Int /\ Num(I.rb) \in Int
      /\ Num(I.lb) + Num(I.rb) >= 0 /\ ~is_empty(I)
  BY NonEmptyIs
<1>2. \A x \in Doubles : /\ SignBit(x) => Num(x) <= 0
                         /\ ~SignBit(x) => Num(x) >= 0
  BY NumOfMagnitude DEF SignBit
<1>3. SideBySigns(I) # "Z" => OnSide(SideBySigns(I), I)
  BY <1>1, <1>2 DEF SideBySigns, OnSide
<1>4. /\ is_zero(I) <=> Num(I.lb) = 0 /\ Num(I.rb) = 0
      /\ certainly_positive(I) <=> Num(I.lb) <= 0
      /\ strictly_straddles_zero(I) <=> Num(I.lb) > 0 /\ Num(I.rb) > 0
  BY <1>1, BoundsCompare DEF certainly_positive, strictly_straddles_zero
<1>5. SideByBounds(I) # "Z" => OnSide(SideByBounds(I), I)
  BY <1>1, <1>4 DEF SideByBounds, OnSide
<1> QED
  BY <1>3, <1>5

(* The constants are intervals.                                             *)
LEMMA ConstantsAreIntervals ==
  ASSUME Sse \in BOOLEAN
  PROVE  /\ zero \in NonEmpty /\ universe \in NonEmpty
         /\ positive \in NonEmpty /\ negative \in NonEmpty
         /\ Bounds(Zero(FALSE), Infinity) \in NonEmpty
         /\ \A x \in Ends : Bounds(Infinity, x) \in NonEmpty /\ Bounds(x, Infinity) \in NonEmpty
         /\ \A a, b \in BOOLEAN : Bounds(Zero(a), Zero(b)) \in NonEmpty
<1>1. /\ Infinity \in Ends /\ Num(Infinity) = Largest + 1 /\ Largest \in Nat
      /\ \A x \in Ends : Num(x) \in Int /\ -Largest <= Num(x)
      /\ \A a \in BOOLEAN : Zero(a) \in Ends /\ Num(Zero(a)) = 0
  BY EndsAre, LargestMagnitude
<1>2. \A x \in Ends : Bounds(Infinity, x) \in NonEmpty /\ Bounds(x, Infinity) \in NonEmpty
  BY <1>1 DEF NonEmpty, Bounds
<1>3. \A a, b \in BOOLEAN : Bounds(Zero(a), Zero(b)) \in NonEmpty
  BY <1>1 DEF NonEmpty, Bounds
<1>4. (~Sse) \in BOOLEAN
  OBVIOUS
<1> QED
  BY <1>1, <1>2, <1>3, <1>4 DEF zero, universe, positive, negative

(* operator*= gives an interval.                                            *)
LEMMA ProductIsInterval ==
  ASSUME NEW I \in Intervals, NEW J \in Intervals, Sse \in BOOLEAN
  PROVE  Product(I, J) \in Intervals
<1> DEFINE side(K) == IF Sse THEN SideBySigns(K) ELSE SideByBounds(K)
<1>1. CASE is_empty(I) \/ is_empty(J)
  BY <1>1 DEF Product, Intervals
<1>2. CASE ~is_empty(I) /\ ~is_empty(J)
  <2>1. I \in NonEmpty /\ J \in NonEmpty
    BY <1>2, EmptySetIs
  <2>2. /\ side(I) # "Z" => OnSide(side(I), I)
        /\ side(J) # "Z" => OnSide(side(J), J)
    BY <2>1, SidesAre
  <2>3. Product(I, J) =
          IF side(I) = "Z" THEN IF Sse THEN zero ELSE I
          ELSE IF side(J) = "Z" THEN IF Sse THEN zero ELSE J
          ELSE Products(<<side(I), side(J)>>, I, J)
    BY <1>2 DEF Product
  <2> HIDE DEF side
  <2>4. zero \in NonEmpty
    BY ConstantsAreIntervals
  <2>5. side(I) # "Z" /\ side(J) # "Z" => Products(<<side(I), side(J)>>, I, J) \in NonEmpty
    BY <2>1, <2>2, ProductsAreInterval
  <2>6. Product(I, J) \in NonEmpty
    BY <2>1, <2>3, <2>4, <2>5
  <2> QED
    BY <2>6 DEF Intervals
<1> QED
  BY <1>1, <1>2

-----------------------------------------------------------------------------
(* Sums of bounds that are those of an interval.                            *)
LEMMA SumsArePair ==
  \A x, y, v, w \in Ends :
    (Num(x) + Num(y)) + (Num(v) + Num(w)) >= 0 => Bounds(AddUp(x, y), AddUp(v, w)) \in NonEmpty
<1>1. ASSUME NEW x \in Ends, NEW y \in Ends, NEW v \in Ends, NEW w \in Ends,
             (Num(x) + Num(y)) + (Num(v) + Num(w)) >= 0
      PROVE  Bounds(AddUp(x, y), AddUp(v, w)) \in NonEmpty
  <2>1. /\ AddUp(x, y) \in Ends /\ AtLeast(AddUp(x, y), Num(x) + Num(y), 1)
        /\ AddUp(v, w) \in Ends /\ AtLeast(AddUp(v, w), Num(v) + Num(w), 1)
    BY SumIsUpper
  <2>2. Num(x) + Num(y) \in Int /\ Num(v) + Num(w) \in Int
    BY EndsAre
  <2> QED
    BY <1>1, <2>1, <2>2, UppersArePair
<1> QED
  BY <1>1

(* operator+= gives an interval, and operator-= too, if it is not given its  *)
(* own object without SSE2.                                                 *)
LEMMA SumIsInterval ==
  ASSUME NEW I \in Intervals, NEW J \in Intervals, NEW same, same => Sse
  PROVE  Plus(I, J, same) \in Intervals /\ Difference(I, J, same) \in Intervals
<1>1. /\ Plus(I, J, same) = Bounds(AddUp(I.lb, J.lb), AddUp(I.rb, J.rb))
      /\ Difference(I, J, same) = Bounds(AddUp(I.lb, J.rb), AddUp(I.rb, J.lb))
  BY DEF Plus, Difference
<1>2. CASE I = emptyset \/ J = emptyset
  <2>1. /\ AddUp(I.lb, J.lb) = NaN /\ AddUp(I.rb, J.rb) = NaN
        /\ AddUp(I.lb, J.rb) = NaN /\ AddUp(I.rb, J.lb) = NaN
    BY <1>2, EmptySetIs, SumOfNaN
  <2> QED
    BY <1>1, <2>1 DEF Intervals, emptyset
<1>3. CASE I \in NonEmpty /\ J \in NonEmpty
  <2>1. /\ I.lb \in Ends /\ I.rb \in Ends /\ J.lb \in Ends /\ J.rb \in Ends
        /\ Num(I.lb) \in Int /\ Num(I.rb) \in Int /\ Num(J.lb) \in Int /\ Num(J.rb) \in Int
        /\ Num(I.lb) + Num(I.rb) >= 0 /\ Num(J.lb) + Num(J.rb) >= 0
    BY <1>3, NonEmptyIs
  <2>3. /\ (Num(I.lb) + Num(J.lb)) + (Num(I.rb) + Num(J.rb)) >= 0
        /\ (Num(I.lb) + Num(J.rb)) + (Num(I.rb) + Num(J.lb)) >= 0
    BY <2>1
  <2>4. Plus(I, J, same) \in NonEmpty /\ Difference(I, J, same) \in NonEmpty
    BY <1>1, <2>1, <2>3, SumsArePair
  <2> QED
    BY <2>4 DEF Intervals
<1> QED
  BY <1>2, <1>3 DEF Intervals

-----------------------------------------------------------------------------
(* The quotient x/y as a fraction of a denominator above 0 *)
Numer(x, y) == IF Num(y) > 0 THEN Num(x) ELSE -Num(x)
Denom(y) == IF Num(y) > 0 THEN Num(y) ELSE -Num(y)

(* The operands of a quotient that is not a NaN nor -oo *)
Divides(x, y) ==
  /\ Num(y) # 0
  /\ IsInf(x) => Agree(x, y) /\ ~IsInf(y)
  /\ IsInf(y) => Agree(x, Opposite(y))

(* Quotients of bounds that are those of an interval.                       *)
LEMMA QuotientsArePair ==
  /\ \A x, y, v, w \in Doubles :
       Divides(x, y) /\ Divides(v, w) /\ Denom(w) * Numer(x, y) + Denom(y) * Numer(v, w) >= 0 =>
         Bounds(DivUp(x, y), DivUp(v, w)) \in NonEmpty
  /\ \A x, y \in Doubles, a \in BOOLEAN :
       Divides(x, y) /\ Numer(x, y) >= 0 =>
         /\ Bounds(DivUp(x, y), Zero(a)) \in NonEmpty
         /\ Bounds(Zero(a), DivUp(x, y)) \in NonEmpty
  /\ \A x, y \in Doubles : Divides(x, y) => DivUp(x, y) \in Ends
<1>1. ASSUME NEW x \in Doubles, NEW y \in Doubles, Divides(x, y)
      PROVE  /\ DivUp(x, y) \in Ends
             /\ AtLeast(DivUp(x, y), One * Numer(x, y), Denom(y))
             /\ Numer(x, y) \in Int /\ Denom(y) \in Nat /\ Denom(y) >= 1
  <2>1. Num(x) \in Int /\ Num(y) \in Int /\ Num(y) # 0
    BY <1>1, NumOfMagnitude DEF Divides
  <2>2. /\ DivUp(x, y) \in Ends
        /\ Num(y) > 0 => AtLeast(DivUp(x, y), One * Num(x), Num(y))
        /\ Num(y) < 0 => AtLeast(DivUp(x, y), One * (-Num(x)), -Num(y))
    BY <1>1, QuotientIsUpper DEF Divides
  <2>3. CASE Num(y) > 0
    BY <2>1, <2>2, <2>3 DEF Numer, Denom
  <2>4. CASE Num(y) < 0
    <3>1. ~(Num(y) > 0)
      BY <2>1, <2>4
    <3> QED
      BY <2>1, <2>2, <2>4, <3>1 DEF Numer, Denom
  <2> QED
    BY <2>1, <2>3, <2>4
<1>2. ASSUME NEW x \in Doubles, NEW y \in Doubles, NEW v \in Doubles, NEW w \in Doubles,
             Divides(x, y), Divides(v, w), Denom(w) * Numer(x, y) + Denom(y) * Numer(v, w) >= 0
      PROVE  Bounds(DivUp(x, y), DivUp(v, w)) \in NonEmpty
  <2>1. /\ DivUp(x, y) \in Ends
        /\ AtLeast(DivUp(x, y), One * Numer(x, y), Denom(y))
        /\ Numer(x, y) \in Int /\ Denom(y) \in Nat /\ Denom(y) >= 1
    BY <1>1, <1>2
  <2>2. /\ DivUp(v, w) \in Ends
        /\ AtLeast(DivUp(v, w), One * Numer(v, w), Denom(w))
        /\ Numer(v, w) \in Int /\ Denom(w) \in Nat /\ Denom(w) >= 1
    BY <1>1, <1>2
  <2> QED
    BY <1>2, <2>1, <2>2, FractionsArePair
<1>3. ASSUME NEW x \in Doubles, NEW y \in Doubles, NEW a \in BOOLEAN,
             Divides(x, y), Numer(x, y) >= 0
      PROVE  /\ Bounds(DivUp(x, y), Zero(a)) \in NonEmpty
             /\ Bounds(Zero(a), DivUp(x, y)) \in NonEmpty
  <2> DEFINE z == Zero(a)
             r == DivUp(x, y)
             n == Numer(x, y)
             d == Denom(y)
  <2>1. /\ r \in Ends /\ AtLeast(r, One * n, d)
        /\ n \in Int /\ d \in Nat /\ d >= 1
    BY <1>1, <1>3
  <2>2. z \in Ends /\ Num(z) = 0
    BY EndsAre
  <2>3. n >= 0
    BY <1>3
  <2> HIDE DEF z, r, n, d
  <2>4. One * 0 = 0 /\ AtLeast(z, One * 0, 1)
    BY <2>2, LargestMagnitude DEF AtLeast
  <2>5. 1 * n + d * 0 >= 0 /\ d * 0 + 1 * n >= 0
    BY <2>1, <2>3
  <2>6. Bounds(r, z) \in NonEmpty
    BY <2>1, <2>2, <2>4, <2>5, FractionsArePair
  <2>7. Bounds(z, r) \in NonEmpty
    BY <2>1, <2>2, <2>4, <2>5, FractionsArePair
  <2> QED
    BY <2>6, <2>7 DEF z, r
<1> QED
  BY <1>1, <1>2, <1>3

(* The classes that operator/= tells.                                       *)
LEMMA ClassIs ==
  ASSUME NEW I \in NonEmpty
  PROVE  /\ Class(I) \in {"N1", "N0", "Z", "M", "P0", "P1"}
         /\ Class(I) = "N1" => Num(I.rb) < 0 /\ Num(I.lb) > 0
         /\ Class(I) = "N0" => Num(I.rb) = 0 /\ Num(I.lb) > 0
         /\ Class(I) = "Z"  => Num(I.rb) = 0 /\ Num(I.lb) = 0
         /\ Class(I) = "M"  => Num(I.rb) > 0 /\ Num(I.lb) > 0
         /\ Class(I) = "P0" => Num(I.rb) > 0 /\ Num(I.lb) = 0
         /\ Class(I) = "P1" => Num(I.rb) > 0 /\ Num(I.lb) < 0
<1> DEFINE z == Zero(FALSE)
<1>6. Class(I) =
        IF Lt(right(I), z) THEN "N1"
        ELSE IF IsZero(right(I)) THEN IF IsZero(left(I)) THEN "Z" ELSE "N0"
        ELSE IF Lt(left(I), z) THEN "M"
        ELSE IF IsZero(left(I)) THEN "P0" ELSE "P1"
  BY DEF Class
<1>1. /\ Num(I.lb) \in Int /\ Num(I.rb) \in Int /\ Num(I.lb) + Num(I.rb) >= 0
  BY NonEmptyIs
<1>2. /\ Lt(left(I), z) <=> Num(I.lb) > 0
      /\ Lt(right(I), z) <=> Num(I.rb) < 0
      /\ IsZero(left(I)) <=> Num(I.lb) = 0
      /\ IsZero(right(I)) <=> Num(I.rb) = 0
  BY BoundsCompare
<1> HIDE DEF z
<1>3. CASE Num(I.rb) < 0
  <2>1. Class(I) = "N1" /\ Num(I.lb) > 0
    BY <1>1, <1>2, <1>6, <1>3
  <2> QED
    BY <1>3, <2>1
<1>4. CASE Num(I.rb) = 0
  <2>1. Class(I) = IF Num(I.lb) = 0 THEN "Z" ELSE "N0"
    BY <1>1, <1>2, <1>6, <1>4
  <2> QED
    BY <1>1, <1>4, <2>1
<1>5. CASE Num(I.rb) > 0
  <2>1. Class(I) = IF Num(I.lb) > 0 THEN "M" ELSE IF Num(I.lb) = 0 THEN "P0" ELSE "P1"
    BY <1>1, <1>2, <1>6, <1>5
  <2> QED
    BY <1>1, <1>5, <2>1
<1> QED
  BY <1>1, <1>3, <1>4, <1>5

(* The quotients that operator/= takes, of a divisor on one side of 0, are   *)
(* the bounds of an interval.                                               *)
LEMMA QuotientsAreInterval ==
  ASSUME NEW I \in NonEmpty, NEW J \in NonEmpty, NEW s, NEW t, NEW same, same => Sse,
         Sse \in BOOLEAN, s = Class(I), t = Class(J), s # "Z", t \in {"N1", "P1"}
  PROVE  QuotientOneSide(<<s, t>>, I, J, same) \in NonEmpty
<1> DEFINE a == Num(I.lb)
           b == Num(I.rb)
           c == Num(J.lb)
           d == Num(J.rb)
<1>1. /\ I.lb \in Doubles /\ I.rb \in Doubles /\ J.lb \in Doubles /\ J.rb \in Doubles
      /\ left(I) \in Doubles
      /\ IsInf(left(I)) <=> IsInf(I.lb)
      /\ a \in Int /\ b \in Int /\ c \in Int /\ d \in Int /\ a + b >= 0 /\ c + d >= 0
      /\ a <= 0 => ~IsInf(I.lb)
      /\ b <= 0 => ~IsInf(I.rb)
      /\ c <= 0 => ~IsInf(J.lb)
      /\ d <= 0 => ~IsInf(J.rb)
  BY NonEmptyIs
<1>2. \A x \in Doubles : /\ Opposite(x) \in Doubles /\ Num(Opposite(x)) = -Num(x)
                         /\ IsInf(Opposite(x)) <=> IsInf(x)
  BY OppositeIsDouble DEF IsInf
<1>3. /\ s = "N1" => b < 0 /\ a > 0
      /\ s = "N0" => b = 0 /\ a > 0
      /\ s = "M"  => b > 0 /\ a > 0
      /\ s = "P0" => b > 0 /\ a = 0
      /\ s = "P1" => b > 0 /\ a < 0
      /\ t = "N1" => d < 0 /\ c > 0
      /\ t = "P1" => d > 0 /\ c < 0
  BY ClassIs
<1>4. /\ s = "N1" \/ s = "N0" \/ s = "M" \/ s = "P0" \/ s = "P1"
      /\ t = "N1" \/ t = "P1"
  BY ClassIs
<1>5. /\ a = Num(I.lb) /\ b = Num(I.rb) /\ c = Num(J.lb) /\ d = Num(J.rb)
      /\ Num(Opposite(I.rb)) = -b /\ Num(Opposite(J.lb)) = -c /\ Num(Opposite(J.rb)) = -d
      /\ Num(left(I)) = -a
      /\ Num(Opposite(Opposite(J.lb))) = c /\ Num(Opposite(Opposite(J.rb))) = d
      /\ (~Sse) \in BOOLEAN
  BY <1>1, <1>2, NonEmptyIs
<1>6. /\ a <= 0 /\ c <= 0 => a * (-c) + b * d >= 0
      /\ a <= 0 /\ d <= 0 => b * c + (-a) * d >= 0
      /\ b <= 0 /\ c <= 0 => a * d + b * (-c) >= 0
      /\ b <= 0 /\ d <= 0 => b * (-d) + a * c >= 0
  BY <1>1, BoundsMultiply
<1> HIDE DEF a, b, c, d
<1>7. CASE s = "N1" /\ t = "N1"
  <2>1. QuotientOneSide(<<s, t>>, I, J, same) = Bounds(DivUp(I.rb, J.lb), DivUp(I.lb, Opposite(J.rb)))
    BY <1>7 DEF QuotientOneSide
  <2>2. /\ Divides(I.rb, J.lb) /\ I.rb \in Doubles /\ J.lb \in Doubles
        /\ Numer(I.rb, J.lb) = b /\ Denom(J.lb) = c
    BY <1>1, <1>2, <1>3, <1>5, <1>7 DEF Divides, Agree, Numer, Denom
  <2>3. /\ Divides(I.lb, Opposite(J.rb)) /\ I.lb \in Doubles /\ Opposite(J.rb) \in Doubles
        /\ Numer(I.lb, Opposite(J.rb)) = a /\ Denom(Opposite(J.rb)) = (-d)
    BY <1>1, <1>2, <1>3, <1>5, <1>7 DEF Divides, Agree, Numer, Denom
  <2>4. (-d) * b + c * a >= 0
    BY <1>1, <1>3, <1>6, <1>7, SignsMultiply
  <2> QED
    BY <2>2, <2>3, <2>1, <2>4, QuotientsArePair
<1>8. CASE s = "N1" /\ t = "P1"
  <2>1. QuotientOneSide(<<s, t>>, I, J, same) = Bounds(DivUp(I.lb, Opposite(J.lb)), DivUp(I.rb, J.rb))
    BY <1>8 DEF QuotientOneSide
  <2>2. /\ Divides(I.lb, Opposite(J.lb)) /\ I.lb \in Doubles /\ Opposite(J.lb) \in Doubles
        /\ Numer(I.lb, Opposite(J.lb)) = a /\ Denom(Opposite(J.lb)) = (-c)
    BY <1>1, <1>2, <1>3, <1>5, <1>8 DEF Divides, Agree, Numer, Denom
  <2>3. /\ Divides(I.rb, J.rb) /\ I.rb \in Doubles /\ J.rb \in Doubles
        /\ Numer(I.rb, J.rb) = b /\ Denom(J.rb) = d
    BY <1>1, <1>2, <1>3, <1>5, <1>8 DEF Divides, Agree, Numer, Denom
  <2>4. d * a + (-c) * b >= 0
    BY <1>1, <1>3, <1>6, <1>8, SignsMultiply
  <2> QED
    BY <2>2, <2>3, <2>1, <2>4, QuotientsArePair
<1>9. CASE s = "N0" /\ t = "N1"
  <2>1. QuotientOneSide(<<s, t>>, I, J, same) = Bounds(Zero(~Sse), DivUp(left(I), J.rb))
    BY <1>9 DEF QuotientOneSide
  <2>2. /\ Divides(left(I), J.rb) /\ left(I) \in Doubles /\ J.rb \in Doubles
        /\ Numer(left(I), J.rb) = a /\ Denom(J.rb) = (-d)
    BY <1>1, <1>2, <1>3, <1>5, <1>9 DEF Divides, Agree, Numer, Denom
  <2>3. a >= 0
    BY <1>1, <1>3, <1>9
  <2>4. Bounds(Zero(~Sse), DivUp(left(I), J.rb)) \in NonEmpty
    BY <1>5, <2>2, <2>3, QuotientsArePair
  <2> QED
    BY <2>1, <2>4
<1>10. CASE s = "N0" /\ t = "P1"
  <2>1. QuotientOneSide(<<s, t>>, I, J, same) = Bounds(DivUp(I.lb, Opposite(J.lb)), Zero(FALSE))
    BY <1>10 DEF QuotientOneSide
  <2>2. /\ Divides(I.lb, Opposite(J.lb)) /\ I.lb \in Doubles /\ Opposite(J.lb) \in Doubles
        /\ Numer(I.lb, Opposite(J.lb)) = a /\ Denom(Opposite(J.lb)) = (-c)
    BY <1>1, <1>2, <1>3, <1>5, <1>10 DEF Divides, Agree, Numer, Denom
  <2>3. a >= 0
    BY <1>1, <1>3, <1>10
  <2> QED
    BY <1>5, <2>2, <2>1, <2>3, QuotientsArePair
<1>11. CASE s = "M" /\ t = "N1"
  <2>1. QuotientOneSide(<<s, t>>, I, J, same) = Bounds(DivUp(I.rb, Opposite(J.rb)), DivUp(I.lb, Opposite(J.rb)))
    BY <1>11 DEF QuotientOneSide
  <2>2. /\ Divides(I.rb, Opposite(J.rb)) /\ I.rb \in Doubles /\ Opposite(J.rb) \in Doubles
        /\ Numer(I.rb, Opposite(J.rb)) = b /\ Denom(Opposite(J.rb)) = (-d)
    BY <1>1, <1>2, <1>3, <1>5, <1>11 DEF Divides, Agree, Numer, Denom
  <2>3. /\ Divides(I.lb, Opposite(J.rb)) /\ I.lb \in Doubles /\ Opposite(J.rb) \in Doubles
        /\ Numer(I.lb, Opposite(J.rb)) = a /\ Denom(Opposite(J.rb)) = (-d)
    BY <1>1, <1>2, <1>3, <1>5, <1>11 DEF Divides, Agree, Numer, Denom
  <2>4. (-d) * b + (-d) * a >= 0
    BY <1>1, <1>3, <1>6, <1>11, SignsMultiply
  <2> QED
    BY <2>2, <2>3, <2>1, <2>4, QuotientsArePair
<1>12. CASE s = "M" /\ t = "P1"
  <2>1. QuotientOneSide(<<s, t>>, I, J, same) = Bounds(DivUp(I.lb, Opposite(J.lb)), DivUp(I.rb, Opposite(J.lb)))
    BY <1>12 DEF QuotientOneSide
  <2>2. /\ Divides(I.lb, Opposite(J.lb)) /\ I.lb \in Doubles /\ Opposite(J.lb) \in Doubles
        /\ Numer(I.lb, Opposite(J.lb)) = a /\ Denom(Opposite(J.lb)) = (-c)
    BY <1>1, <1>2, <1>3, <1>5, <1>12 DEF Divides, Agree, Numer, Denom
  <2>3. /\ Divides(I.rb, Opposite(J.lb)) /\ I.rb \in Doubles /\ Opposite(J.lb) \in Doubles
        /\ Numer(I.rb, Opposite(J.lb)) = b /\ Denom(Opposite(J.lb)) = (-c)
    BY <1>1, <1>2, <1>3, <1>5, <1>12 DEF Divides, Agree, Numer, Denom
  <2>4. (-c) * a + (-c) * b >= 0
    BY <1>1, <1>3, <1>6, <1>12, SignsMultiply
  <2> QED
    BY <2>2, <2>3, <2>1, <2>4, QuotientsArePair
<1>13. CASE s = "P0" /\ t = "N1"
  <2>1. QuotientOneSide(<<s, t>>, I, J, same) = Bounds(DivUp(I.rb, Opposite(J.rb)), Zero(FALSE))
    BY <1>13 DEF QuotientOneSide
  <2>2. /\ Divides(I.rb, Opposite(J.rb)) /\ I.rb \in Doubles /\ Opposite(J.rb) \in Doubles
        /\ Numer(I.rb, Opposite(J.rb)) = b /\ Denom(Opposite(J.rb)) = (-d)
    BY <1>1, <1>2, <1>3, <1>5, <1>13 DEF Divides, Agree, Numer, Denom
  <2>3. b >= 0
    BY <1>1, <1>3, <1>13
  <2> QED
    BY <1>5, <2>2, <2>1, <2>3, QuotientsArePair
<1>14. CASE s = "P0" /\ t = "P1"
  <2>1. QuotientOneSide(<<s, t>>, I, J, same) = Bounds(Zero(~Sse), DivUp(I.rb, Opposite(J.lb)))
    BY <1>14 DEF QuotientOneSide
  <2>2. /\ Divides(I.rb, Opposite(J.lb)) /\ I.rb \in Doubles /\ Opposite(J.lb) \in Doubles
        /\ Numer(I.rb, Opposite(J.lb)) = b /\ Denom(Opposite(J.lb)) = (-c)
    BY <1>1, <1>2, <1>3, <1>5, <1>14 DEF Divides, Agree, Numer, Denom
  <2>3. b >= 0
    BY <1>1, <1>3, <1>14
  <2> QED
    BY <1>5, <2>2, <2>1, <2>3, QuotientsArePair
<1>15. CASE s = "P1" /\ t = "N1"
  <2>1. QuotientOneSide(<<s, t>>, I, J, same) = Bounds(DivUp(Opposite(I.rb), J.rb), DivUp(I.lb, J.lb))
    BY <1>15 DEF QuotientOneSide
  <2>2. /\ Divides(Opposite(I.rb), J.rb) /\ Opposite(I.rb) \in Doubles /\ J.rb \in Doubles
        /\ Numer(Opposite(I.rb), J.rb) = b /\ Denom(J.rb) = (-d)
    BY <1>1, <1>2, <1>3, <1>5, <1>15 DEF Divides, Agree, Numer, Denom
  <2>3. /\ Divides(I.lb, J.lb) /\ I.lb \in Doubles /\ J.lb \in Doubles
        /\ Numer(I.lb, J.lb) = a /\ Denom(J.lb) = c
    BY <1>1, <1>2, <1>3, <1>5, <1>15 DEF Divides, Agree, Numer, Denom
  <2>4. c * b + (-d) * a >= 0
    BY <1>1, <1>3, <1>6, <1>15, SignsMultiply
  <2> QED
    BY <2>2, <2>3, <2>1, <2>4, QuotientsArePair
<1>16. CASE s = "P1" /\ t = "P1"
  <2>1. QuotientOneSide(<<s, t>>, I, J, same) = Bounds(DivUp(I.lb, J.rb), DivUp(I.rb, Opposite(J.lb)))
    BY <1>16 DEF QuotientOneSide
  <2>2. /\ Divides(I.lb, J.rb) /\ I.lb \in Doubles /\ J.rb \in Doubles
        /\ Numer(I.lb, J.rb) = a /\ Denom(J.rb) = d
    BY <1>1, <1>2, <1>3, <1>5, <1>16 DEF Divides, Agree, Numer, Denom
  <2>3. /\ Divides(I.rb, Opposite(J.lb)) /\ I.rb \in Doubles /\ Opposite(J.lb) \in Doubles
        /\ Numer(I.rb, Opposite(J.lb)) = b /\ Denom(Opposite(J.lb)) = (-c)
    BY <1>1, <1>2, <1>3, <1>5, <1>16 DEF Divides, Agree, Numer, Denom
  <2>4. (-c) * a + d * b >= 0
    BY <1>1, <1>3, <1>6, <1>16, SignsMultiply
  <2> QED
    BY <2>2, <2>3, <2>1, <2>4, QuotientsArePair
<1> QED
  BY <1>4, <1>7, <1>8, <1>9, <1>10, <1>11, <1>12, <1>13, <1>14, <1>15, <1>16

(* The quotients that operator/= takes, of a divisor that ends at 0.         *)
LEMMA QuotientsTo0AreInterval ==
  ASSUME NEW I \in NonEmpty, NEW J \in NonEmpty, NEW s, NEW t,
         Sse \in BOOLEAN, s = Class(I), t = Class(J)
  PROVE  QuotientTo0(<<s, t>>, I, J) \in NonEmpty
<1> DEFINE a == Num(I.lb)
           b == Num(I.rb)
           c == Num(J.lb)
           d == Num(J.rb)
<1>1. /\ I.lb \in Doubles /\ I.rb \in Doubles /\ J.lb \in Doubles /\ J.rb \in Doubles
      /\ left(I) \in Doubles /\ left(J) \in Doubles
      /\ IsInf(left(I)) <=> IsInf(I.lb)
      /\ a \in Int /\ b \in Int /\ c \in Int /\ d \in Int
      /\ a <= 0 => ~IsInf(I.lb)
      /\ b <= 0 => ~IsInf(I.rb)
      /\ c <= 0 => ~IsInf(J.lb)
      /\ d <= 0 => ~IsInf(J.rb)
      /\ Num(left(I)) = -a /\ Num(left(J)) = -c
  BY NonEmptyIs
<1>2. \A x \in Doubles : Num(Opposite(x)) = -Num(x)
  BY OppositeIsDouble
<1>3. /\ s = "N1" => b < 0
      /\ s = "P1" => a < 0
      /\ t = "N0" => c > 0
      /\ t = "P0" => d > 0
  BY ClassIs
<1>4. /\ universe \in NonEmpty /\ positive \in NonEmpty /\ negative \in NonEmpty
      /\ Bounds(Zero(FALSE), Infinity) \in NonEmpty
      /\ \A x \in Ends : Bounds(Infinity, x) \in NonEmpty /\ Bounds(x, Infinity) \in NonEmpty
  BY ConstantsAreIntervals
<1>5. /\ s = "N1" /\ t = "N0" => Divides(I.rb, J.lb)
      /\ s = "N1" /\ t = "P0" => Divides(I.rb, J.rb)
      /\ s = "P1" /\ t = "N0" => Divides(left(I), left(J))
      /\ s = "P1" /\ t = "P0" => Divides(I.lb, J.rb)
  BY <1>1, <1>2, <1>3 DEF Divides, Agree
<1>6. \A x, y \in Doubles : Divides(x, y) => DivUp(x, y) \in Ends
  BY QuotientsArePair
<1>7. CASE s = "N1" /\ t = "N0"
  BY <1>1, <1>4, <1>5, <1>6, <1>7 DEF QuotientTo0
<1>8. CASE s = "N1" /\ t = "P0"
  BY <1>1, <1>4, <1>5, <1>6, <1>8 DEF QuotientTo0
<1>9. CASE s = "P1" /\ t = "N0"
  BY <1>1, <1>4, <1>5, <1>6, <1>9 DEF QuotientTo0
<1>10. CASE s = "P1" /\ t = "P0"
  BY <1>1, <1>4, <1>5, <1>6, <1>10 DEF QuotientTo0
<1>11. CASE ~(s \in {"N1", "P1"} /\ t \in {"N0", "P0"})
  BY <1>4, <1>11 DEF QuotientTo0
<1> QED
  BY <1>7, <1>8, <1>9, <1>10, <1>11

(* operator/= gives an interval.                                            *)
LEMMA QuotientIsInterval ==
  ASSUME NEW I \in Intervals, NEW J \in Intervals, NEW same, same => Sse, Sse \in BOOLEAN
  PROVE  Quotient(I, J, same) \in Intervals
<1>1. CASE is_empty(I) \/ is_empty(J) \/ Class(J) = "Z"
  BY <1>1 DEF Quotient, Intervals
<1>2. CASE ~is_empty(I) /\ ~is_empty(J) /\ Class(J) # "Z"
  <2>1. I \in NonEmpty /\ J \in NonEmpty
    BY <1>2, EmptySetIs
  <2>2. Class(J) \in {"N1", "N0", "M", "P0", "P1"}
    BY <1>2, <2>1, ClassIs
  <2>3. zero \in NonEmpty /\ universe \in NonEmpty
    BY ConstantsAreIntervals
  <2>4. QuotientTo0(<<Class(I), Class(J)>>, I, J) \in NonEmpty
    BY <2>1, QuotientsTo0AreInterval
  <2>5. Class(I) # "Z" /\ Class(J) \in {"N1", "P1"} =>
          QuotientOneSide(<<Class(I), Class(J)>>, I, J, same) \in NonEmpty
    BY <2>1, QuotientsAreInterval
  <2>6. Quotient(I, J, same) =
          IF Class(I) = "Z" THEN zero
          ELSE IF Class(J) = "M" THEN universe
          ELSE IF Class(J) \in {"N0", "P0"} THEN QuotientTo0(<<Class(I), Class(J)>>, I, J)
          ELSE QuotientOneSide(<<Class(I), Class(J)>>, I, J, same)
    BY <1>2 DEF Quotient
  <2>7. Quotient(I, J, same) \in NonEmpty
    BY <2>2, <2>3, <2>4, <2>5, <2>6
  <2> QED
    BY <2>7 DEF Intervals
<1> QED
  BY <1>1, <1>2

(* operator%= gives an interval.                                            *)
LEMMA RelQuotientIsInterval ==
  ASSUME NEW I \in Intervals, NEW J \in Intervals, NEW same, same => Sse, Sse \in BOOLEAN
  PROVE  RelQuotient(I, J, same) \in Intervals
<1>1. emptyset \in Intervals /\ universe \in Intervals
  BY ConstantsAreIntervals DEF Intervals
<1> QED
  BY <1>1, QuotientIsInterval DEF RelQuotient

-----------------------------------------------------------------------------
(* The intersection of two intervals is one, or the empty set.               *)
LEMMA MeetIsInterval ==
  ASSUME NEW I \in Intervals, NEW J \in Intervals
  PROVE  Meet(I, J) \in Intervals
<1> DEFINE lb == IF ~Leq(I.lb, J.lb) THEN J.lb ELSE I.lb
           rb == IF ~Leq(I.rb, J.rb) THEN J.rb ELSE I.rb
           taken == Bounds(lb, rb)
<1>1. Meet(I, J) = IF is_empty(I) THEN I ELSE IF is_empty(taken) THEN emptyset ELSE taken
  BY DEF Meet
<1>2. CASE I = emptyset
  BY <1>1, <1>2, EmptySetIs
<1>3. CASE I \in NonEmpty /\ J = emptyset
  <2>1. J.lb = NaN /\ J.rb = NaN
    BY <1>3, EmptySetIs
  <2>2. lb = NaN /\ rb = NaN
    BY <2>1 DEF Leq
  <2>3. taken = emptyset
    BY <2>2 DEF emptyset
  <2> HIDE DEF taken
  <2> QED
    BY <1>1, <2>3, <1>3 DEF Intervals
<1>4. CASE I \in NonEmpty /\ J \in NonEmpty
  <2>1. I.lb \in Ends /\ I.rb \in Ends /\ J.lb \in Ends /\ J.rb \in Ends
    BY <1>4, NonEmptyIs
  <2>2. lb \in Ends /\ rb \in Ends
    BY <2>1
  <2> HIDE DEF lb, rb
  <2>3. /\ lb \in Doubles /\ lb # NaN /\ Num(lb) \in Int
        /\ rb \in Doubles /\ rb # NaN /\ Num(rb) \in Int
    BY <2>2, EndsAre
  <2>4. left(taken) \in Doubles /\ Num(left(taken)) = -Num(lb) /\ left(taken) # NaN
    BY <2>3, OppositeIsDouble, FiniteOrInfinite DEF left, Bounds
  <2>5. right(taken) = rb
    BY DEF right, Bounds
  <2> HIDE DEF taken
  <2>6. ~is_empty(taken) => Num(lb) + Num(rb) >= 0
    BY <2>3, <2>4, <2>5 DEF is_empty, Leq
  <2>7. ~is_empty(taken) => taken \in NonEmpty
    BY <2>2, <2>6 DEF taken, Bounds, NonEmpty
  <2> QED
    BY <1>1, <1>4, <2>7 DEF Intervals
<1> QED
  BY <1>2, <1>3, <1>4 DEF Intervals

(* The union of two intervals.                                             *)
LEMMA JoinIsInterval ==
  ASSUME NEW I \in Intervals, NEW J \in Intervals
  PROVE  Join(I, J) \in Intervals
<1>1. CASE is_empty(I) \/ is_empty(J)
  BY <1>1 DEF Join
<1>2. CASE ~is_empty(I) /\ ~is_empty(J)
  <2> DEFINE lb == IF Lt(I.lb, J.lb) THEN J.lb ELSE I.lb
             rb == IF Lt(I.rb, J.rb) THEN J.rb ELSE I.rb
  <2>1. I \in NonEmpty /\ J \in NonEmpty
    BY <1>2, EmptySetIs
  <2>2. /\ I.lb \in Ends /\ I.rb \in Ends /\ J.lb \in Ends /\ J.rb \in Ends
        /\ Num(I.lb) \in Int /\ Num(I.rb) \in Int /\ Num(J.lb) \in Int /\ Num(J.rb) \in Int
        /\ Num(I.lb) + Num(I.rb) >= 0
    BY <2>1, NonEmptyIs
  <2>3. lb \in Ends /\ rb \in Ends /\ Num(lb) >= Num(I.lb) /\ Num(rb) >= Num(I.rb)
    BY <2>2 DEF Lt
  <2>4. Join(I, J) = Bounds(lb, rb)
    BY <1>2 DEF Join
  <2> HIDE DEF lb, rb
  <2>5. Num(lb) \in Int /\ Num(rb) \in Int
    BY <2>3, EndsAre
  <2>6. Num(lb) + Num(rb) >= 0
    BY <2>2, <2>3, <2>5
  <2> QED
    BY <2>3, <2>4, <2>6 DEF Bounds, NonEmpty, Intervals
<1> QED
  BY <1>1, <1>2

(* The opposite of an interval.                                             *)
LEMMA MinusIsInterval ==
  ASSUME NEW I \in Intervals
  PROVE  Minus(I) \in Intervals
<1>1. CASE I = emptyset
  <2>1. Minus(I) = emptyset
    BY <1>1, EmptySetIs DEF Minus, emptyset
  <2> QED
    BY <2>1 DEF Intervals
<1>2. CASE I \in NonEmpty
  <2>1. /\ I.lb \in Ends /\ I.rb \in Ends /\ Num(I.lb) \in Int /\ Num(I.rb) \in Int
        /\ Num(I.rb) + Num(I.lb) >= 0
    BY <1>2, NonEmptyIs
  <2> QED
    BY <2>1 DEF Minus, Bounds, NonEmpty, Intervals
<1> QED
  BY <1>1, <1>2 DEF Intervals

(* interval(l, r) is an interval, whatever l and r.                         *)
LEMMA ConstructedIsInterval ==
  ASSUME NEW l \in Numbers, NEW r \in Numbers
  PROVE  Interval(l, r) \in Intervals
<1>1. CASE ~(Leq(l, r) /\ Lt(l, Infinity) /\ Lt(MinusInfinity, r))
  BY <1>1 DEF Interval, Intervals
<1>2. CASE Leq(l, r) /\ Lt(l, Infinity) /\ Lt(MinusInfinity, r)
  <2>1. /\ l \in Doubles /\ r \in Doubles /\ Num(l) <= Num(r) /\ Num(l) < Num(Infinity)
        /\ Num(MinusInfinity) < Num(r)
    BY <1>2 DEF Leq, Lt, Numbers
  <2>2. /\ Num(l) \in Int /\ Num(r) \in Int
        /\ Num(Infinity) = Largest + 1 /\ Largest \in Nat /\ Infinity \in Doubles
        /\ MinusInfinity = Opposite(Infinity)
    BY <2>1, NumOfMagnitude, EndsAre, LargestMagnitude DEF MinusInfinity
  <2>3. /\ Opposite(l) \in Doubles /\ Num(Opposite(l)) = -Num(l)
        /\ Num(MinusInfinity) = -(Largest + 1)
    BY <2>1, <2>2, OppositeIsDouble
  <2>4. Opposite(l) # MinusInfinity /\ r # MinusInfinity
    BY <2>1, <2>2, <2>3
  <2>5. Opposite(l) \in Ends /\ r \in Ends
    BY <2>1, <2>3, <2>4, EndsAre
  <2>6. Num(Opposite(l)) + Num(r) >= 0
    BY <2>1, <2>2, <2>3
  <2>7. Interval(l, r) = Bounds(Opposite(l), r)
    BY <1>2 DEF Interval
  <2> QED
    BY <2>5, <2>6, <2>7 DEF Bounds, NonEmpty, Intervals
<1> QED
  BY <1>1, <1>2

(* div_rel() gives an interval: the quotients that part its two pieces are   *)
(* ends.                                                                    *)
LEMMA DivRelIsInterval ==
  ASSUME NEW K \in Intervals, NEW J \in Intervals, NEW I \in Intervals, Sse \in BOOLEAN
  PROVE  div_rel(K, J, I) \in Intervals
<1>1. CASE is_empty(K) \/ is_empty(J) \/ is_empty(I)
  BY <1>1 DEF div_rel, Intervals
<1>2. CASE ~(is_empty(K) \/ is_empty(J) \/ is_empty(I))
  <2>1. K \in NonEmpty /\ J \in NonEmpty
    BY <1>2, EmptySetIs
  <2>2. /\ K.lb \in Doubles /\ K.rb \in Doubles /\ J.lb \in Doubles /\ J.rb \in Doubles
        /\ Num(K.lb) \in Int /\ Num(K.rb) \in Int /\ Num(J.lb) \in Int /\ Num(J.rb) \in Int
        /\ Num(K.lb) <= 0 => ~IsInf(K.lb)
        /\ Num(K.rb) <= 0 => ~IsInf(K.rb)
    BY <2>1, NonEmptyIs
  <2>3. \A x \in Doubles : Num(Opposite(x)) = -Num(x)
    BY OppositeIsDouble
  <2>4. \A x, y \in Doubles : Num(x) < 0 /\ ~IsInf(x) /\ Num(y) > 0 => DivUp(x, y) \in Ends
    <3>1. ASSUME NEW x \in Doubles, NEW y \in Doubles, Num(x) < 0, ~IsInf(x), Num(y) > 0
          PROVE  Divides(x, y)
      <4>1. Num(x) \in Int /\ Num(y) \in Int
        BY NumOfMagnitude
      <4> QED
        BY <2>3, <3>1, <4>1 DEF Divides, Agree
    <3> QED
      BY <3>1, QuotientsArePair
  <2>5. /\ \A x \in Ends : Bounds(Infinity, x) \in Intervals /\ Bounds(x, Infinity) \in Intervals
        /\ \A A, B \in Intervals : Meet(A, B) \in Intervals /\ Join(A, B) \in Intervals
    BY ConstantsAreIntervals, MeetIsInterval, JoinIsInterval DEF Intervals
  <2>6. Class(J) = "M" => Num(J.lb) > 0 /\ Num(J.rb) > 0
    BY <2>1, ClassIs
  <2>7. /\ Class(K) = "N1" => Num(K.rb) < 0
        /\ Class(K) = "P1" => Num(K.lb) < 0
    BY <2>1, ClassIs
  <2>8. CASE straddles_zero(K) /\ straddles_zero(J)
    BY <1>2, <2>8 DEF div_rel
  <2>9. CASE ~(straddles_zero(K) /\ straddles_zero(J)) /\ Class(J) = "M" /\ Class(K) = "N1"
    <3>1. DivUp(K.rb, J.rb) \in Ends /\ DivUp(K.rb, J.lb) \in Ends
      BY <2>2, <2>4, <2>6, <2>7, <2>9
    <3>2. div_rel(K, J, I) = Join(Meet(I, Bounds(Infinity, DivUp(K.rb, J.rb))),
                                  Meet(I, Bounds(DivUp(K.rb, J.lb), Infinity)))
      BY <1>2, <2>9 DEF div_rel
    <3> QED
      BY <2>5, <3>1, <3>2
  <2>10. CASE ~(straddles_zero(K) /\ straddles_zero(J)) /\ Class(J) = "M" /\ Class(K) = "P1"
    <3>1. DivUp(K.lb, J.lb) \in Ends /\ DivUp(K.lb, J.rb) \in Ends
      BY <2>2, <2>4, <2>6, <2>7, <2>10
    <3>2. div_rel(K, J, I) = Join(Meet(I, Bounds(Infinity, DivUp(K.lb, J.lb))),
                                  Meet(I, Bounds(DivUp(K.lb, J.rb), Infinity)))
      BY <1>2, <2>10 DEF div_rel
    <3> QED
      BY <2>5, <3>1, <3>2
  <2>11. CASE /\ ~(straddles_zero(K) /\ straddles_zero(J))
              /\ ~(Class(J) = "M" /\ Class(K) \in {"N1", "P1"})
    <3>1. div_rel(K, J, I) = Meet(I, Quotient(K, J, FALSE))
      BY <1>2, <2>11 DEF div_rel
    <3> DEFINE same == FALSE
    <3>2. same => Sse
      OBVIOUS
    <3>3. Quotient(K, J, same) \in Intervals
      <4> HIDE DEF same
      <4> QED
        BY <3>2, QuotientIsInterval
    <3> QED
      BY <2>5, <3>1, <3>3
  <2> QED
    BY <2>8, <2>9, <2>10, <2>11
<1> QED
  BY <1>1, <1>2

-----------------------------------------------------------------------------
(* A double that is not infinite, nor a NaN.                                *)
LEMMA FiniteIs ==
  ASSUME NEW d \in Numbers, IsFinite(d)
  PROVE  /\ d \in Doubles /\ ~IsInf(d) /\ d \in Ends /\ Opposite(d) \in Ends
         /\ Opposite(d) \in Doubles /\ ~IsInf(Opposite(d)) /\ Num(Opposite(d)) = -Num(d)
         /\ Num(d) \in Int
         /\ IsZero(d) <=> Num(d) = 0
<1>1. /\ d \in Doubles /\ Num(MinusInfinity) < Num(d) /\ Num(d) < Num(Infinity)
  BY DEF IsFinite, Lt, Numbers
<1>2. /\ Infinity \in Doubles /\ MinusInfinity = Opposite(Infinity)
      /\ Num(Infinity) = Oo /\ Oo = Largest + 1 /\ Largest \in Nat
  BY EndsAre, LargestMagnitude DEF MinusInfinity, Oo
<1>3. Num(MinusInfinity) = -Oo
  BY <1>2, OppositeIsDouble
<1>4. Num(d) \in Int
  BY <1>1, NumOfMagnitude
<1>5. d \in Ends
  BY <1>1, <1>3 DEF Ends
<1>6. ~IsInf(d)
  BY <1>1, <1>2, <1>5, EndsAre
<1>7. Opposite(d) \in Doubles /\ Num(Opposite(d)) = -Num(d) /\ ~IsInf(Opposite(d))
  BY <1>1, <1>6, OppositeIsDouble DEF IsInf
<1>8. Opposite(d) \in Ends
  BY <1>1, <1>2, <1>4, <1>7 DEF Ends
<1>9. IsZero(d) <=> Num(d) = 0
  BY <1>1, FiniteOrInfinite
<1> QED
  BY <1>1, <1>4, <1>5, <1>6, <1>7, <1>8, <1>9

(* The operations with a double give intervals.                             *)
LEMMA WithDoubleIsInterval ==
  ASSUME NEW I \in Intervals, NEW d \in Numbers, Sse \in BOOLEAN
  PROVE  /\ PlusDouble(I, d) \in Intervals /\ MinusDouble(I, d) \in Intervals
         /\ TimesDouble(I, d) \in Intervals /\ OverDouble(I, d) \in Intervals
         /\ RelOverDouble(I, d) \in Intervals
         /\ ~is_empty(I) /\ IsFinite(d) /\ Num(d) # 0 =>
              TimesDouble(I, d) \in NonEmpty /\ OverDouble(I, d) \in NonEmpty
<1>0. /\ emptyset \in Intervals /\ zero \in Intervals /\ universe \in Intervals
      /\ NonEmpty \subseteq Intervals
  BY ConstantsAreIntervals DEF Intervals
<1>1. CASE is_empty(I) \/ ~IsFinite(d)
  BY <1>0, <1>1 DEF PlusDouble, MinusDouble, TimesDouble, OverDouble, RelOverDouble
<1>2. CASE ~is_empty(I) /\ IsFinite(d)
  <2> DEFINE e == IF d.neg THEN Opposite(d) ELSE d
  <2>1. I \in NonEmpty
    BY <1>2, EmptySetIs
  <2>2. /\ I.lb \in Ends /\ I.rb \in Ends /\ I.lb \in Doubles /\ I.rb \in Doubles
        /\ Num(I.lb) \in Int /\ Num(I.rb) \in Int /\ Num(I.lb) + Num(I.rb) >= 0
    BY <2>1, NonEmptyIs
  <2>3. /\ d \in Doubles /\ ~IsInf(d) /\ d \in Ends /\ Opposite(d) \in Ends
        /\ Opposite(d) \in Doubles /\ ~IsInf(Opposite(d)) /\ Num(Opposite(d)) = -Num(d)
        /\ Num(d) \in Int
        /\ IsZero(d) <=> Num(d) = 0
    BY <1>2, FiniteIs
  <2>4. PlusDouble(I, d) \in Intervals /\ MinusDouble(I, d) \in Intervals
    <3> DEFINE o == Opposite(d)
    <3> HIDE DEF o
    <3>2. o \in Ends /\ Num(o) = -Num(d) /\ o = Opposite(d)
      BY <2>3 DEF o
    <3>3. /\ (Num(I.lb) + Num(o)) + (Num(I.rb) + Num(d)) >= 0
          /\ (Num(I.lb) + Num(d)) + (Num(I.rb) + Num(o)) >= 0
      BY <2>2, <2>3, <3>2
    <3>4. Bounds(AddUp(I.lb, o), AddUp(I.rb, d)) \in NonEmpty
      BY <2>2, <2>3, <3>2, <3>3, SumsArePair
    <3>5. Bounds(AddUp(I.lb, d), AddUp(I.rb, o)) \in NonEmpty
      BY <2>2, <2>3, <3>2, <3>3, SumsArePair
    <3> QED
      BY <1>0, <1>2, <3>2, <3>4, <3>5 DEF PlusDouble, MinusDouble
  <2>5. CASE Num(d) = 0
    BY <1>0, <1>2, <2>3, <2>4, <2>5 DEF TimesDouble, OverDouble, RelOverDouble
  <2>6. CASE Num(d) # 0
    <3>1. /\ e \in Doubles /\ ~IsInf(e) /\ Num(e) > 0 /\ Num(e) \in Int
      BY <2>3, <2>6, SignIs
    <3>2. /\ TimesDouble(I, d) = IF d.neg THEN Bounds(MulUp(I.rb, e), MulUp(I.lb, e))
                                  ELSE Bounds(MulUp(I.lb, e), MulUp(I.rb, e))
          /\ OverDouble(I, d) = IF d.neg THEN Bounds(DivUp(I.rb, e), DivUp(I.lb, e))
                                 ELSE Bounds(DivUp(I.lb, e), DivUp(I.rb, e))
          /\ RelOverDouble(I, d) = OverDouble(I, d)
      BY <1>2, <2>3, <2>6 DEF TimesDouble, OverDouble, RelOverDouble
    <3> HIDE DEF e
    <3>3. /\ Num(I.lb) * Num(e) + Num(I.rb) * Num(e) >= 0
          /\ Num(I.rb) * Num(e) + Num(I.lb) * Num(e) >= 0
      <4> DEFINE a == Num(I.lb)
                 b == Num(I.rb)
                 f == Num(e)
      <4>1. a \in Int /\ b \in Int /\ f \in Int /\ a + b >= 0 /\ f >= 0
        BY <2>2, <3>1
      <4> HIDE DEF a, b, f
      <4>2. a * f + b * f >= 0 /\ b * f + a * f >= 0
        <5>1. (a + b) * f >= 0
          BY <4>1, SignsMultiply
        <5> QED
          BY <4>1, <5>1
      <4> QED
        BY <4>2 DEF a, b, f
    <3>4. \A x \in {I.lb, I.rb} : /\ x \in Doubles
                                  /\ IsInf(x) \/ IsInf(e) => Agree(x, e)
                                  /\ NaNToZero(MulUp(x, e)) = MulUp(x, e)
                                  /\ Divides(x, e) /\ Numer(x, e) = Num(x) /\ Denom(e) = Num(e)
      <4>1. ASSUME NEW x \in Ends
            PROVE  /\ x \in Doubles
                   /\ IsInf(x) \/ IsInf(e) => Agree(x, e)
        BY <3>1, <4>1, EndsAre, LargestMagnitude DEF Agree
      <4>2. ~IsZero(e)
        BY <3>1, FiniteOrInfinite
      <4>3. \A x \in Ends : NaNToZero(MulUp(x, e)) = MulUp(x, e)
        BY <3>1, <4>1, <4>2, ProductIsUpper
      <4>4. \A x \in Ends : Divides(x, e) /\ Numer(x, e) = Num(x) /\ Denom(e) = Num(e)
        BY <3>1, <4>1 DEF Divides, Numer, Denom
      <4> QED
        BY <2>2, <4>1, <4>3, <4>4
    <3>5. /\ Bounds(MulUp(I.lb, e), MulUp(I.rb, e)) \in NonEmpty
          /\ Bounds(MulUp(I.rb, e), MulUp(I.lb, e)) \in NonEmpty
      <4>1. ASSUME NEW x \in {I.lb, I.rb}, NEW y \in {I.lb, I.rb},
                   Num(x) * Num(e) + Num(y) * Num(e) >= 0
            PROVE  Bounds(MulUp(x, e), MulUp(y, e)) \in NonEmpty
        <5>1. /\ x \in Doubles /\ y \in Doubles
              /\ IsInf(x) \/ IsInf(e) => Agree(x, e)
              /\ IsInf(y) \/ IsInf(e) => Agree(y, e)
              /\ NaNToZero(MulUp(x, e)) = MulUp(x, e)
              /\ NaNToZero(MulUp(y, e)) = MulUp(y, e)
          BY <3>4
        <5>2. Bounds(NaNToZero(MulUp(x, e)), NaNToZero(MulUp(y, e))) \in NonEmpty
          BY <3>1, <4>1, <5>1, ProductsArePair
        <5> QED
          BY <5>1, <5>2
      <4> QED
        BY <3>3, <4>1
    <3>6. /\ Bounds(DivUp(I.lb, e), DivUp(I.rb, e)) \in NonEmpty
          /\ Bounds(DivUp(I.rb, e), DivUp(I.lb, e)) \in NonEmpty
      <4>1. /\ Num(e) * Num(I.lb) + Num(e) * Num(I.rb) >= 0
            /\ Num(e) * Num(I.rb) + Num(e) * Num(I.lb) >= 0
        BY <2>2, <3>1, <3>3
      <4> QED
        BY <3>1, <3>4, <4>1, QuotientsArePair
    <3> QED
      BY <1>0, <2>4, <3>2, <3>5, <3>6
  <2> QED
    BY <2>5, <2>6
<1> QED
  BY <1>1, <1>2

-----------------------------------------------------------------------------
(* inverse() gives an interval.                                             *)
LEMMA InverseIsInterval ==
  ASSUME NEW I \in Intervals, Sse \in BOOLEAN
  PROVE  inverse(I) \in Intervals
<1> DEFINE m == OfNum(-One)
           bound(x) == IF IsZero(x) THEN Infinity ELSE DivUp(m, x)
           a == Num(I.lb)
           b == Num(I.rb)
<1>0. /\ emptyset \in Intervals /\ universe \in Intervals
      /\ NonEmpty \subseteq Intervals
      /\ \A x \in Ends : Bounds(Infinity, x) \in NonEmpty /\ Bounds(x, Infinity) \in NonEmpty
  BY ConstantsAreIntervals DEF Intervals
<1>1. CASE is_empty(I) \/ is_zero(I) \/ strictly_straddles_zero(I)
  BY <1>0, <1>1 DEF inverse
<1>2. CASE ~(is_empty(I) \/ is_zero(I) \/ strictly_straddles_zero(I))
  <2>1. I \in NonEmpty
    BY <1>2, EmptySetIs
  <2>2. /\ I.lb \in Doubles /\ I.rb \in Doubles /\ a \in Int /\ b \in Int /\ a + b >= 0
        /\ a <= 0 => ~IsInf(I.lb)
        /\ b <= 0 => ~IsInf(I.rb)
    BY <2>1, NonEmptyIs
  <2>3. inverse(I) = Bounds(bound(I.rb), bound(I.lb))
    BY <1>2 DEF inverse
  <2>4. IsZero(I.lb) <=> a = 0
    BY <2>2, FiniteOrInfinite
  <2>5. IsZero(I.rb) <=> b = 0
    BY <2>2, FiniteOrInfinite
  <2>6. ~(a = 0 /\ b = 0) /\ ~(a > 0 /\ b > 0)
    BY <1>2, <2>1, BoundsCompare DEF strictly_straddles_zero
  <2>7. m \in Doubles /\ Num(m) = -One /\ ~IsInf(m)
    <3>1. -One \in FiniteNums
      BY FiniteNumsRange, MagnitudesAssumption
    <3>2. m \in Doubles /\ Num(m) = -One /\ m.mag \in Magnitudes
      BY <3>1, OfNumIsNum
    <3> QED
      BY <3>2, FiniteOrInfinite
  <2>8. One \in Nat /\ One >= 1
    BY LargestMagnitude
  <2> HIDE DEF m
  <2>9. ASSUME NEW x \in Doubles, Num(x) # 0, Num(x) <= 0 => ~IsInf(x)
        PROVE  /\ Divides(m, x)
               /\ Num(x) > 0 => Numer(m, x) = -One /\ Denom(x) = Num(x)
               /\ Num(x) < 0 => Numer(m, x) = One /\ Denom(x) = -Num(x)
    <3>1. Num(Opposite(x)) = -Num(x) /\ Num(x) \in Int
      BY OppositeIsDouble, NumOfMagnitude
    <3> QED
      BY <2>7, <2>8, <2>9, <3>1 DEF Divides, Agree, Numer, Denom
  <2>10. CASE b = 0
    <3>1. a # 0 /\ Divides(m, I.lb)
      BY <2>2, <2>6, <2>9, <2>10
    <3>2. DivUp(m, I.lb) \in Ends
      BY <2>2, <2>7, <3>1, QuotientsArePair
    <3> QED
      BY <1>0, <2>3, <2>4, <2>5, <2>10, <3>1, <3>2
  <2>11. CASE a = 0
    <3>1. b # 0 /\ Divides(m, I.rb)
      BY <2>2, <2>6, <2>9, <2>11
    <3>2. DivUp(m, I.rb) \in Ends
      BY <2>2, <2>7, <3>1, QuotientsArePair
    <3> QED
      BY <1>0, <2>3, <2>4, <2>5, <2>11, <3>1, <3>2
  <2>12. CASE a # 0 /\ b # 0
    <3>1. /\ Divides(m, I.lb) /\ Divides(m, I.rb)
          /\ a > 0 => Numer(m, I.lb) = -One /\ Denom(I.lb) = a
          /\ a < 0 => Numer(m, I.lb) = One /\ Denom(I.lb) = -a
          /\ b > 0 => Numer(m, I.rb) = -One /\ Denom(I.rb) = b
          /\ b < 0 => Numer(m, I.rb) = One /\ Denom(I.rb) = -b
      BY <2>2, <2>9, <2>12
    <3> HIDE DEF a, b
    <3>2. Denom(I.lb) * Numer(m, I.rb) + Denom(I.rb) * Numer(m, I.lb) >= 0
      <4>0. One * (a + b) >= 0
        BY <2>2, <2>8, SignsMultiply
      <4>1. CASE a < 0
        <5>1. b > 0
          BY <2>2, <4>1
        <5>2. Denom(I.lb) * Numer(m, I.rb) + Denom(I.rb) * Numer(m, I.lb) = (-a) * (-One) + b * One
          BY <3>1, <4>1, <5>1
        <5> QED
          BY <2>2, <2>8, <4>0, <5>2
      <4>2. CASE a > 0
        <5>1. b < 0
          BY <2>2, <2>6, <2>12, <4>2
        <5>2. Denom(I.lb) * Numer(m, I.rb) + Denom(I.rb) * Numer(m, I.lb) = a * One + (-b) * (-One)
          BY <3>1, <4>2, <5>1
        <5> QED
          BY <2>2, <2>8, <4>0, <5>2
      <4> QED
        BY <2>2, <2>12, <4>1, <4>2
    <3>3. Bounds(DivUp(m, I.rb), DivUp(m, I.lb)) \in NonEmpty
      BY <2>2, <2>7, <3>1, <3>2, QuotientsArePair
    <3> QED
      BY <1>0, <2>3, <2>4, <2>5, <2>12, <3>3
  <2> QED
    BY <2>10, <2>11, <2>12
<1> QED
  BY <1>1, <1>2

(* sqr() gives an interval.                                                 *)
LEMMA SquareIsInterval ==
  ASSUME NEW I \in Intervals, Sse \in BOOLEAN
  PROVE  sqr(I) \in Intervals /\ (I \in NonEmpty => sqr(I) \in NonEmpty)
<1> DEFINE largest == MaxPd(MulUp(I.lb, I.lb), MulUp(I.rb, I.rb))
           fromP == Bounds(MulUp(I.lb, Opposite(I.lb)), MulUp(I.rb, I.rb))
           fromN == Bounds(MulUp(I.rb, Opposite(I.rb)), MulUp(I.lb, I.lb))
           side == SideBySigns(I)
           a == Num(I.lb)
           b == Num(I.rb)
<1>1. CASE is_empty(I)
  BY <1>1, NonEmptyIs DEF sqr
<1>2. CASE ~is_empty(I)
  <2>1. I \in NonEmpty
    BY <1>2, EmptySetIs
  <2>2. /\ I.lb \in Doubles /\ I.rb \in Doubles /\ I.lb \in Ends /\ I.rb \in Ends
        /\ a \in Int /\ b \in Int /\ a + b >= 0
        /\ a <= 0 => ~IsInf(I.lb)
        /\ b <= 0 => ~IsInf(I.rb)
    BY <2>1, NonEmptyIs
  <2>3. \A x \in Doubles : /\ Agree(x, x)
                           /\ ~(IsInf(x) /\ IsZero(x))
    <3>1. \A x \in Doubles : Num(x) \in Int
      BY NumOfMagnitude
    <3> QED
      BY <3>1, LargestMagnitude DEF Agree, IsInf, IsZero, Oo
  <2>4. \A x \in Doubles : /\ Opposite(x) \in Doubles /\ Num(Opposite(x)) = -Num(x)
                           /\ IsInf(Opposite(x)) <=> IsInf(x)
    BY OppositeIsDouble DEF IsInf
  <2>5. ASSUME NEW x \in Doubles, NEW y \in Doubles, ~IsInf(x), Num(x) <= 0, Num(x) + Num(y) >= 0
        PROVE  Bounds(MulUp(x, Opposite(x)), MulUp(y, y)) \in NonEmpty
    <3> DEFINE o == Opposite(x)
               u == Num(x)
               v == Num(y)
    <3>1. /\ o \in Doubles /\ Num(o) = -u /\ ~IsInf(o) /\ u \in Int /\ v \in Int
      BY <2>4, <2>5, NumOfMagnitude
    <3>2. u + v >= 0 /\ u <= 0
      BY <2>5
    <3> HIDE DEF o, u, v
    <3>3. u * (-u) + v * v >= 0
      BY <3>1, <3>2, BoundsMultiply
    <3>4. Num(x) * Num(o) + Num(y) * Num(y) >= 0
      BY <3>1, <3>3 DEF u, v
    <3>5. Bounds(NaNToZero(MulUp(x, o)), NaNToZero(MulUp(y, y))) \in NonEmpty
      BY <2>3, <2>5, <3>1, <3>4, ProductsArePair
    <3>6. NaNToZero(MulUp(x, o)) = MulUp(x, o)
      BY <2>5, <3>1, ProductIsUpper
    <3>7. NaNToZero(MulUp(y, y)) = MulUp(y, y)
      BY <2>3, ProductIsUpper
    <3> QED
      BY <3>5, <3>6, <3>7 DEF o
  <2>6. /\ a <= 0 => fromP \in NonEmpty
        /\ b <= 0 => fromN \in NonEmpty
    BY <2>2, <2>5
  <2>7. largest \in Ends /\ AtLeast(largest, 0, One)
    <3>1. ASSUME NEW x \in Ends
          PROVE  MulUp(x, x) \in Ends /\ AtLeast(MulUp(x, x), 0, One)
      <4> DEFINE r == MulUp(x, x)
                 u == Num(x)
      <4>1. x \in Doubles /\ Num(x) \in Int
        BY EndsAre
      <4>2. r \in Ends /\ AtLeast(r, Num(x) * Num(x), One)
        BY <2>3, <4>1, ProductIsUpper
      <4>3. u * u >= 0 /\ u * u \in Int
        <5>1. u \in Int
          BY <4>1
        <5> HIDE DEF u
        <5>2. u >= 0 \/ u <= 0
          BY <5>1
        <5> QED
          BY <5>1, <5>2, SignsMultiply
      <4>4. Num(r) \in Int /\ One * Num(r) \in Int
        BY <4>2, EndsAre, LargestMagnitude
      <4> HIDE DEF r
      <4> QED
        BY <4>2, <4>3, <4>4 DEF AtLeast, r
    <3> QED
      BY <2>2, <3>1, MaxPdIsUpper
  <2>8. /\ Bounds(Zero(FALSE), largest) \in NonEmpty
        /\ Bounds(Zero(TRUE), largest) \in NonEmpty
    <3>1. ASSUME NEW neg \in BOOLEAN PROVE Bounds(Zero(neg), largest) \in NonEmpty
      <4> DEFINE z == Zero(neg)
      <4>1. z \in Ends /\ Num(z) = 0
        BY EndsAre
      <4> HIDE DEF z, largest
      <4>2. AtLeast(z, 0, One)
        BY <4>1, LargestMagnitude DEF AtLeast
      <4> QED
        BY <2>7, <4>1, <4>2, UppersArePair, LargestMagnitude DEF z
    <3> QED
      BY <3>1
  <2>9. Bounds(Zero(TRUE), Zero(FALSE)) \in NonEmpty
    BY ConstantsAreIntervals
  <2>10. /\ side # "Z" => OnSide(side, I)
         /\ side = "P" => a <= 0
         /\ side = "N" => b <= 0
         /\ side \in {"P", "M", "N", "Z"}
    BY <2>1, SidesAre DEF OnSide
  <2>11. /\ certainly_positive(I) => a <= 0
         /\ certainly_negative(I) => b <= 0
    BY <1>2, <2>1, BoundsCompare DEF certainly_positive, certainly_negative
  <2>12. sqr(I) =
           IF Sse
           THEN CASE side = "M" -> Bounds(Zero(FALSE), largest)
                  [] side = "P" -> fromP
                  [] side = "N" -> fromN
                  [] side = "Z" -> Bounds(Zero(TRUE), Zero(FALSE))
           ELSE IF certainly_positive(I) THEN fromP
           ELSE IF certainly_negative(I) THEN fromN
           ELSE Bounds(Zero(TRUE), largest)
    BY <1>2 DEF sqr
  <2> HIDE DEF side, fromP, fromN, largest
  <2>13. sqr(I) \in NonEmpty
    BY <2>6, <2>8, <2>9, <2>10, <2>11, <2>12
  <2> QED
    BY <2>13 DEF Intervals
<1> QED
  BY <1>1, <1>2

-----------------------------------------------------------------------------
(* The bounds of an interval, and constants, are numbers; so are the         *)
(* opposite, the sum, the product and the extrema of numbers.               *)
LEMMA NumbersAre ==
  /\ \A I \in Intervals : /\ I.lb \in Numbers /\ I.rb \in Numbers
                          /\ left(I) \in Numbers /\ right(I) \in Numbers
  /\ Zero(FALSE) \in Numbers /\ OfNum(Largest) \in Numbers /\ OfNum(-Largest) \in Numbers
  /\ OfNum(One \div 2) \in Numbers /\ OfNum(-(One \div 2)) \in Numbers
  /\ \A x \in Numbers : Opposite(x) \in Numbers
  /\ \A x, y \in Numbers : /\ AddUp(x, y) \in Numbers /\ SubUp(x, y) \in Numbers
                          /\ MulUp(x, y) \in Numbers
                          /\ maximum(x, y) \in Numbers /\ minimum(x, y) \in Numbers
<1>1. \A x \in Numbers : Opposite(x) \in Numbers
  BY OppositeIsDouble DEF Numbers
<1>2. ASSUME NEW I \in Intervals
      PROVE  /\ I.lb \in Numbers /\ I.rb \in Numbers
             /\ left(I) \in Numbers /\ right(I) \in Numbers
  <2>1. I.lb \in Numbers /\ I.rb \in Numbers
    BY NonEmptyIs, EmptySetIs DEF Intervals, Numbers
  <2> QED
    BY <1>1, <2>1 DEF left, right
<1>3. Zero(FALSE) \in Numbers
  BY EndsAre DEF Numbers
<1>4. \A v \in FiniteNums : OfNum(v) \in Numbers
  BY OfNumIsNum DEF Numbers
<1>5. /\ Largest \in FiniteNums /\ -Largest \in FiniteNums
      /\ One \div 2 \in FiniteNums /\ -(One \div 2) \in FiniteNums
  BY FiniteNumsRange, MagnitudesAssumption
<1>6. \A x, y \in Numbers : AddUp(x, y) \in Numbers /\ SubUp(x, y) \in Numbers
  BY SumIsNumber
<1>7. \A x, y \in Numbers : MulUp(x, y) \in Numbers
  BY ProductIsNumber
<1>8. \A x, y \in Numbers : maximum(x, y) \in Numbers /\ minimum(x, y) \in Numbers
  BY DEF maximum, minimum, Numbers
<1> QED
  BY <1>1, <1>2, <1>3, <1>4, <1>5, <1>6, <1>7, <1>8

(* midpoint() gives a number.                                               *)
LEMMA MidpointIsNumber ==
  ASSUME NEW I \in Intervals
  PROVE  midpoint(I) \in Numbers
<1>1. CASE is_empty(I)
  BY <1>1 DEF midpoint, Numbers
<1>2. CASE ~is_empty(I)
  <2>1. I \in NonEmpty
    BY <1>2, EmptySetIs
  <2>2. left(I) \in Doubles /\ right(I) \in Doubles
    BY <2>1, NonEmptyIs
  <2>3. \A x, y \in Doubles : SumNearest(x, y) \in Doubles
    <3>1. ASSUME NEW x \in Doubles, NEW y \in Doubles PROVE SumNearest(x, y) \in Doubles
      <4>1. Num(x) + Num(y) \in Int
        BY NumOfMagnitude
      <4> QED
        BY <4>1, RoundNearestIsDouble DEF SumNearest
    <3> QED
      BY <3>1
  <2>4. \A x \in Doubles : HalfNearest(x) \in Doubles
    BY NumOfMagnitude, RoundNearestIsDouble DEF HalfNearest
  <2>5. HalfOfSum(SumNearest(left(I), right(I)), left(I), right(I)) \in Doubles
    BY <2>2, <2>3, <2>4 DEF HalfOfSum
  <2>6. Zero(FALSE) \in Numbers /\ OfNum(Largest) \in Numbers /\ OfNum(-Largest) \in Numbers
    BY NumbersAre
  <2> QED
    BY <1>2, <2>5, <2>6 DEF midpoint, Numbers
<1> QED
  BY <1>1, <1>2

(* mid() gives an interval.                                                 *)
LEMMA MidIsInterval ==
  ASSUME NEW I \in Intervals
  PROVE  mid(I) \in Intervals
<1> DEFINE half(x) == MulUp(OfNum(One \div 2), x)
           minusHalf(x) == MulUp(OfNum(-(One \div 2)), x)
           sum == SubUp(I.rb, I.lb)
           opp_sum == SubUp(I.lb, I.rb)
           l == Opposite(AddUp(half(I.lb), minusHalf(I.rb)))
           r == AddUp(minusHalf(I.lb), half(I.rb))
<1>1. /\ l \in Numbers /\ r \in Numbers
      /\ Opposite(half(opp_sum)) \in Numbers /\ half(sum) \in Numbers
  BY NumbersAre
<1>2. /\ Interval(l, r) \in Intervals
      /\ Interval(Opposite(half(opp_sum)), half(sum)) \in Intervals
  BY <1>1, ConstructedIsInterval
<1>3. /\ Point(Zero(FALSE)) \in Intervals /\ Point(OfNum(Largest)) \in Intervals
      /\ Point(OfNum(-Largest)) \in Intervals
  BY NumbersAre, ConstructedIsInterval DEF Point
<1>4. emptyset \in Intervals
  BY DEF Intervals
<1>5. mid(I) = IF is_empty(I) THEN emptyset
               ELSE IF is_symmetric(I) THEN Point(Zero(FALSE))
               ELSE IF left(I) = MinusInfinity THEN Point(OfNum(-Largest))
               ELSE IF right(I) = Infinity THEN Point(OfNum(Largest))
               ELSE IF IsInf(sum) \/ IsInf(opp_sum) THEN Interval(l, r)
               ELSE Interval(Opposite(half(opp_sum)), half(sum))
  BY DEF mid
<1> HIDE DEF half, sum, opp_sum, l, r
<1> QED
  BY <1>2, <1>3, <1>4, <1>5

(* The functions of the bounds give intervals.                              *)
LEMMA FunctionsAreIntervals ==
  ASSUME NEW I \in Intervals, NEW J \in Intervals, Sse \in BOOLEAN
  PROVE  /\ max(I, J) \in Intervals /\ min(I, J) \in Intervals /\ abs(I) \in Intervals
         /\ split_left(I) \in Intervals /\ split_right(I) \in Intervals
         /\ invabs_rel(J, I) \in Intervals
<1>1. max(I, J) \in Intervals /\ min(I, J) \in Intervals
  BY NumbersAre, ConstructedIsInterval DEF max, min
<1>2. split_left(I) \in Intervals /\ split_right(I) \in Intervals
  BY NumbersAre, MidpointIsNumber, ConstructedIsInterval DEF split_left, split_right
<1>3. abs(I) \in Intervals
  <2>1. /\ Interval(Opposite(right(I)), I.lb) \in Intervals
        /\ Interval(Zero(FALSE), maximum(I.lb, I.rb)) \in Intervals
    BY NumbersAre, ConstructedIsInterval
  <2> QED
    BY <2>1 DEF abs
<1>4. invabs_rel(J, I) \in Intervals
  <2> DEFINE K == Meet(J, positive)
  <2>1. positive \in Intervals /\ emptyset \in Intervals
    BY ConstantsAreIntervals DEF Intervals
  <2>2. K \in Intervals
    BY <2>1, MeetIsInterval
  <2>3. invabs_rel(J, I) =
          IF is_empty(K) THEN emptyset
          ELSE IF certainly_geq(I, zero) THEN Meet(K, I)
          ELSE IF certainly_leq(I, zero) THEN Meet(Minus(K), I)
          ELSE Join(Meet(K, I), Meet(Minus(K), I))
    BY DEF invabs_rel
  <2> HIDE DEF K
  <2>4. /\ Meet(K, I) \in Intervals /\ Meet(Minus(K), I) \in Intervals
    BY <2>2, MeetIsInterval, MinusIsInterval
  <2>5. Join(Meet(K, I), Meet(Minus(K), I)) \in Intervals
    BY <2>4, JoinIsInterval
  <2> QED
    BY <2>1, <2>3, <2>4, <2>5
<1> QED
  BY <1>1, <1>2, <1>3, <1>4

-----------------------------------------------------------------------------
(* What a program of intervals of doubles keeps *)
Kept == Sse \in BOOLEAN /\ obj \in [Names -> Intervals]

(* Every operation of a program leaves its intervals intervals.             *)
LEMMA OperationsGiveIntervals ==
  ASSUME ~Aliased, Sse \in BOOLEAN, obj \in [Names -> Intervals], Next
  PROVE  Sse' = Sse /\ obj' \in [Names -> Intervals]
<1>1. "x" \in Names /\ "y" \in Names
  BY DEF Names
<1>2. \A n \in Names : obj[n] \in Intervals
  OBVIOUS
<1>3. ASSUME NEW I \in Intervals, Assign("x", I)
      PROVE  Sse' = Sse /\ obj' \in [Names -> Intervals]
  BY <1>1, <1>3 DEF Assign
<1>4. CASE Exchange
  BY <1>1, <1>2, <1>4 DEF Exchange, Names
<1>5. CASE Construct("x")
  <2>1. PICK I \in Constructed : Assign("x", I)
    BY <1>5 DEF Construct
  <2>2. /\ emptyset \in Intervals /\ universe \in Intervals /\ zero \in Intervals
        /\ positive \in Intervals /\ negative \in Intervals
    BY ConstantsAreIntervals DEF Intervals
  <2>3. I \in Intervals
    BY <2>2, ConstructedIsInterval DEF Constructed, Numbers
  <2> QED
    BY <1>3, <2>1, <2>3
<1>6. CASE Transform("x")
  <2> DEFINE I == obj["x"]
  <2>1. I \in Intervals
    BY <1>1, <1>2
  <2>2. /\ Minus(I) \in Intervals /\ inverse(I) \in Intervals /\ sqr(I) \in Intervals
        /\ mid(I) \in Intervals /\ abs(I) \in Intervals
        /\ split_left(I) \in Intervals /\ split_right(I) \in Intervals
    BY <2>1, MinusIsInterval, InverseIsInterval, SquareIsInterval, MidIsInterval,
       FunctionsAreIntervals
  <2>3. \E A \in Intervals : Assign("x", A)
    BY <1>6, <2>2 DEF Transform
  <2> QED
    BY <1>3, <2>3
<1>7. ASSUME NEW i \in Names,
             \/ Add("x", i) \/ Subtract("x", i) \/ Multiply("x", i) \/ Divide("x", i)
             \/ Reverse("x", i) \/ Intersect("x", i) \/ Unite("x", i)
             \/ WithDouble("x", i) \/ Combine("x", i)
      PROVE  Sse' = Sse /\ obj' \in [Names -> Intervals]
  <2> DEFINE I == obj["x"]
             J == obj[i]
             same == "x" = i
  <2>1. I \in Intervals /\ J \in Intervals
    BY <1>1, <1>2
  <2>2. May("x", i) => (same => Sse)
    BY DEF May, SameAllowed
  <2> HIDE DEF same
  <2>3. CASE Add("x", i) \/ Subtract("x", i)
    <3>1. (same => Sse) => Plus(I, J, same) \in Intervals /\ Difference(I, J, same) \in Intervals
      BY <2>1, SumIsInterval
    <3>2. \E A \in Intervals : Assign("x", A)
      BY <2>2, <2>3, <3>1 DEF Add, Subtract, same
    <3> QED
      BY <1>3, <3>2
  <2>4. CASE Multiply("x", i)
    <3>1. Product(I, J) \in Intervals /\ Assign("x", Product(I, J))
      BY <2>1, <2>4, ProductIsInterval DEF Multiply
    <3> QED
      BY <1>3, <3>1
  <2>5. CASE Divide("x", i) \/ Reverse("x", i)
    <3>1. (same => Sse) => Quotient(I, J, same) \in Intervals /\ RelQuotient(I, J, same) \in Intervals
      BY <2>1, QuotientIsInterval, RelQuotientIsInterval
    <3>2. \E A \in Intervals : Assign("x", A)
      BY <2>2, <2>5, <3>1 DEF Divide, Reverse, same
    <3> QED
      BY <1>3, <3>2
  <2>6. CASE Intersect("x", i) \/ Unite("x", i)
    <3>1. Meet(I, J) \in Intervals /\ Join(I, J) \in Intervals
      BY <2>1, MeetIsInterval, JoinIsInterval
    <3>2. \E A \in Intervals : Assign("x", A)
      BY <2>6, <3>1 DEF Intersect, Unite
    <3> QED
      BY <1>3, <3>2
  <2>7. CASE WithDouble("x", i)
    <3>1. PICK d \in {left(J), right(J)} :
            \/ Assign("x", PlusDouble(I, d)) \/ Assign("x", MinusDouble(I, d))
            \/ Assign("x", TimesDouble(I, d)) \/ Assign("x", OverDouble(I, d))
            \/ Assign("x", RelOverDouble(I, d))
      BY <2>7 DEF WithDouble
    <3>2. d \in Numbers
      BY <2>1, NumbersAre
    <3>3. /\ PlusDouble(I, d) \in Intervals /\ MinusDouble(I, d) \in Intervals
          /\ TimesDouble(I, d) \in Intervals /\ OverDouble(I, d) \in Intervals
          /\ RelOverDouble(I, d) \in Intervals
      BY <2>1, <3>2, WithDoubleIsInterval
    <3> QED
      BY <1>3, <3>1, <3>3
  <2>8. CASE Combine("x", i)
    <3>1. /\ max(I, J) \in Intervals /\ min(I, J) \in Intervals /\ invabs_rel(J, I) \in Intervals
          /\ div_rel(J, I, I) \in Intervals
      BY <2>1, FunctionsAreIntervals, DivRelIsInterval
    <3>2. \E A \in Intervals : Assign("x", A)
      BY <2>8, <3>1 DEF Combine
    <3> QED
      BY <1>3, <3>2
  <2> QED
    BY <1>7, <2>3, <2>4, <2>5, <2>6, <2>7, <2>8
<1> QED
  BY <1>4, <1>5, <1>6, <1>7 DEF Next

(* A program starts with intervals, and keeps intervals.                    *)
LEMMA KeptIsInductive ==
  ASSUME ~Aliased
  PROVE  /\ Init => Kept
         /\ Kept /\ Next => Kept'
<1>1. ASSUME Init PROVE Kept
  <2>1. Sse \in BOOLEAN /\ obj = [n \in Names |-> universe]
    BY <1>1, ProgramAssumption DEF Init
  <2>2. universe \in Intervals
    BY <2>1, ConstantsAreIntervals DEF Intervals
  <2> QED
    BY <2>1, <2>2 DEF Kept
<1>2. ASSUME Kept, Next PROVE Kept'
  <2>1. Sse' = Sse /\ obj' \in [Names -> Intervals]
    BY <1>2, OperationsGiveIntervals DEF Kept
  <2> QED
    BY <1>2, <2>1 DEF Kept
<1> QED
  BY <1>1, <1>2

(* Intervals are well formed.                                               *)
LEMMA IntervalsAre ==
  Kept => WellFormed
<1>1. ASSUME NEW I \in Intervals
      PROVE  IF is_empty(I) THEN I = emptyset
             ELSE Lt(left(I), Infinity) /\ Lt(MinusInfinity, right(I))
  BY <1>1, EmptySetIs, BoundsCompare
<1> QED
  BY <1>1 DEF Kept, WellFormed

-----------------------------------------------------------------------------
(* The constants of the samples.                                            *)
LEMMA ConstantsAre ==
  /\ Fine \in Nat /\ Fine >= 1 /\ Beyond \in Nat /\ Beyond > 2 * Largest
  /\ Largest \in Nat /\ Largest >= 1
<1>1. /\ Fine \in Nat /\ Fine * One > Largest /\ Beyond \in Nat /\ Beyond > 2 * Largest
      /\ Largest \in Nat /\ Largest >= 1 /\ One \in Nat
  BY FineAssumption, LargestMagnitude
<1>2. Fine # 0
  <2>1. 0 * One = 0
    BY <1>1
  <2> QED
    BY <1>1, <2>1
<1> QED
  BY <1>1, <1>2

(* A bound as a number of units: that beyond all the doubles for an infinity *)
Reach(x) == IF x = Infinity THEN Beyond ELSE Num(x)

(* The greatest sample, and the opposite of the least one *)
Top(I) == Reach(I.rb) * Fine
Bottom(I) == Reach(I.lb) * Fine

(* How far a bound of an interval that is not empty is.                     *)
LEMMA ReachIs ==
  ASSUME NEW x \in Ends
  PROVE  /\ Reach(x) \in Int /\ -Largest <= Reach(x) /\ Reach(x) <= Beyond
         /\ Num(x) <= Reach(x)
         /\ x # Infinity => Reach(x) = Num(x) /\ Num(x) <= Largest
         /\ x = Infinity => Reach(x) = Beyond
  BY ConstantsAre, EndsAre DEF Reach

(* An interval with no left bound stores an infinity.                        *)
LEMMA LeftIsInfinite ==
  ASSUME NEW I \in NonEmpty
  PROVE  left(I) = MinusInfinity <=> I.lb = Infinity
<1>1. I.lb \in Ends /\ Num(I.lb) \in Int /\ Num(left(I)) = -Num(I.lb)
  BY NonEmptyIs
<1>2. Infinity \in Doubles /\ I.lb \in Doubles
  BY <1>1, EndsAre
<1>3. I.lb = Infinity => left(I) = MinusInfinity
  BY DEF left, MinusInfinity
<1>4. left(I) = MinusInfinity => Num(I.lb) = Num(Infinity)
  BY <1>1, <1>2, OppositeIsDouble, NumOfMagnitude DEF MinusInfinity
<1> QED
  BY <1>1, <1>2, <1>3, <1>4, EndsAre

(* The reals that an interval has.                                          *)
LEMMA InIs ==
  ASSUME NEW I \in NonEmpty, NEW x \in Int
  PROVE  /\ In(x, I) <=> /\ I.lb = Infinity \/ -(Num(I.lb) * Fine) <= x
                         /\ I.rb = Infinity \/ x <= Num(I.rb) * Fine
         /\ -(Beyond * Fine) <= x /\ x <= Beyond * Fine =>
              (In(x, I) <=> -Bottom(I) <= x /\ x <= Top(I))
         /\ In(x, I) => /\ I.lb # Infinity => -Bottom(I) <= x
                        /\ I.rb # Infinity => x <= Top(I)
<1>1. /\ I.lb \in Ends /\ I.rb \in Ends /\ Num(I.lb) \in Int /\ Num(I.rb) \in Int
      /\ left(I) \in Doubles /\ Num(left(I)) = -Num(I.lb) /\ right(I) = I.rb /\ ~is_empty(I)
      /\ Fine \in Nat /\ Fine >= 1
  BY NonEmptyIs, ConstantsAre
<1>2. left(I) = MinusInfinity <=> I.lb = Infinity
  BY LeftIsInfinite
<1>3. Num(left(I)) * Fine = -(Num(I.lb) * Fine)
  BY <1>1
<1>4. In(x, I) <=> /\ I.lb = Infinity \/ -(Num(I.lb) * Fine) <= x
                   /\ I.rb = Infinity \/ x <= Num(I.rb) * Fine
  BY <1>1, <1>2, <1>3 DEF In
<1>5. /\ I.lb = Infinity => Bottom(I) = Beyond * Fine
      /\ I.rb = Infinity => Top(I) = Beyond * Fine
      /\ I.lb # Infinity => Bottom(I) = Num(I.lb) * Fine
      /\ I.rb # Infinity => Top(I) = Num(I.rb) * Fine
  BY DEF Bottom, Top, Reach
<1> HIDE DEF Bottom, Top
<1> QED
  BY <1>4, <1>5

(* The samples of an interval: its bounds, or reals beyond all the doubles,  *)
(* are the least and the greatest.                                          *)
LEMMA SamplesAre ==
  ASSUME NEW I \in NonEmpty
  PROVE  /\ Top(I) \in Samples(I) /\ -Bottom(I) \in Samples(I)
         /\ \A x \in Samples(I) : x \in Int /\ -Bottom(I) <= x /\ x <= Top(I) /\ In(x, I)
         /\ Top(I) \in Int /\ Bottom(I) \in Int /\ -Bottom(I) <= Top(I)
<1> DEFINE finite == {e \in {I.lb, I.rb} : e # NaN /\ ~IsInf(e)}
           bounds == {b.mag * Fine * s : b \in finite, s \in {-1, 1}}
           all == bounds \union {-Beyond * Fine, Beyond * Fine, -1, 0, 1}
<1>1. /\ I.lb \in Ends /\ I.rb \in Ends /\ Num(I.lb) \in Int /\ Num(I.rb) \in Int
      /\ Num(I.lb) + Num(I.rb) >= 0 /\ I.lb # NaN /\ I.rb # NaN
      /\ IsInf(I.lb) <=> I.lb = Infinity
      /\ IsInf(I.rb) <=> I.rb = Infinity
  BY NonEmptyIs, EndsAre
<1>2. /\ Fine \in Nat /\ Fine >= 1 /\ Beyond \in Nat /\ Beyond > 2 * Largest
      /\ Largest \in Nat /\ Largest >= 1
  BY ConstantsAre
<1>3. Samples(I) = {x \in all : In(x, I)}
  BY DEF Samples
<1>4. \A e \in finite : e \in Doubles /\ e \in {I.lb, I.rb} /\ e.mag \in Nat /\ e.mag <= Largest
  <2>1. ASSUME NEW e \in finite PROVE e.mag \in Nat /\ e.mag <= Largest /\ e \in Doubles
    <3>1. e \in Doubles /\ ~IsInf(e)
      BY <1>1, EndsAre
    <3>2. e.mag \in Nat /\ e.mag <= Oo /\ e.mag # Oo
      BY <3>1, NumOfMagnitude DEF IsInf
    <3> QED
      BY <1>2, <3>1, <3>2 DEF Oo
  <2> QED
    BY <2>1
<1>5. \A x \in all : x \in Int /\ -(Beyond * Fine) <= x /\ x <= Beyond * Fine
  <2>1. ASSUME NEW x \in bounds PROVE x \in Int /\ -(Beyond * Fine) <= x /\ x <= Beyond * Fine
    <3>1. PICK b \in finite, s \in {-1, 1} : x = b.mag * Fine * s
      BY <2>1
    <3>2. b.mag \in Nat /\ b.mag <= Beyond
      BY <1>2, <1>4
    <3> DEFINE k == b.mag * Fine
    <3>3. k \in Nat /\ k <= Beyond * Fine
      BY <1>2, <3>2, ProductsGrow
    <3>4. x = k * s
      BY <3>1
    <3> HIDE DEF k
    <3>5. Beyond * Fine \in Nat
      BY <1>2, SignsMultiply
    <3>6. x = k \/ x = -k
      BY <3>3, <3>4
    <3> QED
      BY <3>3, <3>5, <3>6
  <2>2. /\ Beyond * Fine \in Nat /\ -Beyond * Fine = -(Beyond * Fine)
    BY <1>2
  <2>3. 1 <= Beyond * Fine
    <3>1. 1 * 1 <= Beyond * Fine
      BY <1>2, ProductsGrow
    <3> QED
      BY <3>1
  <2> QED
    BY <2>1, <2>2, <2>3
<1>6. ASSUME NEW e \in {I.lb, I.rb}
      PROVE  Reach(e) * Fine \in all /\ -(Reach(e) * Fine) \in all
  <2>1. CASE e = Infinity
    <3>1. Reach(e) * Fine = Beyond * Fine /\ -(Beyond * Fine) = -Beyond * Fine
      BY <1>2, <2>1 DEF Reach
    <3> QED
      BY <3>1
  <2>2. CASE e # Infinity
    <3>1. e \in finite
      BY <1>1, <2>2
    <3>2. /\ e.mag \in Nat /\ e \in Doubles
          /\ e.neg => Num(e) = -e.mag
          /\ ~e.neg => Num(e) = e.mag
          /\ e.neg \in BOOLEAN
      BY <1>4, <3>1, NumOfMagnitude
    <3>3. Reach(e) = Num(e)
      BY <2>2 DEF Reach
    <3>4. e.mag * Fine * (-1) \in bounds /\ e.mag * Fine * 1 \in bounds
      BY <3>1
    <3>5. \/ Num(e) * Fine = e.mag * Fine * 1 /\ -(Num(e) * Fine) = e.mag * Fine * (-1)
          \/ Num(e) * Fine = e.mag * Fine * (-1) /\ -(Num(e) * Fine) = e.mag * Fine * 1
      BY <1>2, <3>2
    <3> HIDE DEF bounds
    <3> QED
      BY <3>3, <3>4, <3>5
  <2> QED
    BY <2>1, <2>2
<1> HIDE DEF all
<1>7. Top(I) \in all /\ -Bottom(I) \in all
  BY <1>6 DEF Top, Bottom
<1>8. /\ Top(I) \in Int /\ Bottom(I) \in Int /\ -Bottom(I) <= Top(I)
  <2> DEFINE u == Reach(I.lb)
             v == Reach(I.rb)
  <2>1. u \in Int /\ v \in Int /\ Num(I.lb) <= u /\ Num(I.rb) <= v
    BY <1>1, ReachIs
  <2>2. u + v >= 0
    BY <1>1, <2>1
  <2> HIDE DEF u, v
  <2>3. (u + v) * Fine >= 0
    BY <1>2, <2>1, <2>2, SignsMultiply
  <2>4. u * Fine \in Int /\ v * Fine \in Int /\ -(u * Fine) <= v * Fine
    BY <1>2, <2>1, <2>3
  <2> QED
    BY <2>4 DEF Top, Bottom, u, v
<1>9. \A x \in all : In(x, I) <=> -Bottom(I) <= x /\ x <= Top(I)
  BY <1>5, InIs
<1> QED
  BY <1>3, <1>5, <1>7, <1>8, <1>9

-----------------------------------------------------------------------------
(* The samples tell the bounds apart as the doubles do: an infinity is beyond *)
(* them.                                                                    *)
LEMMA ReachesCompare ==
  ASSUME NEW x \in Ends, NEW y \in Ends
  PROVE  /\ Reach(x) + Reach(y) > 0 <=> Num(x) + Num(y) > 0
         /\ Reach(x) + Reach(y) < 0 <=> Num(x) + Num(y) < 0
         /\ Reach(x) <= Reach(y) <=> Num(x) <= Num(y)
<1>1. /\ Num(x) \in Int /\ Num(y) \in Int /\ -Largest <= Num(x) /\ -Largest <= Num(y)
      /\ x = Infinity => Num(x) = Largest + 1
      /\ y = Infinity => Num(y) = Largest + 1
      /\ x # Infinity => Num(x) <= Largest
      /\ y # Infinity => Num(y) <= Largest
  BY EndsAre
<1>2. /\ Largest \in Nat /\ Beyond \in Nat /\ Beyond > 2 * Largest
  BY ConstantsAre
<1>3. /\ Reach(x) = IF x = Infinity THEN Beyond ELSE Num(x)
      /\ Reach(y) = IF y = Infinity THEN Beyond ELSE Num(y)
  BY DEF Reach
<1> QED
  BY <1>1, <1>2, <1>3

(* The extremes of the samples of two intervals compare as their bounds do.  *)
LEMMA ExtremesCompare ==
  ASSUME NEW I \in NonEmpty, NEW J \in NonEmpty
  PROVE  /\ Top(J) + Bottom(I) < 0 <=> Num(J.rb) + Num(I.lb) < 0
         /\ Top(J) + Bottom(I) > 0 <=> Num(J.rb) + Num(I.lb) > 0
         /\ Top(J) <= Top(I) <=> Num(J.rb) <= Num(I.rb)
         /\ Bottom(J) <= Bottom(I) <=> Num(J.lb) <= Num(I.lb)
<1>1. I.lb \in Ends /\ I.rb \in Ends /\ J.lb \in Ends /\ J.rb \in Ends
  BY NonEmptyIs
<1> DEFINE a == Reach(I.lb)
           b == Reach(I.rb)
           c == Reach(J.lb)
           e == Reach(J.rb)
<1>2. a \in Int /\ b \in Int /\ c \in Int /\ e \in Int
  BY <1>1, ReachIs
<1>3. Fine \in Nat /\ Fine >= 1
  BY ConstantsAre
<1>4. /\ Top(J) + Bottom(I) = (e + a) * Fine
      /\ Top(J) = e * Fine /\ Top(I) = b * Fine /\ Bottom(J) = c * Fine /\ Bottom(I) = a * Fine
  <2>1. /\ Top(J) = e * Fine /\ Top(I) = b * Fine /\ Bottom(J) = c * Fine /\ Bottom(I) = a * Fine
    BY DEF Top, Bottom
  <2> HIDE DEF a, b, c, e
  <2> QED
    BY <1>2, <1>3, <2>1
<1>5. /\ e + a > 0 <=> Num(J.rb) + Num(I.lb) > 0
      /\ e + a < 0 <=> Num(J.rb) + Num(I.lb) < 0
      /\ e <= b <=> Num(J.rb) <= Num(I.rb)
      /\ c <= a <=> Num(J.lb) <= Num(I.lb)
  BY <1>1, ReachesCompare
<1> HIDE DEF a, b, c, e
<1>6. /\ e + a \in Int /\ 0 * Fine = 0
  BY <1>2, <1>3
<1>7. /\ 0 < e + a <=> 0 * Fine < (e + a) * Fine
      /\ e + a < 0 <=> (e + a) * Fine < 0 * Fine
      /\ e <= b <=> e * Fine <= b * Fine
      /\ c <= a <=> c * Fine <= a * Fine
  BY <1>2, <1>3, <1>6, ProductsCompare
<1>8. (e + a) * Fine \in Int
  BY <1>3, <1>6
<1> QED
  BY <1>4, <1>5, <1>6, <1>7, <1>8

(* The samples of an interval that another one has.                         *)
LEMMA SamplesAreIn ==
  ASSUME NEW I \in NonEmpty, NEW J \in NonEmpty
  PROVE  /\ \A x \in Samples(J) : In(x, I) <=> -Bottom(I) <= x /\ x <= Top(I)
         /\ (\A x \in Samples(J) : In(x, I)) <=> Bottom(J) <= Bottom(I) /\ Top(J) <= Top(I)
<1>1. /\ Top(J) \in Samples(J) /\ -Bottom(J) \in Samples(J)
      /\ \A x \in Samples(J) : x \in Int /\ -Bottom(J) <= x /\ x <= Top(J)
      /\ Top(I) \in Int /\ Bottom(I) \in Int /\ Top(J) \in Int /\ Bottom(J) \in Int
  BY SamplesAre
<1>2. Bottom(J) <= Beyond * Fine /\ Top(J) <= Beyond * Fine
  <2>1. /\ Reach(J.lb) \in Int /\ Reach(J.lb) <= Beyond
        /\ Reach(J.rb) \in Int /\ Reach(J.rb) <= Beyond
    BY NonEmptyIs, ReachIs
  <2>2. Fine \in Nat /\ Fine >= 1 /\ Beyond \in Int
    BY ConstantsAre
  <2>3. Reach(J.lb) * Fine <= Beyond * Fine /\ Reach(J.rb) * Fine <= Beyond * Fine
    BY <2>1, <2>2, ProductsCompare
  <2> QED
    BY <2>3 DEF Bottom, Top
<1> DEFINE most == Beyond * Fine
<1>3. most \in Int
  BY ConstantsAre
<1> HIDE DEF most
<1>4. \A x \in Samples(J) : In(x, I) <=> -Bottom(I) <= x /\ x <= Top(I)
  <2>1. ASSUME NEW x \in Samples(J) PROVE In(x, I) <=> -Bottom(I) <= x /\ x <= Top(I)
    <3>1. x \in Int /\ -most <= x /\ x <= most
      BY <1>1, <1>2, <1>3 DEF most
    <3> QED
      BY <3>1, InIs DEF most
  <2> QED
    BY <2>1
<1>5. (\A x \in Samples(J) : -Bottom(I) <= x /\ x <= Top(I))
         <=> Bottom(J) <= Bottom(I) /\ Top(J) <= Top(I)
  <2>1. Bottom(J) <= Bottom(I) <=> -Bottom(I) <= -Bottom(J)
    BY <1>1
  <2>2. ASSUME \A x \in Samples(J) : -Bottom(I) <= x /\ x <= Top(I)
        PROVE  -Bottom(I) <= -Bottom(J) /\ Top(J) <= Top(I)
    BY <1>1, <2>2
  <2>3. ASSUME -Bottom(I) <= -Bottom(J), Top(J) <= Top(I), NEW x \in Samples(J)
        PROVE  -Bottom(I) <= x /\ x <= Top(I)
    BY <1>1, <2>3
  <2> QED
    BY <2>1, <2>2, <2>3
<1> QED
  BY <1>4, <1>5

(* The samples that two intervals share.                                    *)
LEMMA SharedSamplesAre ==
  ASSUME NEW I \in NonEmpty, NEW J \in NonEmpty
  PROVE  {x \in Samples(I) \union Samples(J) : In(x, I) /\ In(x, J)} # {}
            <=> -Bottom(I) <= Top(J) /\ -Bottom(J) <= Top(I)
<1> DEFINE shared == {x \in Samples(I) \union Samples(J) : In(x, I) /\ In(x, J)}
<1>1. /\ Top(I) \in Int /\ Bottom(I) \in Int /\ -Bottom(I) <= Top(I)
      /\ Top(J) \in Int /\ Bottom(J) \in Int /\ -Bottom(J) <= Top(J)
      /\ -Bottom(I) \in Samples(I) /\ -Bottom(J) \in Samples(J)
      /\ \A x \in Samples(I) : x \in Int
      /\ \A x \in Samples(J) : x \in Int
  BY SamplesAre
<1>2. \A x \in Samples(I) \union Samples(J) :
         /\ In(x, I) <=> -Bottom(I) <= x /\ x <= Top(I)
         /\ In(x, J) <=> -Bottom(J) <= x /\ x <= Top(J)
  BY SamplesAreIn
<1>3. ASSUME shared # {} PROVE -Bottom(I) <= Top(J) /\ -Bottom(J) <= Top(I)
  <2>1. PICK x \in Samples(I) \union Samples(J) : In(x, I) /\ In(x, J)
    BY <1>3
  <2> QED
    BY <1>1, <1>2, <2>1
<1>4. ASSUME -Bottom(I) <= Top(J), -Bottom(J) <= Top(I) PROVE shared # {}
  <2>1. CASE -Bottom(I) <= -Bottom(J)
    <3>1. In(-Bottom(J), I) /\ In(-Bottom(J), J)
      BY <1>1, <1>2, <1>4, <2>1
    <3> QED
      BY <1>1, <3>1
  <2>2. CASE -Bottom(J) <= -Bottom(I)
    <3>1. In(-Bottom(I), I) /\ In(-Bottom(I), J)
      BY <1>1, <1>2, <1>4, <2>2
    <3> QED
      BY <1>1, <3>1
  <2> QED
    BY <1>1, <2>1, <2>2
<1> QED
  BY <1>3, <1>4

(* The samples of an interval that are inside another one.                  *)
LEMMA InnerSamplesAre ==
  ASSUME NEW I \in NonEmpty, NEW J \in NonEmpty
  PROVE  (\A y \in Samples(J), e \in {-1, 1} : In(y + e, I))
            <=> /\ I.lb = Infinity \/ Num(J.lb) < Num(I.lb)
                /\ I.rb = Infinity \/ Num(J.rb) < Num(I.rb)
<1> DEFINE lower == I.lb = Infinity \/ -(Num(I.lb) * Fine) <= -Bottom(J) - 1
           upper == I.rb = Infinity \/ Top(J) + 1 <= Num(I.rb) * Fine
<1>1. /\ Top(J) \in Samples(J) /\ -Bottom(J) \in Samples(J)
      /\ \A x \in Samples(J) : x \in Int /\ -Bottom(J) <= x /\ x <= Top(J)
      /\ Top(J) \in Int /\ Bottom(J) \in Int
  BY SamplesAre
<1>2. /\ I.lb \in Ends /\ I.rb \in Ends /\ J.lb \in Ends /\ J.rb \in Ends
      /\ Num(I.lb) \in Int /\ Num(I.rb) \in Int /\ Num(J.lb) \in Int /\ Num(J.rb) \in Int
  BY NonEmptyIs
<1>3. Fine \in Nat /\ Fine >= 1
  BY ConstantsAre
<1> DEFINE m == Num(I.lb) * Fine
           n == Num(I.rb) * Fine
<1>4. m \in Int /\ n \in Int
  BY <1>2, <1>3
<1>5. \A x \in Int : In(x, I) <=> (I.lb = Infinity \/ -m <= x) /\ (I.rb = Infinity \/ x <= n)
  BY InIs
<1>6. lower <=> I.lb = Infinity \/ -m <= -Bottom(J) - 1
  OBVIOUS
<1>7. upper <=> I.rb = Infinity \/ Top(J) + 1 <= n
  OBVIOUS
<1> HIDE DEF m, n, lower, upper
<1>8. (\A y \in Samples(J), e \in {-1, 1} : In(y + e, I)) => lower /\ upper
  <2>1. ASSUME \A y \in Samples(J), e \in {-1, 1} : In(y + e, I) PROVE lower /\ upper
    <3>1. In(-Bottom(J) + (-1), I) /\ In(Top(J) + 1, I)
      BY <1>1, <2>1
    <3> QED
      BY <1>1, <1>4, <1>5, <1>6, <1>7, <3>1
  <2> QED
    BY <2>1
<1>9. lower /\ upper => \A y \in Samples(J), e \in {-1, 1} : In(y + e, I)
  <2>1. ASSUME lower, upper, NEW y \in Samples(J), NEW e \in {-1, 1} PROVE In(y + e, I)
    <3>1. y + e \in Int /\ -Bottom(J) - 1 <= y + e /\ y + e <= Top(J) + 1
      BY <1>1
    <3> QED
      BY <1>1, <1>4, <1>5, <1>6, <1>7, <2>1, <3>1
  <2> QED
    BY <2>1
<1>10. ASSUME NEW x \in Ends, NEW y \in Ends
       PROVE  x = Infinity \/ Reach(y) * Fine + 1 <= Num(x) * Fine
                <=> x = Infinity \/ Num(y) < Num(x)
  <2> DEFINE r == Reach(y)
             k == Num(x)
  <2>1. r \in Int /\ k \in Int
    BY EndsAre, ReachIs
  <2>2. r < k <=> r * Fine < k * Fine
    BY <1>3, <2>1, ProductsCompare
  <2>3. r * Fine \in Int /\ k * Fine \in Int
    BY <1>3, <2>1
  <2>4. x # Infinity => (r < k <=> Num(y) < k)
    <3>1. /\ y = Infinity => r = Beyond /\ Num(y) = Largest + 1
          /\ y # Infinity => r = Num(y)
          /\ x # Infinity => k <= Largest
          /\ Num(y) \in Int
      BY EndsAre, ReachIs
    <3> QED
      BY <2>1, <3>1, ConstantsAre
  <2> HIDE DEF r, k
  <2>5. r * Fine + 1 <= k * Fine <=> r < k
    BY <2>2, <2>3
  <2> QED
    BY <2>4, <2>5 DEF r, k
<1>11. upper <=> I.rb = Infinity \/ Num(J.rb) < Num(I.rb)
  BY <1>2, <1>10 DEF upper, Top
<1>12. lower <=> I.lb = Infinity \/ Num(J.lb) < Num(I.lb)
  <2>1. -m <= -Bottom(J) - 1 <=> Bottom(J) + 1 <= m
    BY <1>1, <1>4
  <2> QED
    BY <1>2, <1>6, <1>10, <2>1 DEF m, Bottom
<1> QED
  BY <1>8, <1>9, <1>11, <1>12

-----------------------------------------------------------------------------
(* The empty set has no sample.                                             *)
LEMMA EmptyHasNone ==
  /\ Samples(emptyset) = {}
  /\ \A x : ~In(x, emptyset)
  /\ \A I \in NonEmpty : Samples(I) # {}
<1>1. \A x : ~In(x, emptyset)
  BY EmptySetIs DEF In
<1> QED
  BY <1>1, SamplesAre DEF Samples

(* The relations, from the bounds of intervals that are not empty.           *)
LEMMA RelationsCompare ==
  ASSUME NEW I \in NonEmpty, NEW J \in NonEmpty
  PROVE  /\ certainly_ge(I, J) <=> Num(J.rb) + Num(I.lb) < 0
         /\ certainly_geq(I, J) <=> Num(J.rb) + Num(I.lb) <= 0
         /\ certainly_le(I, J) <=> Num(I.rb) + Num(J.lb) < 0
         /\ certainly_leq(I, J) <=> Num(I.rb) + Num(J.lb) <= 0
         /\ certainly_eq(I, J) <=>
              /\ Num(I.rb) + Num(I.lb) = 0 /\ Num(J.rb) + Num(J.lb) = 0
              /\ Num(I.lb) = Num(J.lb)
         /\ possibly_ge(I, J) <=> Num(I.rb) + Num(J.lb) > 0
         /\ possibly_geq(I, J) <=> Num(I.rb) + Num(J.lb) >= 0
         /\ possibly_le(I, J) <=> Num(J.rb) + Num(I.lb) > 0
         /\ possibly_leq(I, J) <=> Num(J.rb) + Num(I.lb) >= 0
         /\ possibly_eq(I, J) <=> Num(I.rb) + Num(J.lb) >= 0 /\ Num(J.rb) + Num(I.lb) >= 0
         /\ possibly_neq(I, J) <=> Num(I.rb) + Num(J.lb) > 0 \/ Num(J.rb) + Num(I.lb) > 0
         /\ set_disjoint(I, J) <=> Num(I.rb) + Num(J.lb) < 0 \/ Num(J.rb) + Num(I.lb) < 0
         /\ set_contains(I, J) <=> Num(J.lb) <= Num(I.lb) /\ Num(J.rb) <= Num(I.rb)
         /\ set_leq(I, J) <=> Num(I.lb) <= Num(J.lb) /\ Num(I.rb) <= Num(J.rb)
         /\ set_eq(I, J) <=> Num(I.lb) = Num(J.lb) /\ Num(I.rb) = Num(J.rb)
         /\ set_strictly_contains(I, J) <=>
              /\ I.lb = Infinity \/ Num(J.lb) < Num(I.lb)
              /\ I.rb = Infinity \/ Num(J.rb) < Num(I.rb)
<1>1. /\ ~is_empty(I) /\ left(I) # NaN /\ right(I) # NaN
      /\ Num(left(I)) = -Num(I.lb) /\ right(I) = I.rb
      /\ Num(I.lb) \in Int /\ Num(I.rb) \in Int
  BY NonEmptyIs
<1>2. /\ ~is_empty(J) /\ left(J) # NaN /\ right(J) # NaN
      /\ Num(left(J)) = -Num(J.lb) /\ right(J) = J.rb
      /\ Num(J.lb) \in Int /\ Num(J.rb) \in Int
  BY NonEmptyIs
<1>3. ASSUME NEW K \in {I, J}, NEW L \in {I, J}
      PROVE  /\ Lt(right(K), left(L)) <=> Num(K.rb) + Num(L.lb) < 0
             /\ Leq(right(K), left(L)) <=> Num(K.rb) + Num(L.lb) <= 0
             /\ Lt(left(L), right(K)) <=> Num(K.rb) + Num(L.lb) > 0
             /\ Leq(left(L), right(K)) <=> Num(K.rb) + Num(L.lb) >= 0
             /\ Eq(left(L), right(K)) <=> Num(K.rb) + Num(L.lb) = 0
             /\ Leq(left(K), left(L)) <=> Num(L.lb) <= Num(K.lb)
             /\ Lt(left(K), left(L)) <=> Num(L.lb) < Num(K.lb)
             /\ Eq(left(K), left(L)) <=> Num(K.lb) = Num(L.lb)
             /\ Leq(right(K), right(L)) <=> Num(K.rb) <= Num(L.rb)
             /\ Lt(right(K), right(L)) <=> Num(K.rb) < Num(L.rb)
             /\ Eq(right(K), right(L)) <=> Num(K.rb) = Num(L.rb)
  BY <1>1, <1>2 DEF Lt, Leq, Eq
<1>4. ~Vacuous(I, J)
  BY <1>1, <1>2 DEF Vacuous
<1>5. /\ certainly_ge(I, J) <=> Num(J.rb) + Num(I.lb) < 0
      /\ certainly_geq(I, J) <=> Num(J.rb) + Num(I.lb) <= 0
      /\ certainly_le(I, J) <=> Num(I.rb) + Num(J.lb) < 0
      /\ certainly_leq(I, J) <=> Num(I.rb) + Num(J.lb) <= 0
  BY <1>3, <1>4 DEF certainly_ge, certainly_geq, certainly_le, certainly_leq
<1>6. certainly_eq(I, J) <=>
       /\ Num(I.rb) + Num(I.lb) = 0 /\ Num(J.rb) + Num(J.lb) = 0
       /\ Num(I.lb) = Num(J.lb)
  BY <1>1, <1>3 DEF certainly_eq
<1>7. /\ possibly_ge(I, J) <=> Num(I.rb) + Num(J.lb) > 0
      /\ possibly_geq(I, J) <=> Num(I.rb) + Num(J.lb) >= 0
      /\ possibly_le(I, J) <=> Num(J.rb) + Num(I.lb) > 0
      /\ possibly_leq(I, J) <=> Num(J.rb) + Num(I.lb) >= 0
      /\ possibly_eq(I, J) <=> Num(I.rb) + Num(J.lb) >= 0 /\ Num(J.rb) + Num(I.lb) >= 0
  BY <1>3 DEF possibly_ge, possibly_geq, possibly_le, possibly_leq, possibly_eq
<1>8. possibly_neq(I, J) <=> Num(I.rb) + Num(J.lb) > 0 \/ Num(J.rb) + Num(I.lb) > 0
  BY <1>1, <1>2, <1>3, <1>4 DEF possibly_neq
<1>9. set_disjoint(I, J) <=> Num(I.rb) + Num(J.lb) < 0 \/ Num(J.rb) + Num(I.lb) < 0
  BY <1>3, <1>4 DEF set_disjoint
<1>10. /\ set_contains(I, J) <=> Num(J.lb) <= Num(I.lb) /\ Num(J.rb) <= Num(I.rb)
       /\ set_leq(I, J) <=> Num(I.lb) <= Num(J.lb) /\ Num(I.rb) <= Num(J.rb)
  BY <1>1, <1>2, <1>3 DEF set_contains, set_leq
<1>11. set_eq(I, J) <=> Num(I.lb) = Num(J.lb) /\ Num(I.rb) = Num(J.rb)
  BY <1>1, <1>3 DEF set_eq
<1>12. set_strictly_contains(I, J) <=>
       /\ I.lb = Infinity \/ Num(J.lb) < Num(I.lb)
       /\ I.rb = Infinity \/ Num(J.rb) < Num(I.rb)
  BY <1>1, <1>2, <1>3, LeftIsInfinite DEF set_strictly_contains
<1> QED
  BY <1>5, <1>6, <1>7, <1>8, <1>9, <1>10, <1>11, <1>12

(* The relations of two intervals that are not empty.                       *)
LEMMA RelationsOfNonEmpty ==
  ASSUME NEW I \in NonEmpty, NEW J \in NonEmpty
  PROVE  RelationsAre(I, J)
<1> DEFINE S == Samples(I)
           T == Samples(J)
           differences == Apart(S, T)
           common == {x \in S \union T : In(x, I) /\ In(x, J)}
           above == AboveZero(differences)
           below == BelowZero(differences)
<1>1. /\ Top(I) \in S /\ -Bottom(I) \in S
      /\ \A x \in S : x \in Int /\ -Bottom(I) <= x /\ x <= Top(I)
      /\ Top(J) \in T /\ -Bottom(J) \in T
      /\ \A x \in T : x \in Int /\ -Bottom(J) <= x /\ x <= Top(J)
      /\ Top(I) \in Int /\ Bottom(I) \in Int /\ Top(J) \in Int /\ Bottom(J) \in Int
  BY SamplesAre
<1>2. /\ (\A x \in T : In(x, I)) <=> Bottom(J) <= Bottom(I) /\ Top(J) <= Top(I)
      /\ (\A x \in S : In(x, J)) <=> Bottom(I) <= Bottom(J) /\ Top(I) <= Top(J)
  BY SamplesAreIn
<1>3. common # {} <=> -Bottom(I) <= Top(J) /\ -Bottom(J) <= Top(I)
  BY SharedSamplesAre
<1>4. (\A y \in T, u \in {-1, 1} : In(y + u, I)) <=>
       /\ I.lb = Infinity \/ Num(J.lb) < Num(I.lb)
       /\ I.rb = Infinity \/ Num(J.rb) < Num(I.rb)
  BY InnerSamplesAre
<1> DEFINE a == -Bottom(I)
           b == Top(I)
           c == -Bottom(J)
           e == Top(J)
<1>5. /\ a \in S /\ b \in S /\ c \in T /\ e \in T
      /\ a \in Int /\ b \in Int /\ c \in Int /\ e \in Int
      /\ S \subseteq Int /\ T \subseteq Int
      /\ \A x \in S : a <= x /\ x <= b
      /\ \A y \in T : c <= y /\ y <= e
  BY <1>1
<1>6. /\ e < a <=> Num(J.rb) + Num(I.lb) < 0
      /\ e <= a <=> Num(J.rb) + Num(I.lb) <= 0
      /\ b < c <=> Num(I.rb) + Num(J.lb) < 0
      /\ b <= c <=> Num(I.rb) + Num(J.lb) <= 0
      /\ c <= e /\ a <= b
      /\ a = b <=> Num(I.rb) + Num(I.lb) = 0
      /\ c = e <=> Num(J.rb) + Num(J.lb) = 0
      /\ c <= a <=> Num(I.lb) <= Num(J.lb)
      /\ a <= c <=> Num(J.lb) <= Num(I.lb)
      /\ e <= b <=> Num(J.rb) <= Num(I.rb)
      /\ b <= e <=> Num(I.rb) <= Num(J.rb)
  <2>1. /\ Num(I.lb) \in Int /\ Num(I.rb) \in Int /\ Num(J.lb) \in Int /\ Num(J.rb) \in Int
        /\ Num(I.lb) + Num(I.rb) >= 0 /\ Num(J.lb) + Num(J.rb) >= 0
    BY NonEmptyIs
  <2>2. \A K, L \in NonEmpty :
           /\ Top(K) + Bottom(L) < 0 <=> Num(K.rb) + Num(L.lb) < 0
           /\ Top(K) + Bottom(L) > 0 <=> Num(K.rb) + Num(L.lb) > 0
           /\ Top(K) <= Top(L) <=> Num(K.rb) <= Num(L.rb)
           /\ Bottom(K) <= Bottom(L) <=> Num(K.lb) <= Num(L.lb)
    BY ExtremesCompare
  <2> QED
    BY <1>1, <2>1, <2>2
<1>7. /\ (\A x \in T : In(x, I)) <=> a <= c /\ e <= b
      /\ (\A x \in S : In(x, J)) <=> c <= a /\ b <= e
      /\ common # {} <=> a <= e /\ c <= b
  BY <1>1, <1>2, <1>3
<1> HIDE DEF a, b, c, e, S, T
<1>8. /\ differences = above <=> e < a
      /\ below = {} <=> e <= a
      /\ differences = below <=> b < c
      /\ above = {} <=> b <= c
      /\ above # {} <=> c < b
      /\ differences # below <=> c <= b
      /\ below # {} <=> a < e
      /\ differences # above <=> a <= e
      /\ S = T /\ above \union below = {} <=> a = b /\ c = e /\ a = c
      /\ above \union below # {} <=> ~(b <= c /\ e <= a)
  <2>1. Extremes(S, a, b) /\ Extremes(T, c, e)
    BY <1>5 DEF Extremes
  <2> QED
    BY <2>1, DifferencesCompare
<1> HIDE DEF differences, above, below, common
<1> DEFINE p == Num(I.rb) + Num(J.lb)
           q == Num(J.rb) + Num(I.lb)
<1>9. /\ p \in Int /\ q \in Int
      /\ Num(I.lb) \in Int /\ Num(I.rb) \in Int /\ Num(J.lb) \in Int /\ Num(J.rb) \in Int
  BY NonEmptyIs
<1>10. /\ certainly_ge(I, J) <=> differences = above
       /\ certainly_geq(I, J) <=> below = {}
       /\ certainly_le(I, J) <=> differences = below
       /\ certainly_leq(I, J) <=> above = {}
  BY <1>6, <1>8, RelationsCompare
<1>11. /\ possibly_ge(I, J) <=> above # {}
       /\ possibly_geq(I, J) <=> differences # below
       /\ possibly_le(I, J) <=> below # {}
       /\ possibly_leq(I, J) <=> differences # above
       /\ possibly_eq(I, J) <=> common # {}
       /\ possibly_neq(I, J) <=> above \union below # {}
  BY <1>5, <1>6, <1>7, <1>8, <1>9, RelationsCompare
<1>12. certainly_eq(I, J) <=> S = T /\ above \union below = {}
  BY <1>5, <1>6, <1>8, <1>9, RelationsCompare
<1>13. common = {} /\ S # T => certainly_neq(I, J)
  BY <1>12 DEF certainly_neq
<1>14. /\ set_disjoint(I, J) <=> common = {}
       /\ set_contains(I, J) <=> \A x \in T : In(x, I)
       /\ set_leq(I, J) <=> \A x \in S : In(x, J)
       /\ set_eq(I, J) <=> (\A x \in S : In(x, J)) /\ (\A x \in T : In(x, I))
       /\ set_strictly_contains(I, J) <=> \A y \in T, u \in {-1, 1} : In(y + u, I)
  BY <1>4, <1>5, <1>6, <1>7, <1>9, RelationsCompare
<1> QED
  BY <1>10, <1>11, <1>12, <1>13, <1>14
  DEF RelationsAre, S, T, differences, common, above, below, Apart, AboveZero, BelowZero

(* The relations with an empty set.                                         *)
LEMMA RelationsOfEmpty ==
  ASSUME NEW I \in Intervals, NEW J \in Intervals, I = emptyset \/ J = emptyset
  PROVE  RelationsAre(I, J)
<1> DEFINE S == Samples(I)
           T == Samples(J)
           differences == Apart(S, T)
           common == {x \in S \union T : In(x, I) /\ In(x, J)}
           above == AboveZero(differences)
           below == BelowZero(differences)
<1>1. S = {} \/ T = {}
  BY EmptyHasNone
<1>2. differences = {} /\ above = {} /\ below = {}
  BY <1>1 DEF Apart, AboveZero, BelowZero
<1>3. common = {}
  BY EmptyHasNone
<1>4. /\ S = {} <=> I = emptyset
      /\ T = {} <=> J = emptyset
      /\ is_empty(I) <=> I = emptyset
      /\ is_empty(J) <=> J = emptyset
      /\ I = emptyset => left(I) = NaN /\ right(I) = NaN
      /\ J = emptyset => left(J) = NaN /\ right(J) = NaN
  BY EmptyHasNone, EmptySetIs DEF Intervals
<1>5. Vacuous(I, J)
  BY <1>4 DEF Vacuous
<1>6. /\ (\A x \in T : In(x, I)) <=> J = emptyset
      /\ (\A x \in S : In(x, J)) <=> I = emptyset
  BY <1>4, EmptyHasNone
<1>7. (\A y \in T, u \in {-1, 1} : In(y + u, I)) <=> J = emptyset
  <2>1. J # emptyset => I = emptyset /\ T # {}
    BY <1>4
  <2>2. ASSUME J # emptyset, \A y \in T, u \in {-1, 1} : In(y + u, I) PROVE FALSE
    <3>1. PICK y \in T : TRUE
      BY <2>1, <2>2
    <3>2. In(y + 1, I)
      BY <2>2
    <3> QED
      BY <2>1, <2>2, <3>2, EmptyHasNone
  <2>3. J = emptyset => T = {}
    BY <1>4
  <2> HIDE DEF T
  <2> QED
    BY <2>2, <2>3
<1> HIDE DEF S, T
<1>8. /\ certainly_ge(I, J) /\ certainly_geq(I, J) /\ certainly_le(I, J) /\ certainly_leq(I, J)
      /\ set_disjoint(I, J)
  BY <1>5 DEF certainly_ge, certainly_geq, certainly_le, certainly_leq, set_disjoint
<1>9. /\ ~possibly_ge(I, J) /\ ~possibly_geq(I, J) /\ ~possibly_le(I, J) /\ ~possibly_leq(I, J)
      /\ ~possibly_eq(I, J) /\ ~possibly_neq(I, J)
  BY <1>4, <1>5 DEF possibly_ge, possibly_geq, possibly_le, possibly_leq, possibly_eq,
                    possibly_neq, Lt, Leq
<1>10. /\ certainly_eq(I, J) <=> I = emptyset /\ J = emptyset
       /\ set_eq(I, J) <=> I = emptyset /\ J = emptyset
       /\ set_contains(I, J) <=> J = emptyset
       /\ set_leq(I, J) <=> I = emptyset
       /\ set_strictly_contains(I, J) <=> J = emptyset
  BY <1>4 DEF certainly_eq, set_eq, set_contains, set_leq, set_strictly_contains, Eq, Leq
<1>11. S = T <=> I = emptyset /\ J = emptyset
  BY <1>1, <1>4
<1> HIDE DEF differences, common, above, below
<1>12. above \union below = {}
  BY <1>2
<1>13. common = {} /\ S # T => certainly_neq(I, J)
  BY <1>10, <1>11 DEF certainly_neq
<1>14. /\ certainly_ge(I, J) <=> differences = above
       /\ certainly_geq(I, J) <=> below = {}
       /\ certainly_le(I, J) <=> differences = below
       /\ certainly_leq(I, J) <=> above = {}
       /\ possibly_ge(I, J) <=> above # {}
       /\ possibly_geq(I, J) <=> differences # below
       /\ possibly_le(I, J) <=> below # {}
       /\ possibly_leq(I, J) <=> differences # above
       /\ certainly_eq(I, J) <=> S = T /\ above \union below = {}
       /\ possibly_eq(I, J) <=> common # {}
       /\ possibly_neq(I, J) <=> above \union below # {}
  BY <1>2, <1>3, <1>8, <1>9, <1>10, <1>11, <1>12
<1>15. /\ set_disjoint(I, J) <=> common = {}
       /\ set_contains(I, J) <=> \A x \in T : In(x, I)
       /\ set_leq(I, J) <=> \A x \in S : In(x, J)
       /\ set_eq(I, J) <=> (\A x \in S : In(x, J)) /\ (\A x \in T : In(x, I))
       /\ set_strictly_contains(I, J) <=> \A y \in T, u \in {-1, 1} : In(y + u, I)
  BY <1>3, <1>6, <1>7, <1>8, <1>10
<1> QED
  BY <1>13, <1>14, <1>15
  DEF RelationsAre, S, T, differences, common, above, below, Apart, AboveZero, BelowZero

(* The relations of two intervals that a program comes to.                   *)
LEMMA RelationsOfKept ==
  ASSUME Kept
  PROVE  RelationsHold
<1>1. ASSUME NEW I \in Intervals, NEW J \in Intervals PROVE RelationsAre(I, J)
  BY RelationsOfNonEmpty, RelationsOfEmpty DEF Intervals
<1>2. X \in Intervals /\ Y \in Intervals
  BY DEF Kept, X, Y, Names
<1> QED
  BY <1>1, <1>2 DEF RelationsHold

-----------------------------------------------------------------------------
(* The ceiling of a set of rationals is that least value.                   *)
LEMMA CeilingIs ==
  ASSUME NEW Q, NEW r, IsCeiling(r, Bounding(Q))
  PROVE  Ceiling(Q) = Num(r)
<1> DEFINE U == Bounding(Q)
<1>1. Ceiling(Q) = IF U = {} THEN Oo ELSE Min(U)
  BY DEF Ceiling, Bounding
<1>2. \A w \in U : w \in Int
  BY FiniteNumsRange DEF Bounding
<1>3. IsCeiling(r, U)
  OBVIOUS
<1> HIDE DEF U
<1>4. CASE U = {}
  <2>1. Num(Infinity) = Oo
    BY DEF Infinity, Num
  <2> QED
    BY <1>1, <1>3, <1>4, <2>1 DEF IsCeiling
<1>5. CASE U # {}
  <2>1. Num(r) \in U /\ \A w \in U : Num(r) <= w
    BY <1>3, <1>5 DEF IsCeiling
  <2>2. Min(U) = CHOOSE x \in U : \A y \in U : x <= y
    BY DEF Min
  <2>3. \A x \in U : (\A y \in U : x <= y) => x = Num(r)
    BY <1>2, <2>1
  <2>4. Min(U) = Num(r)
    BY <2>1, <2>2, <2>3
  <2> QED
    BY <1>1, <1>5, <2>4
<1> QED
  BY <1>4, <1>5

(* A sum of ends rounded upward is the ceiling of the sum of what they       *)
(* stand for, an infinity for a real beyond all the doubles.                 *)
LEMMA SumIsCeiling ==
  ASSUME NEW x \in Ends, NEW y \in Ends
  PROVE  IsCeiling(AddUp(x, y), From(Reach(x) + Reach(y), 1))
<1>1. /\ x # NaN /\ y # NaN /\ Num(x) \in Int /\ Num(y) \in Int
      /\ IsInf(x) <=> x = Infinity
      /\ IsInf(y) <=> y = Infinity
  BY EndsAre
<1>2. CASE IsInf(x) \/ IsInf(y)
  <2>1. AddUp(x, y) = Infinity
    BY <1>1, <1>2 DEF AddUp
  <2>2. Reach(x) + Reach(y) > Largest
    BY <1>1, <1>2, ReachIs, ConstantsAre
  <2>3. From(Reach(x) + Reach(y), 1) = {}
    <3>1. Reach(x) + Reach(y) \in Int
      BY ReachIs
    <3>2. \A w \in FiniteNums : w \in Int /\ w <= Largest /\ w * 1 = w
      BY FiniteNumsRange
    <3> QED
      BY <2>2, <3>1, <3>2, ConstantsAre DEF From
  <2> QED
    BY <2>1, <2>3 DEF IsCeiling
<1>3. CASE ~IsInf(x) /\ ~IsInf(y)
  <2> DEFINE neg == x = Zero(TRUE) /\ y = Zero(TRUE)
  <2>1. neg \in BOOLEAN
    OBVIOUS
  <2>2. AddUp(x, y) = RoundUp(Num(x) + Num(y), 1, neg)
    BY <1>1, <1>3 DEF AddUp
  <2> HIDE DEF neg
  <2>3. Num(x) + Num(y) \in Int /\ Num(x) + Num(y) = Reach(x) + Reach(y)
    BY <1>1, <1>3, ReachIs
  <2> QED
    BY <2>1, <2>2, <2>3, RoundUpIsCeiling
<1> QED
  BY <1>2, <1>3

(* The reals of an interval that is not empty have extremes.                *)
LEMMA SamplesHaveExtremes ==
  ASSUME NEW I \in NonEmpty
  PROVE  Extremes(Samples(I), -Bottom(I), Top(I)) /\ Top(I) \in Int /\ Bottom(I) \in Int
  BY SamplesAre DEF Extremes

(* What is below a sum of ends, counted in samples, is below it in doubles.  *)
LEMMA FromOfSamples ==
  ASSUME NEW r \in Int
  PROVE  From(r * Fine, Fine) = From(r, 1)
<1>1. Fine \in Nat /\ Fine >= 1
  BY ConstantsAre
<1>2. ASSUME NEW v \in Int PROVE r * Fine <= v * Fine <=> r <= v * 1
  BY <1>1, ProductsCompare
<1>3. \A v \in FiniteNums : r * Fine <= v * Fine <=> r <= v * 1
  BY <1>2, FiniteNumsRange
<1> QED
  BY <1>3 DEF From

(* The hull of a set of rationals that has some, from its bounding doubles.  *)
LEMMA HullIs ==
  ASSUME NEW Q, Q # {}, NEW lb, NEW rb,
         IsCeiling(lb, Bounding(Opposites(Q))), IsCeiling(rb, Bounding(Q))
  PROVE  Hull(Q) = <<Num(lb), Num(rb)>>
<1>1. Ceiling(Opposites(Q)) = Num(lb) /\ Ceiling(Q) = Num(rb)
  BY CeilingIs
<1> QED
  BY <1>1 DEF Hull, Opposites

(* The doubles that bound the sums, and those that bound their opposites.     *)
LEMMA SumsAreBounded ==
  ASSUME NEW I \in NonEmpty, NEW J \in NonEmpty
  PROVE  /\ Bounding(Sums(I, J)) = From(Reach(I.rb) + Reach(J.rb), 1)
         /\ Bounding(Opposites(Sums(I, J))) = From(Reach(I.lb) + Reach(J.lb), 1)
         /\ Bounding(Differences(I, J)) = From(Reach(I.rb) + Reach(J.lb), 1)
         /\ Bounding(Opposites(Differences(I, J))) = From(Reach(I.lb) + Reach(J.rb), 1)
         /\ Sums(I, J) # {} /\ Differences(I, J) # {}
<1> DEFINE S == Samples(I)
           T == Samples(J)
           a == -Bottom(I)
           b == Top(I)
           c == -Bottom(J)
           e == Top(J)
<1>1. Extremes(S, a, b) /\ Extremes(T, c, e)
  BY SamplesHaveExtremes
<1>2. /\ Reach(I.lb) \in Int /\ Reach(I.rb) \in Int /\ Reach(J.lb) \in Int /\ Reach(J.rb) \in Int
      /\ Fine \in Nat /\ Fine >= 1
  BY NonEmptyIs, ReachIs, ConstantsAre
<1>3. /\ b + e = (Reach(I.rb) + Reach(J.rb)) * Fine
      /\ -(a + c) = (Reach(I.lb) + Reach(J.lb)) * Fine
      /\ b - c = (Reach(I.rb) + Reach(J.lb)) * Fine
      /\ -(a - e) = (Reach(I.lb) + Reach(J.rb)) * Fine
  BY <1>2 DEF Top, Bottom
<1>4. Sums(I, J) = Over(Total(S, T), Fine) /\ Differences(I, J) = Over(Apart(S, T), Fine)
  <2>1. /\ \A q : q \in Sums(I, J) <=> q \in Over(Total(S, T), Fine)
        /\ \A q : q \in Differences(I, J) <=> q \in Over(Apart(S, T), Fine)
    BY DEF Sums, Differences, Over, Total, Apart
  <2> QED
    BY <2>1
<1> HIDE DEF S, T, a, b, c, e
<1>5. Extremes(Total(S, T), a + c, b + e) /\ Extremes(Apart(S, T), a - e, b - c)
  BY <1>1, SumsHaveExtremes
<1>6. /\ Bounding(Sums(I, J)) = From(b + e, Fine)
      /\ Bounding(Opposites(Sums(I, J))) = From(-(a + c), Fine)
      /\ Bounding(Differences(I, J)) = From(b - c, Fine)
      /\ Bounding(Opposites(Differences(I, J))) = From(-(a - e), Fine)
      /\ Sums(I, J) # {} /\ Differences(I, J) # {}
  BY <1>2, <1>4, <1>5, FractionsAreBounded
<1>7. /\ Reach(I.rb) + Reach(J.rb) \in Int /\ Reach(I.lb) + Reach(J.lb) \in Int
      /\ Reach(I.rb) + Reach(J.lb) \in Int /\ Reach(I.lb) + Reach(J.rb) \in Int
  BY <1>2
<1> QED
  BY <1>3, <1>6, <1>7, FromOfSamples

(* The values of the bounds of two ends, and of the empty set.                *)
LEMMA ValueIs ==
  /\ \A lb, rb \in Ends : Bounds(lb, rb) \in NonEmpty => Value(Bounds(lb, rb)) = <<Num(lb), Num(rb)>>
  /\ Value(emptyset) = << >>
  /\ Hull({}) = << >>
<1>1. ASSUME NEW lb \in Ends, NEW rb \in Ends, Bounds(lb, rb) \in NonEmpty
      PROVE  Value(Bounds(lb, rb)) = <<Num(lb), Num(rb)>>
  <2>1. Bounds(lb, rb).lb = lb /\ Bounds(lb, rb).rb = rb
    BY DEF Bounds
  <2> QED
    BY <1>1, <2>1, NonEmptyIs DEF Value
<1> QED
  BY <1>1, EmptySetIs DEF Value, Hull

(* operator+= and operator-= give the hull.                                   *)
LEMMA SumIsHull ==
  ASSUME NEW I \in Intervals, NEW J \in Intervals, NEW same, same => Sse
  PROVE  /\ Value(Plus(I, J, same)) = Hull(Sums(I, J))
         /\ Value(Difference(I, J, same)) = Hull(Differences(I, J))
<1>1. /\ Plus(I, J, same) = Bounds(AddUp(I.lb, J.lb), AddUp(I.rb, J.rb))
      /\ Difference(I, J, same) = Bounds(AddUp(I.lb, J.rb), AddUp(I.rb, J.lb))
  BY DEF Plus, Difference
<1>2. CASE I = emptyset \/ J = emptyset
  <2>1. /\ AddUp(I.lb, J.lb) = NaN /\ AddUp(I.rb, J.rb) = NaN
        /\ AddUp(I.lb, J.rb) = NaN /\ AddUp(I.rb, J.lb) = NaN
    BY <1>2, EmptySetIs, SumOfNaN
  <2>2. Plus(I, J, same) = emptyset /\ Difference(I, J, same) = emptyset
    BY <1>1, <2>1 DEF emptyset
  <2>3. Sums(I, J) = {} /\ Differences(I, J) = {}
    BY <1>2, EmptyHasNone DEF Sums, Differences
  <2> QED
    BY <2>2, <2>3, ValueIs
<1>3. CASE I \in NonEmpty /\ J \in NonEmpty
  <2>1. /\ I.lb \in Ends /\ I.rb \in Ends /\ J.lb \in Ends /\ J.rb \in Ends
        /\ Num(I.lb) \in Int /\ Num(I.rb) \in Int /\ Num(J.lb) \in Int /\ Num(J.rb) \in Int
        /\ Num(I.lb) + Num(I.rb) >= 0 /\ Num(J.lb) + Num(J.rb) >= 0
    BY <1>3, NonEmptyIs
  <2>2. /\ (Num(I.lb) + Num(J.lb)) + (Num(I.rb) + Num(J.rb)) >= 0
        /\ (Num(I.lb) + Num(J.rb)) + (Num(I.rb) + Num(J.lb)) >= 0
    BY <2>1
  <2>3. /\ Bounds(AddUp(I.lb, J.lb), AddUp(I.rb, J.rb)) \in NonEmpty
        /\ Bounds(AddUp(I.lb, J.rb), AddUp(I.rb, J.lb)) \in NonEmpty
    BY <2>1, <2>2, SumsArePair
  <2>4. /\ AddUp(I.lb, J.lb) \in Ends /\ AddUp(I.rb, J.rb) \in Ends
        /\ AddUp(I.lb, J.rb) \in Ends /\ AddUp(I.rb, J.lb) \in Ends
    BY <2>1, SumIsUpper
  <2>5. /\ IsCeiling(AddUp(I.lb, J.lb), Bounding(Opposites(Sums(I, J))))
        /\ IsCeiling(AddUp(I.rb, J.rb), Bounding(Sums(I, J)))
        /\ IsCeiling(AddUp(I.lb, J.rb), Bounding(Opposites(Differences(I, J))))
        /\ IsCeiling(AddUp(I.rb, J.lb), Bounding(Differences(I, J)))
    BY <1>3, <2>1, SumIsCeiling, SumsAreBounded
  <2>6. /\ Hull(Sums(I, J)) = <<Num(AddUp(I.lb, J.lb)), Num(AddUp(I.rb, J.rb))>>
        /\ Hull(Differences(I, J)) = <<Num(AddUp(I.lb, J.rb)), Num(AddUp(I.rb, J.lb))>>
    BY <1>3, <2>5, SumsAreBounded, HullIs
  <2> QED
    BY <1>1, <2>3, <2>4, <2>6, ValueIs
<1> QED
  BY <1>2, <1>3 DEF Intervals

(* The sums and differences of what a program comes to.                      *)
LEMMA SumsOfKept ==
  ASSUME ~Aliased, Kept
  PROVE  SumsAreHulls
<1>1. X \in Intervals /\ Y \in Intervals
  BY DEF Kept, X, Y, Names
<1>2. SameAllowed => Sse
  BY DEF SameAllowed
<1> DEFINE no == FALSE
           yes == TRUE
<1>3. /\ Value(Plus(X, Y, no)) = Hull(Sums(X, Y))
      /\ Value(Difference(X, Y, no)) = Hull(Differences(X, Y))
  <2> ~no
    OBVIOUS
  <2> HIDE DEF no
  <2> QED
    BY <1>1, SumIsHull
<1>4. Sse => /\ Value(Plus(X, X, yes)) = Hull(Sums(X, X))
             /\ Value(Difference(X, X, yes)) = Hull(Differences(X, X))
  <2> HIDE DEF yes
  <2> QED
    BY <1>1, SumIsHull
<1> QED
  BY <1>2, <1>3, <1>4 DEF SumsAreHulls

-----------------------------------------------------------------------------
(* A product rounded upward is the ceiling of the product of what its         *)
(* operands stand for; 0 times an infinity, which gives a NaN, is 0.           *)
LEMMA ProductIsCeiling ==
  ASSUME NEW x \in Ends, NEW y \in Ends, IsInf(x) \/ IsInf(y) => Agree(x, y)
  PROVE  IsCeiling(NaNToZero(MulUp(x, y)), From(Reach(x) * Reach(y), One))
<1> DEFINE p == Reach(x) * Reach(y)
<1>1. /\ x # NaN /\ y # NaN /\ Num(x) \in Int /\ Num(y) \in Int /\ x \in Doubles /\ y \in Doubles
      /\ IsInf(x) <=> x = Infinity
      /\ IsInf(y) <=> y = Infinity
      /\ IsZero(x) <=> Num(x) = 0
      /\ IsZero(y) <=> Num(y) = 0
      /\ One \in Nat /\ One >= 1 /\ Largest \in Nat
  BY EndsAre, FiniteOrInfinite, LargestMagnitude
<1>2. /\ Reach(x) \in Int /\ Reach(y) \in Int /\ p \in Int
      /\ x # Infinity => Reach(x) = Num(x)
      /\ y # Infinity => Reach(y) = Num(y)
      /\ x = Infinity => Reach(x) = Beyond /\ Num(x) > 0
      /\ y = Infinity => Reach(y) = Beyond /\ Num(y) > 0
      /\ Beyond \in Nat
  BY ReachIs, EndsAre, ConstantsAre
<1>3. \A v \in FiniteNums : v \in Int /\ v <= Largest
  BY FiniteNumsRange
<1>4. CASE (IsInf(x) /\ IsZero(y)) \/ (IsZero(x) /\ IsInf(y))
  <2>1. NaNToZero(MulUp(x, y)) = Zero(FALSE)
    BY <1>4 DEF MulUp, NaNToZero
  <2>2. Num(Zero(FALSE)) = 0
    BY DEF Num, Zero
  <2>3. p = 0
    BY <1>1, <1>2, <1>4
  <2>4. 0 \in FiniteNums
    BY MagnitudesAssumption DEF FiniteNums
  <2> HIDE DEF p
  <2>5. \A v \in FiniteNums : p <= v * One <=> 0 <= v
    <3>1. \A v \in Int : 0 <= v <=> 0 * One <= v * One
      BY <1>1, ProductsCompare
    <3>2. 0 * One = 0
      BY <1>1
    <3> QED
      BY <1>3, <2>3, <3>1, <3>2
  <2>6. 0 \in From(p, One) /\ \A w \in From(p, One) : 0 <= w
    BY <2>4, <2>5 DEF From
  <2> QED
    BY <2>1, <2>2, <2>6 DEF IsCeiling, p
<1>5. CASE (IsInf(x) \/ IsInf(y)) /\ ~((IsInf(x) /\ IsZero(y)) \/ (IsZero(x) /\ IsInf(y)))
  <2>1. Num(x) > 0 /\ Num(y) > 0
    BY <1>1, <1>2, <1>5 DEF Agree
  <2>2. x.neg = FALSE /\ y.neg = FALSE
    BY <1>1, <2>1, SignIs, NumOfMagnitude
  <2>3. MulUp(x, y) = Infinity
    BY <1>1, <1>5, <2>2 DEF MulUp, Infinity
  <2>4. NaNToZero(MulUp(x, y)) = Infinity
    BY <2>3, EndsAre DEF NaNToZero
  <2>5. p >= Beyond
    <3>1. Reach(x) >= 1 /\ Reach(y) >= 1
      BY <1>1, <1>2, <2>1, ReachIs
    <3>2. Reach(x) \in Nat /\ Reach(y) \in Nat /\ (Reach(x) = Beyond \/ Reach(y) = Beyond)
      BY <1>1, <1>2, <1>5, <3>1
    <3>3. Beyond * 1 <= p
      <4>1. Reach(x) = Beyond => Beyond * 1 <= p
        BY <1>2, <3>1, <3>2, ProductsGrow
      <4>2. Reach(y) = Beyond => 1 * Beyond <= p
        BY <1>2, <3>1, <3>2, ProductsGrow
      <4> QED
        BY <1>2, <3>2, <4>1, <4>2
    <3> QED
      BY <1>2, <3>3
  <2>6. \A v \in FiniteNums : v * One < Beyond
    <3>1. Beyond > Largest * Largest * One
      BY FineAssumption
    <3>2. Largest * One <= Largest * Largest * One
      <4>1. Largest * 1 <= Largest * Largest /\ Largest * 1 = Largest /\ Largest * Largest \in Nat
        BY <1>1, ConstantsAre, ProductsGrow
      <4> QED
        BY <1>1, <4>1, ProductsGrow
    <3>3. ASSUME NEW v \in FiniteNums PROVE v * One <= Largest * One
      BY <1>1, <1>3, ProductsCompare
    <3>4. /\ \A v \in FiniteNums : v * One \in Int
          /\ Largest * One \in Int /\ Largest * Largest * One \in Int
      BY <1>1, <1>3
    <3> QED
      BY <1>2, <3>1, <3>2, <3>3, <3>4
  <2> HIDE DEF p
  <2>7. From(p, One) = {}
    <3>1. \A v \in FiniteNums : v * One \in Int
      BY <1>1, <1>3
    <3> QED
      BY <1>2, <2>5, <2>6, <3>1 DEF From
  <2> QED
    BY <2>4, <2>7 DEF IsCeiling, p
<1>6. CASE ~IsInf(x) /\ ~IsInf(y)
  <2> DEFINE neg == x.neg # y.neg
  <2>1. MulUp(x, y) = RoundUp(Num(x) * Num(y), One, neg)
    BY <1>1, <1>6 DEF MulUp
  <2>2. neg \in BOOLEAN /\ Num(x) * Num(y) \in Int /\ p = Num(x) * Num(y)
    BY <1>1, <1>2, <1>6
  <2> HIDE DEF neg
  <2>3. NaNToZero(MulUp(x, y)) = MulUp(x, y)
    BY <1>6, ProductIsUpper, <1>1 DEF IsInf
  <2>4. IsCeiling(RoundUp(Num(x) * Num(y), One, neg), From(Num(x) * Num(y), One))
    BY <1>1, <2>2, RoundUpIsCeiling
  <2> QED
    BY <2>1, <2>2, <2>3, <2>4
<1> QED
  BY <1>4, <1>5, <1>6

(* What is below a product of ends, counted in samples, is so in doubles.     *)
LEMMA FromOfProducts ==
  ASSUME NEW r \in Int
  PROVE  From(r * (Fine * Fine), Fine * Fine * One) = From(r, One)
<1> DEFINE f == Fine * Fine
<1>1. f \in Nat /\ f >= 1 /\ One \in Nat
  <2>1. Fine \in Nat /\ Fine >= 1 /\ One \in Nat
    BY ConstantsAre, LargestMagnitude
  <2>2. 1 * 1 <= f
    BY <2>1, ProductsGrow
  <2> QED
    BY <2>1, <2>2
<1> HIDE DEF f
<1>2. ASSUME NEW v \in Int PROVE r * f <= v * (f * One) <=> r <= v * One
  <2> DEFINE k == v * One
  <2>1. k \in Int /\ v * (f * One) = k * f
    BY <1>1
  <2> HIDE DEF k
  <2>2. r <= k <=> r * f <= k * f
    BY <1>1, <2>1, ProductsCompare
  <2> QED
    BY <2>1, <2>2 DEF k
<1>3. \A v : v \in From(r * f, f * One) <=> v \in From(r, One)
  BY <1>2, FiniteNumsRange DEF From
<1> QED
  BY <1>3 DEF f

(* The hull of products of which the extremes are known.                      *)
LEMMA OverHull ==
  ASSUME NEW M, NEW lb, NEW rb, NEW p \in Int, NEW q \in Int,
         IsCeiling(lb, From(p, One)), IsCeiling(rb, From(q, One)),
         Extremes(M, -(p * (Fine * Fine)), q * (Fine * Fine))
  PROVE  Hull(Over(M, Fine * Fine * One)) = <<Num(lb), Num(rb)>>
<1> DEFINE lo == -(p * (Fine * Fine))
           hi == q * (Fine * Fine)
           d == Fine * Fine * One
<1>1. d \in Nat /\ d >= 1 /\ p * (Fine * Fine) \in Int
  <2>1. Fine \in Nat /\ Fine >= 1 /\ One \in Nat /\ One >= 1
    BY ConstantsAre, LargestMagnitude
  <2>2. 1 * 1 <= Fine * Fine /\ Fine * Fine \in Nat
    BY <2>1, ProductsGrow
  <2>3. 1 * 1 <= (Fine * Fine) * One
    BY <2>1, <2>2, ProductsGrow
  <2> QED
    BY <2>1, <2>2, <2>3
<1>2. Extremes(M, lo, hi)
  OBVIOUS
<1>3. -lo = p * (Fine * Fine)
  BY <1>1
<1> HIDE DEF lo, hi, d
<1>4. /\ Bounding(Over(M, d)) = From(hi, d)
      /\ Bounding(Opposites(Over(M, d))) = From(-lo, d)
      /\ Over(M, d) # {}
  BY <1>1, <1>2, FractionsAreBounded
<1>5. From(hi, d) = From(q, One) /\ From(-lo, d) = From(p, One)
  BY <1>3, FromOfProducts DEF hi, d
<1>6. /\ IsCeiling(lb, Bounding(Opposites(Over(M, d))))
      /\ IsCeiling(rb, Bounding(Over(M, d)))
  BY <1>4, <1>5
<1> QED
  BY <1>4, <1>6, HullIs DEF d

(* The products of the reals of two intervals, and the squares of those of    *)
(* one, in fractions.                                                        *)
LEMMA ProductsAreFractions ==
  ASSUME NEW I, NEW J
  PROVE  /\ RealProducts(I, J) = Over(Multiples(Samples(I), Samples(J)), Fine * Fine * One)
         /\ Squares(I) = Over({x * x : x \in Samples(I)}, Fine * Fine * One)
<1>1. \A r : r \in RealProducts(I, J)
                <=> r \in Over(Multiples(Samples(I), Samples(J)), Fine * Fine * One)
  BY DEF RealProducts, Over, Multiples
<1>2. \A r : r \in Squares(I) <=> r \in Over({x * x : x \in Samples(I)}, Fine * Fine * One)
  BY DEF Squares, Over
<1> QED
  BY <1>1, <1>2

(* The extremes of the samples of two intervals, multiplied, in units; and    *)
(* their signs.                                                              *)
LEMMA ExtremesMultiply ==
  ASSUME NEW I \in NonEmpty, NEW J \in NonEmpty
  PROVE  LET f == Fine * Fine
             a == Reach(I.lb)  b == Reach(I.rb)  c == Reach(J.lb)  e == Reach(J.rb)
         IN /\ f \in Nat /\ f >= 1 /\ a \in Int /\ b \in Int /\ c \in Int /\ e \in Int
            /\ (-Bottom(I)) * (-Bottom(J)) = (a * c) * f
            /\ (-Bottom(I)) * Top(J) = -((a * e) * f)
            /\ Top(I) * (-Bottom(J)) = -((b * c) * f)
            /\ Top(I) * Top(J) = (b * e) * f
<1> DEFINE a == Reach(I.lb)
           b == Reach(I.rb)
           c == Reach(J.lb)
           e == Reach(J.rb)
<1>1. a \in Int /\ b \in Int /\ c \in Int /\ e \in Int
  BY NonEmptyIs, ReachIs
<1>2. Fine \in Nat /\ Fine >= 1
  BY ConstantsAre
<1>3. Bottom(I) = a * Fine /\ Top(I) = b * Fine /\ Bottom(J) = c * Fine /\ Top(J) = e * Fine
  BY DEF Bottom, Top
<1> HIDE DEF a, b, c, e
<1>4. Fine * Fine \in Nat /\ Fine * Fine >= 1
  <2>1. 1 * 1 <= Fine * Fine
    BY <1>2, ProductsGrow
  <2> QED
    BY <1>2, <2>1
<1>5. \A u, v \in Int : /\ (-(u * Fine)) * (-(v * Fine)) = (u * v) * (Fine * Fine)
                        /\ (-(u * Fine)) * (v * Fine) = -((u * v) * (Fine * Fine))
                        /\ (u * Fine) * (-(v * Fine)) = -((u * v) * (Fine * Fine))
                        /\ (u * Fine) * (v * Fine) = (u * v) * (Fine * Fine)
  BY <1>2
<1> DEFINE f == Fine * Fine
           lowI == -Bottom(I)
           lowJ == -Bottom(J)
<1>6. /\ lowI * lowJ = (a * c) * f
      /\ lowI * Top(J) = -((a * e) * f)
      /\ Top(I) * lowJ = -((b * c) * f)
      /\ Top(I) * Top(J) = (b * e) * f
  <2>1. /\ lowI = -(a * Fine) /\ lowJ = -(c * Fine)
        /\ Top(I) = b * Fine /\ Top(J) = e * Fine
    BY <1>3
  <2> HIDE DEF lowI, lowJ
  <2> QED
    BY <1>1, <1>5, <2>1
<1>7. f \in Nat /\ f >= 1
  BY <1>4
<1>8. f = Fine * Fine
  OBVIOUS
<1> HIDE DEF f
<1> QED
  BY <1>1, <1>6, <1>7, <1>8 DEF a, b, c, e

(* The sides of an interval are those of its samples.                         *)
LEMMA SamplesAreOnSides ==
  ASSUME NEW I \in NonEmpty
  PROVE  /\ Num(I.lb) <= 0 => -Bottom(I) >= 0
         /\ Num(I.lb) >= 0 => -Bottom(I) <= 0
         /\ Num(I.rb) >= 0 => Top(I) >= 0
         /\ Num(I.rb) <= 0 => Top(I) <= 0
<1>1. I.lb \in Ends /\ I.rb \in Ends
  BY NonEmptyIs
<1>2. ASSUME NEW x \in Ends
      PROVE  /\ Reach(x) * Fine \in Int
             /\ Num(x) <= 0 => Reach(x) * Fine <= 0
             /\ Num(x) >= 0 => Reach(x) * Fine >= 0
  <2>1. /\ Reach(x) \in Int /\ Num(x) \in Int /\ Fine \in Nat
        /\ Num(x) <= 0 => Reach(x) <= 0
        /\ Num(x) >= 0 => Reach(x) >= 0
    BY ReachIs, EndsAre, ConstantsAre
  <2> QED
    BY <2>1, SignsMultiply
<1> QED
  BY <1>1, <1>2 DEF Top, Bottom

(* The products that operator*= takes on two sides are those of the hull.     *)
LEMMA SidesGiveHull ==
  ASSUME NEW I \in NonEmpty, NEW J \in NonEmpty, NEW s, NEW t, OnSide(s, I), OnSide(t, J)
  PROVE  Value(Products(<<s, t>>, I, J)) = Hull(RealProducts(I, J))
<1> DEFINE a == Reach(I.lb)
           b == Reach(I.rb)
           c == Reach(J.lb)
           e == Reach(J.rb)
           f == Fine * Fine
           M == Multiples(Samples(I), Samples(J))
           Mul(x, y) == NaNToZero(MulUp(x, y))
           lowI == -Bottom(I)
           topI == Top(I)
           lowJ == -Bottom(J)
           topJ == Top(J)
<1>1. /\ I.lb \in Ends /\ I.rb \in Ends /\ J.lb \in Ends /\ J.rb \in Ends
      /\ Num(I.lb) \in Int /\ Num(I.rb) \in Int /\ Num(J.lb) \in Int /\ Num(J.rb) \in Int
      /\ Num(I.lb) <= 0 => ~IsInf(I.lb)
      /\ Num(I.rb) <= 0 => ~IsInf(I.rb)
      /\ Num(J.lb) <= 0 => ~IsInf(J.lb)
      /\ Num(J.rb) <= 0 => ~IsInf(J.rb)
  BY NonEmptyIs
<1>2. ASSUME NEW x \in Ends, ~IsInf(x)
      PROVE  /\ Opposite(x) \in Ends /\ ~IsInf(Opposite(x))
             /\ Num(Opposite(x)) = -Num(x) /\ Reach(Opposite(x)) = -Reach(x)
  <2>1. /\ x \in Doubles /\ Opposite(x) \in Doubles /\ Num(Opposite(x)) = -Num(x)
        /\ ~IsInf(Opposite(x))
    BY <1>2, EndsAre, OppositeIsDouble DEF IsInf
  <2>2. Opposite(x) \in Ends /\ Opposite(x) # Infinity /\ x # Infinity
    BY <1>2, <2>1, EndsAre
  <2> QED
    BY <2>1, <2>2 DEF Reach
<1>3. /\ s = "P" \/ s = "M" \/ s = "N"
      /\ t = "P" \/ t = "M" \/ t = "N"
      /\ s = "P" => Num(I.lb) <= 0 /\ Num(I.rb) >= 0
      /\ s = "M" => Num(I.lb) >= 0 /\ Num(I.rb) >= 0
      /\ s = "N" => Num(I.lb) >= 0 /\ Num(I.rb) <= 0
      /\ t = "P" => Num(J.lb) <= 0 /\ Num(J.rb) >= 0
      /\ t = "M" => Num(J.lb) >= 0 /\ Num(J.rb) >= 0
      /\ t = "N" => Num(J.lb) >= 0 /\ Num(J.rb) <= 0
  BY DEF OnSide
<1>4. /\ s = "P" => lowI >= 0 /\ topI >= 0
      /\ s = "M" => lowI <= 0 /\ topI >= 0
      /\ s = "N" => lowI <= 0 /\ topI <= 0
      /\ t = "P" => lowJ >= 0 /\ topJ >= 0
      /\ t = "M" => lowJ <= 0 /\ topJ >= 0
      /\ t = "N" => lowJ <= 0 /\ topJ <= 0
  BY <1>3, SamplesAreOnSides
<1>5. /\ f \in Nat /\ f >= 1 /\ a \in Int /\ b \in Int /\ c \in Int /\ e \in Int
      /\ lowI * lowJ = (a * c) * f
      /\ lowI * topJ = -((a * e) * f)
      /\ topI * lowJ = -((b * c) * f)
      /\ topI * topJ = (b * e) * f
  BY ExtremesMultiply
<1>6. Extremes(Samples(I), lowI, topI) /\ Extremes(Samples(J), lowJ, topJ)
  BY SamplesHaveExtremes
<1>7. ASSUME NEW x \in Ends, NEW y \in Ends, NEW v \in Ends, NEW w \in Ends,
             IsInf(x) \/ IsInf(y) => Agree(x, y), IsInf(v) \/ IsInf(w) => Agree(v, w),
             Extremes(M, -((Reach(x) * Reach(y)) * f), (Reach(v) * Reach(w)) * f)
      PROVE  Hull(RealProducts(I, J)) = <<Num(Mul(x, y)), Num(Mul(v, w))>>
  <2>1. /\ IsCeiling(Mul(x, y), From(Reach(x) * Reach(y), One))
        /\ IsCeiling(Mul(v, w), From(Reach(v) * Reach(w), One))
    BY <1>7, ProductIsCeiling
  <2>2. Reach(x) * Reach(y) \in Int /\ Reach(v) * Reach(w) \in Int
    BY ReachIs
  <2> QED
    BY <1>7, <2>1, <2>2, OverHull, ProductsAreFractions DEF f, M
<1>8. /\ lowI >= 0 /\ lowJ >= 0 => Extremes(M, lowI * lowJ, topI * topJ)
      /\ lowI >= 0 /\ lowJ <= 0 /\ topJ >= 0 => Extremes(M, topI * lowJ, topI * topJ)
      /\ lowI >= 0 /\ topJ <= 0 => Extremes(M, topI * lowJ, lowI * topJ)
      /\ lowI <= 0 /\ topI >= 0 /\ lowJ >= 0 => Extremes(M, lowI * topJ, topI * topJ)
      /\ lowI <= 0 /\ topI >= 0 /\ lowJ <= 0 /\ topJ >= 0 =>
           Extremes(M, IF lowI * topJ <= topI * lowJ THEN lowI * topJ ELSE topI * lowJ,
                       IF lowI * lowJ <= topI * topJ THEN topI * topJ ELSE lowI * lowJ)
      /\ lowI <= 0 /\ topI >= 0 /\ topJ <= 0 => Extremes(M, topI * lowJ, lowI * lowJ)
      /\ topI <= 0 /\ lowJ >= 0 => Extremes(M, lowI * topJ, topI * lowJ)
      /\ topI <= 0 /\ lowJ <= 0 /\ topJ >= 0 => Extremes(M, lowI * topJ, lowI * lowJ)
      /\ topI <= 0 /\ topJ <= 0 => Extremes(M, topI * topJ, lowI * lowJ)
  BY <1>6, ProductsHaveExtremes
<1>9. Products(<<s, t>>, I, J) \in NonEmpty
  BY ProductsAreInterval
<1>10. \A K \in NonEmpty : Value(K) = <<Num(K.lb), Num(K.rb)>>
  BY NonEmptyIs DEF Value
<1>11. /\ \A x, y \in Int : /\ (x * (-y)) * f = -((x * y) * f)
                            /\ ((-x) * y) * f = -((x * y) * f)
                            /\ -((x * (-y)) * f) = (x * y) * f
       /\ \A x, y, v, w \in Int : (x * y) * f <= (v * w) * f <=> x * y <= v * w
       /\ \A x, y \in Int : x * y \in Int /\ (x * y) * f \in Int
  BY <1>5, ProductsCompare
<1> HIDE DEF a, b, c, e, f, M, lowI, topI, lowJ, topJ
<1>12. CASE s = "P" /\ t = "P"
  <2>1. Products(<<s, t>>, I, J) = Bounds(Mul(I.lb, Opposite(J.lb)), Mul(I.rb, J.rb))
    BY <1>12 DEF Products
  <2>2. /\ I.lb \in Ends /\ Opposite(J.lb) \in Ends /\ I.rb \in Ends /\ J.rb \in Ends
        /\ IsInf(I.lb) \/ IsInf(Opposite(J.lb)) => Agree(I.lb, Opposite(J.lb))
        /\ IsInf(I.rb) \/ IsInf(J.rb) => Agree(I.rb, J.rb)
    BY <1>1, <1>2, <1>3, <1>12 DEF Agree
  <2>3. Extremes(M, -((Reach(I.lb) * Reach(Opposite(J.lb))) * f), (Reach(I.rb) * Reach(J.rb)) * f)
    <3>1. Extremes(M, -((a * (-c)) * f), (b * e) * f)
      BY <1>3, <1>4, <1>5, <1>8, <1>11, <1>12
    <3>2. Reach(Opposite(J.lb)) = -Reach(J.lb)
      BY <1>1, <1>2, <1>3, <1>12
    <3> QED
      BY <3>1, <3>2 DEF a, b, c, e
  <2>4. Hull(RealProducts(I, J)) = <<Num(Mul(I.lb, Opposite(J.lb))), Num(Mul(I.rb, J.rb))>>
    BY <1>7, <2>2, <2>3
  <2> HIDE DEF Mul
  <2> QED
    BY <1>9, <1>10, <2>1, <2>4 DEF Bounds
<1>13. CASE s = "P" /\ t = "M"
  <2>1. Products(<<s, t>>, I, J) = Bounds(Mul(I.rb, J.lb), Mul(I.rb, J.rb))
    BY <1>13 DEF Products
  <2>2. /\ I.rb \in Ends /\ J.lb \in Ends /\ I.rb \in Ends /\ J.rb \in Ends
        /\ IsInf(I.rb) \/ IsInf(J.lb) => Agree(I.rb, J.lb)
        /\ IsInf(I.rb) \/ IsInf(J.rb) => Agree(I.rb, J.rb)
    BY <1>1, <1>2, <1>3, <1>13 DEF Agree
  <2>3. Extremes(M, -((Reach(I.rb) * Reach(J.lb)) * f), (Reach(I.rb) * Reach(J.rb)) * f)
    <3>1. Extremes(M, -((b * c) * f), (b * e) * f)
      BY <1>3, <1>4, <1>5, <1>8, <1>11, <1>13
    <3> QED
      BY <3>1 DEF a, b, c, e
  <2>4. Hull(RealProducts(I, J)) = <<Num(Mul(I.rb, J.lb)), Num(Mul(I.rb, J.rb))>>
    BY <1>7, <2>2, <2>3
  <2> HIDE DEF Mul
  <2> QED
    BY <1>9, <1>10, <2>1, <2>4 DEF Bounds
<1>14. CASE s = "P" /\ t = "N"
  <2>1. Products(<<s, t>>, I, J) = Bounds(Mul(I.rb, J.lb), Mul(Opposite(I.lb), J.rb))
    BY <1>14 DEF Products
  <2>2. /\ I.rb \in Ends /\ J.lb \in Ends /\ Opposite(I.lb) \in Ends /\ J.rb \in Ends
        /\ IsInf(I.rb) \/ IsInf(J.lb) => Agree(I.rb, J.lb)
        /\ IsInf(Opposite(I.lb)) \/ IsInf(J.rb) => Agree(Opposite(I.lb), J.rb)
    BY <1>1, <1>2, <1>3, <1>14 DEF Agree
  <2>3. Extremes(M, -((Reach(I.rb) * Reach(J.lb)) * f), (Reach(Opposite(I.lb)) * Reach(J.rb)) * f)
    <3>1. Extremes(M, -((b * c) * f), ((-a) * e) * f)
      BY <1>3, <1>4, <1>5, <1>8, <1>11, <1>14
    <3>2. Reach(Opposite(I.lb)) = -Reach(I.lb)
      BY <1>1, <1>2, <1>3, <1>14
    <3> QED
      BY <3>1, <3>2 DEF a, b, c, e
  <2>4. Hull(RealProducts(I, J)) = <<Num(Mul(I.rb, J.lb)), Num(Mul(Opposite(I.lb), J.rb))>>
    BY <1>7, <2>2, <2>3
  <2> HIDE DEF Mul
  <2> QED
    BY <1>9, <1>10, <2>1, <2>4 DEF Bounds
<1>15. CASE s = "M" /\ t = "P"
  <2>1. Products(<<s, t>>, I, J) = Bounds(Mul(I.lb, J.rb), Mul(I.rb, J.rb))
    BY <1>15 DEF Products
  <2>2. /\ I.lb \in Ends /\ J.rb \in Ends /\ I.rb \in Ends /\ J.rb \in Ends
        /\ IsInf(I.lb) \/ IsInf(J.rb) => Agree(I.lb, J.rb)
        /\ IsInf(I.rb) \/ IsInf(J.rb) => Agree(I.rb, J.rb)
    BY <1>1, <1>2, <1>3, <1>15 DEF Agree
  <2>3. Extremes(M, -((Reach(I.lb) * Reach(J.rb)) * f), (Reach(I.rb) * Reach(J.rb)) * f)
    <3>1. Extremes(M, -((a * e) * f), (b * e) * f)
      BY <1>3, <1>4, <1>5, <1>8, <1>11, <1>15
    <3> QED
      BY <3>1 DEF a, b, c, e
  <2>4. Hull(RealProducts(I, J)) = <<Num(Mul(I.lb, J.rb)), Num(Mul(I.rb, J.rb))>>
    BY <1>7, <2>2, <2>3
  <2> HIDE DEF Mul
  <2> QED
    BY <1>9, <1>10, <2>1, <2>4 DEF Bounds
<1>16. CASE s = "M" /\ t = "N"
  <2>1. Products(<<s, t>>, I, J) = Bounds(Mul(I.rb, J.lb), Mul(I.lb, J.lb))
    BY <1>16 DEF Products
  <2>2. /\ I.rb \in Ends /\ J.lb \in Ends /\ I.lb \in Ends /\ J.lb \in Ends
        /\ IsInf(I.rb) \/ IsInf(J.lb) => Agree(I.rb, J.lb)
        /\ IsInf(I.lb) \/ IsInf(J.lb) => Agree(I.lb, J.lb)
    BY <1>1, <1>2, <1>3, <1>16 DEF Agree
  <2>3. Extremes(M, -((Reach(I.rb) * Reach(J.lb)) * f), (Reach(I.lb) * Reach(J.lb)) * f)
    <3>1. Extremes(M, -((b * c) * f), (a * c) * f)
      BY <1>3, <1>4, <1>5, <1>8, <1>11, <1>16
    <3> QED
      BY <3>1 DEF a, b, c, e
  <2>4. Hull(RealProducts(I, J)) = <<Num(Mul(I.rb, J.lb)), Num(Mul(I.lb, J.lb))>>
    BY <1>7, <2>2, <2>3
  <2> HIDE DEF Mul
  <2> QED
    BY <1>9, <1>10, <2>1, <2>4 DEF Bounds
<1>17. CASE s = "N" /\ t = "P"
  <2>1. Products(<<s, t>>, I, J) = Bounds(Mul(I.lb, J.rb), Mul(I.rb, Opposite(J.lb)))
    BY <1>17 DEF Products
  <2>2. /\ I.lb \in Ends /\ J.rb \in Ends /\ I.rb \in Ends /\ Opposite(J.lb) \in Ends
        /\ IsInf(I.lb) \/ IsInf(J.rb) => Agree(I.lb, J.rb)
        /\ IsInf(I.rb) \/ IsInf(Opposite(J.lb)) => Agree(I.rb, Opposite(J.lb))
    BY <1>1, <1>2, <1>3, <1>17 DEF Agree
  <2>3. Extremes(M, -((Reach(I.lb) * Reach(J.rb)) * f), (Reach(I.rb) * Reach(Opposite(J.lb))) * f)
    <3>1. Extremes(M, -((a * e) * f), (b * (-c)) * f)
      BY <1>3, <1>4, <1>5, <1>8, <1>11, <1>17
    <3>2. Reach(Opposite(J.lb)) = -Reach(J.lb)
      BY <1>1, <1>2, <1>3, <1>17
    <3> QED
      BY <3>1, <3>2 DEF a, b, c, e
  <2>4. Hull(RealProducts(I, J)) = <<Num(Mul(I.lb, J.rb)), Num(Mul(I.rb, Opposite(J.lb)))>>
    BY <1>7, <2>2, <2>3
  <2> HIDE DEF Mul
  <2> QED
    BY <1>9, <1>10, <2>1, <2>4 DEF Bounds
<1>18. CASE s = "N" /\ t = "M"
  <2>1. Products(<<s, t>>, I, J) = Bounds(Mul(I.lb, J.rb), Mul(I.lb, J.lb))
    BY <1>18 DEF Products
  <2>2. /\ I.lb \in Ends /\ J.rb \in Ends /\ I.lb \in Ends /\ J.lb \in Ends
        /\ IsInf(I.lb) \/ IsInf(J.rb) => Agree(I.lb, J.rb)
        /\ IsInf(I.lb) \/ IsInf(J.lb) => Agree(I.lb, J.lb)
    BY <1>1, <1>2, <1>3, <1>18 DEF Agree
  <2>3. Extremes(M, -((Reach(I.lb) * Reach(J.rb)) * f), (Reach(I.lb) * Reach(J.lb)) * f)
    <3>1. Extremes(M, -((a * e) * f), (a * c) * f)
      BY <1>3, <1>4, <1>5, <1>8, <1>11, <1>18
    <3> QED
      BY <3>1 DEF a, b, c, e
  <2>4. Hull(RealProducts(I, J)) = <<Num(Mul(I.lb, J.rb)), Num(Mul(I.lb, J.lb))>>
    BY <1>7, <2>2, <2>3
  <2> HIDE DEF Mul
  <2> QED
    BY <1>9, <1>10, <2>1, <2>4 DEF Bounds
<1>19. CASE s = "N" /\ t = "N"
  <2>1. Products(<<s, t>>, I, J) = Bounds(Mul(I.rb, Opposite(J.rb)), Mul(I.lb, J.lb))
    BY <1>19 DEF Products
  <2>2. /\ I.rb \in Ends /\ Opposite(J.rb) \in Ends /\ I.lb \in Ends /\ J.lb \in Ends
        /\ IsInf(I.rb) \/ IsInf(Opposite(J.rb)) => Agree(I.rb, Opposite(J.rb))
        /\ IsInf(I.lb) \/ IsInf(J.lb) => Agree(I.lb, J.lb)
    BY <1>1, <1>2, <1>3, <1>19 DEF Agree
  <2>3. Extremes(M, -((Reach(I.rb) * Reach(Opposite(J.rb))) * f), (Reach(I.lb) * Reach(J.lb)) * f)
    <3>1. Extremes(M, -((b * (-e)) * f), (a * c) * f)
      BY <1>3, <1>4, <1>5, <1>8, <1>11, <1>19
    <3>2. Reach(Opposite(J.rb)) = -Reach(J.rb)
      BY <1>1, <1>2, <1>3, <1>19
    <3> QED
      BY <3>1, <3>2 DEF a, b, c, e
  <2>4. Hull(RealProducts(I, J)) = <<Num(Mul(I.rb, Opposite(J.rb))), Num(Mul(I.lb, J.lb))>>
    BY <1>7, <2>2, <2>3
  <2> HIDE DEF Mul
  <2> QED
    BY <1>9, <1>10, <2>1, <2>4 DEF Bounds
<1>20. CASE s = "M" /\ t = "M"
  <2> DEFINE p == a * e
             q == b * c
             u == a * c
             v == b * e
             lb == MaxPd(Mul(I.lb, J.rb), Mul(I.rb, J.lb))
             rb == MaxPd(Mul(I.lb, J.lb), Mul(I.rb, J.rb))
             low == IF p <= q THEN q ELSE p
             high == IF u <= v THEN v ELSE u
  <2>1. Products(<<s, t>>, I, J) = Bounds(lb, rb)
    BY <1>20 DEF Products
  <2>2. p \in Int /\ q \in Int /\ u \in Int /\ v \in Int
    BY <1>5
  <2>3. ASSUME NEW x \in Ends, NEW y \in Ends, Num(x) >= 0, Num(y) >= 0
        PROVE  Mul(x, y) \in Ends /\ IsCeiling(Mul(x, y), From(Reach(x) * Reach(y), One))
    <3>1. Agree(x, y) /\ x \in Doubles /\ y \in Doubles
      BY <2>3, EndsAre DEF Agree
    <3> QED
      BY <3>1, ProductIsUpper, ProductIsCeiling
  <2>4. /\ Mul(I.lb, J.rb) \in Ends /\ IsCeiling(Mul(I.lb, J.rb), From(p, One))
        /\ Mul(I.rb, J.lb) \in Ends /\ IsCeiling(Mul(I.rb, J.lb), From(q, One))
        /\ Mul(I.lb, J.lb) \in Ends /\ IsCeiling(Mul(I.lb, J.lb), From(u, One))
        /\ Mul(I.rb, J.rb) \in Ends /\ IsCeiling(Mul(I.rb, J.rb), From(v, One))
    BY <1>1, <1>3, <1>20, <2>3 DEF a, b, c, e
  <2> HIDE DEF Mul
  <2>5. IsCeiling(lb, From(low, One)) /\ IsCeiling(rb, From(high, One))
    BY <2>2, <2>4, MaxIsCeiling
  <2>6. Extremes(M, -(low * f), high * f)
    <3>1. Extremes(M, IF lowI * topJ <= topI * lowJ THEN lowI * topJ ELSE topI * lowJ,
                      IF lowI * lowJ <= topI * topJ THEN topI * topJ ELSE lowI * lowJ)
      BY <1>4, <1>8, <1>20
    <3>2. /\ p * f <= q * f <=> p <= q
          /\ u * f <= v * f <=> u <= v
          /\ p * f \in Int /\ q * f \in Int /\ u * f \in Int /\ v * f \in Int
      BY <1>5, <1>11
    <3>3. /\ lowI * topJ = -(p * f) /\ topI * lowJ = -(q * f)
          /\ lowI * lowJ = u * f /\ topI * topJ = v * f
      BY <1>5
    <3> HIDE DEF p, q, u, v
    <3>4. (IF lowI * topJ <= topI * lowJ THEN lowI * topJ ELSE topI * lowJ) = -(low * f)
      BY <2>2, <3>2, <3>3
    <3>5. (IF lowI * lowJ <= topI * topJ THEN topI * topJ ELSE lowI * lowJ) = high * f
      BY <2>2, <3>2, <3>3
    <3> QED
      BY <3>1, <3>4, <3>5
  <2>7. low \in Int /\ high \in Int
    BY <2>2
  <2> HIDE DEF lb, rb, low, high
  <2>8. Hull(RealProducts(I, J)) = <<Num(lb), Num(rb)>>
    BY <2>5, <2>6, <2>7, OverHull, ProductsAreFractions DEF M, f
  <2> QED
    BY <1>9, <1>10, <2>1, <2>8 DEF Bounds
<1> QED
  BY <1>3, <1>12, <1>13, <1>14, <1>15, <1>16, <1>17, <1>18, <1>19, <1>20

(* What neither the sign bits nor the bounds tell on a side of 0 is at 0.      *)
LEMMA SidesOfZero ==
  ASSUME NEW I \in NonEmpty
  PROVE  /\ SideBySigns(I) = "Z" => Num(I.lb) = 0 /\ Num(I.rb) = 0
         /\ SideByBounds(I) = "Z" => Num(I.lb) = 0 /\ Num(I.rb) = 0
<1>1. /\ I.lb \in Doubles /\ I.rb \in Doubles /\ Num(I.lb) \in Int /\ Num(I.rb) \in Int
      /\ Num(I.lb) + Num(I.rb) >= 0
  BY NonEmptyIs
<1>2. \A x \in Doubles : SignBit(x) => Num(x) <= 0
  BY NumOfMagnitude DEF SignBit
<1>3. SideBySigns(I) = "Z" => Num(I.lb) = 0 /\ Num(I.rb) = 0
  BY <1>1, <1>2 DEF SideBySigns
<1>4. SideByBounds(I) = "Z" => Num(I.lb) = 0 /\ Num(I.rb) = 0
  BY BoundsCompare DEF SideByBounds
<1> QED
  BY <1>3, <1>4

(* The products by 0 are 0.                                                   *)
LEMMA ZeroGivesHull ==
  ASSUME NEW I \in NonEmpty, NEW J \in NonEmpty,
         \/ Num(I.lb) = 0 /\ Num(I.rb) = 0
         \/ Num(J.lb) = 0 /\ Num(J.rb) = 0
  PROVE  Hull(RealProducts(I, J)) = <<0, 0>>
<1> DEFINE M == Multiples(Samples(I), Samples(J))
           z == Zero(FALSE)
           o == 0 * (Fine * Fine)
<1>1. \A K \in NonEmpty : Num(K.lb) = 0 /\ Num(K.rb) = 0 => Samples(K) = {0}
  <2>1. ASSUME NEW K \in NonEmpty, Num(K.lb) = 0, Num(K.rb) = 0 PROVE Samples(K) = {0}
    <3>1. Top(K) <= 0 /\ -Bottom(K) >= 0 /\ Top(K) >= 0
      BY <2>1, SamplesAreOnSides
    <3>2. /\ Top(K) \in Samples(K) /\ Top(K) \in Int /\ Bottom(K) \in Int
          /\ \A x \in Samples(K) : x \in Int /\ -Bottom(K) <= x /\ x <= Top(K)
      BY SamplesAre
    <3>3. \A x : x \in Samples(K) <=> x = 0
      BY <3>1, <3>2
    <3> QED
      BY <3>3
  <2> QED
    BY <2>1
<1>2. \A K \in NonEmpty : Samples(K) # {} /\ Samples(K) \subseteq Int
  BY SamplesAre
<1>3. \A m : m \in M <=> m = 0
  BY <1>1, <1>2 DEF Multiples
<1>4. Extremes(M, 0, 0)
  BY <1>3 DEF Extremes
<1>5. o = 0 /\ -o = 0 /\ 0 \in Int
  BY ConstantsAre
<1>6. IsCeiling(z, From(0, One)) /\ Num(z) = 0
  BY ZeroIsCeiling
<1> HIDE DEF M, z
<1>7. Hull(Over(M, Fine * Fine * One)) = <<Num(z), Num(z)>>
  BY <1>4, <1>5, <1>6, OverHull
<1> QED
  BY <1>6, <1>7, ProductsAreFractions DEF M

(* operator*= gives the hull.                                                 *)
LEMMA ProductIsHull ==
  ASSUME NEW I \in Intervals, NEW J \in Intervals, Sse \in BOOLEAN
  PROVE  Value(Product(I, J)) = Hull(RealProducts(I, J))
<1> DEFINE side(K) == IF Sse THEN SideBySigns(K) ELSE SideByBounds(K)
<1>1. CASE is_empty(I) \/ is_empty(J)
  <2>1. Product(I, J) = emptyset
    BY <1>1 DEF Product
  <2>2. I = emptyset \/ J = emptyset
    BY <1>1, EmptySetIs
  <2>3. RealProducts(I, J) = {}
    BY <2>2, EmptyHasNone DEF RealProducts
  <2> QED
    BY <2>1, <2>3, ValueIs
<1>2. CASE ~is_empty(I) /\ ~is_empty(J)
  <2>1. I \in NonEmpty /\ J \in NonEmpty
    BY <1>2, EmptySetIs
  <2>2. Product(I, J) =
          IF side(I) = "Z" THEN IF Sse THEN zero ELSE I
          ELSE IF side(J) = "Z" THEN IF Sse THEN zero ELSE J
          ELSE Products(<<side(I), side(J)>>, I, J)
    BY <1>2 DEF Product
  <2>3. /\ side(I) # "Z" => OnSide(side(I), I)
        /\ side(J) # "Z" => OnSide(side(J), J)
    BY <2>1, SidesAre
  <2>4. \A K \in NonEmpty : side(K) = "Z" => Num(K.lb) = 0 /\ Num(K.rb) = 0
    BY SidesOfZero
  <2> HIDE DEF side
  <2>5. CASE side(I) # "Z" /\ side(J) # "Z"
    BY <2>1, <2>2, <2>3, <2>5, SidesGiveHull
  <2>6. CASE side(I) = "Z" \/ side(J) = "Z"
    <3>1. \A K \in NonEmpty : Value(K) = <<Num(K.lb), Num(K.rb)>>
      BY NonEmptyIs DEF Value
    <3>2. zero \in NonEmpty /\ Num(zero.lb) = 0 /\ Num(zero.rb) = 0
      <4>1. (~Sse) \in BOOLEAN
        OBVIOUS
      <4> QED
        BY <4>1, ConstantsAreIntervals, EndsAre DEF zero, Bounds
    <3>3. Value(Product(I, J)) = <<0, 0>>
      BY <2>1, <2>2, <2>4, <2>6, <3>1, <3>2
    <3>4. Hull(RealProducts(I, J)) = <<0, 0>>
      BY <2>1, <2>4, <2>6, ZeroGivesHull
    <3> QED
      BY <3>3, <3>4
  <2> QED
    BY <2>5, <2>6
<1> QED
  BY <1>1, <1>2

(* 0 is a sample of the intervals that have it.                                *)
LEMMA ZeroIsSample ==
  ASSUME NEW I \in NonEmpty, -Bottom(I) <= 0, Top(I) >= 0
  PROVE  0 \in Samples(I)
<1>1. Fine \in Nat /\ Beyond \in Nat /\ Beyond * Fine \in Nat
  BY ConstantsAre, SignsMultiply
<1>2. In(0, I)
  BY <1>1, InIs
<1> QED
  BY <1>2 DEF Samples

(* The square of a bound, which is an end, rounded upward, and its opposite.   *)
LEMMA SquareOfBound ==
  ASSUME NEW x \in Ends
  PROVE  /\ MulUp(x, x) \in Ends
         /\ IsCeiling(MulUp(x, x), From(Reach(x) * Reach(x), One))
         /\ Num(x) <= 0 => IsCeiling(MulUp(x, Opposite(x)), From(-(Reach(x) * Reach(x)), One))
<1>1. /\ x \in Doubles /\ Num(x) \in Int /\ Reach(x) \in Int
      /\ IsInf(x) => Num(x) > 0
  BY EndsAre, ReachIs, LargestMagnitude
<1>2. ~(IsInf(x) /\ IsZero(x)) /\ Agree(x, x)
  BY <1>1, FiniteOrInfinite DEF Agree
<1>3. NaNToZero(MulUp(x, x)) = MulUp(x, x) /\ MulUp(x, x) \in Ends
  BY <1>1, <1>2, ProductIsUpper
<1>4. IsCeiling(MulUp(x, x), From(Reach(x) * Reach(x), One))
  BY <1>2, <1>3, ProductIsCeiling
<1>5. ASSUME Num(x) <= 0
      PROVE  IsCeiling(MulUp(x, Opposite(x)), From(-(Reach(x) * Reach(x)), One))
  <2> DEFINE o == Opposite(x)
  <2>1. ~IsInf(x)
    BY <1>1, <1>5
  <2>2. o \in Doubles /\ Num(o) = -Num(x) /\ ~IsInf(o)
    BY <1>1, <2>1, OppositeIsDouble DEF IsInf
  <2>3. o \in Ends /\ o # Infinity /\ x # Infinity
    BY <1>1, <2>1, <2>2, EndsAre
  <2>4. Reach(o) = -Reach(x)
    BY <2>2, <2>3 DEF Reach
  <2> HIDE DEF o
  <2>5. NaNToZero(MulUp(x, o)) = MulUp(x, o)
    BY <1>1, <2>1, <2>2, ProductIsUpper
  <2>6. IsCeiling(MulUp(x, o), From(Reach(x) * Reach(o), One))
    BY <2>1, <2>2, <2>3, <2>5, ProductIsCeiling
  <2>7. Reach(x) * Reach(o) = -(Reach(x) * Reach(x))
    BY <1>1, <2>4, SignsMultiply
  <2> QED
    BY <2>6, <2>7 DEF o
<1> QED
  BY <1>3, <1>4, <1>5

(* sqr() gives the hull of the squares.                                        *)
LEMMA SquareIsHull ==
  ASSUME NEW I \in Intervals, Sse \in BOOLEAN
  PROVE  Value(sqr(I)) = Hull(Squares(I))
<1> DEFINE side == SideBySigns(I)
           largest == MaxPd(MulUp(I.lb, I.lb), MulUp(I.rb, I.rb))
           fromP == Bounds(MulUp(I.lb, Opposite(I.lb)), MulUp(I.rb, I.rb))
           fromN == Bounds(MulUp(I.rb, Opposite(I.rb)), MulUp(I.lb, I.lb))
           a == Reach(I.lb)
           b == Reach(I.rb)
           f == Fine * Fine
           M == {x * x : x \in Samples(I)}
           low == -Bottom(I)
           top == Top(I)
<1>1. CASE is_empty(I)
  <2>1. sqr(I) = emptyset
    BY <1>1, EmptySetIs DEF sqr
  <2>2. Squares(I) = {}
    BY <1>1, EmptySetIs, EmptyHasNone DEF Squares
  <2> QED
    BY <2>1, <2>2, ValueIs
<1>2. CASE ~is_empty(I)
  <2>1. I \in NonEmpty
    BY <1>2, EmptySetIs
  <2>2. /\ I.lb \in Ends /\ I.rb \in Ends /\ Num(I.lb) \in Int /\ Num(I.rb) \in Int
    BY <2>1, NonEmptyIs
  <2>3. /\ MulUp(I.lb, I.lb) \in Ends /\ IsCeiling(MulUp(I.lb, I.lb), From(a * a, One))
        /\ MulUp(I.rb, I.rb) \in Ends /\ IsCeiling(MulUp(I.rb, I.rb), From(b * b, One))
        /\ Num(I.lb) <= 0 => IsCeiling(MulUp(I.lb, Opposite(I.lb)), From(-(a * a), One))
        /\ Num(I.rb) <= 0 => IsCeiling(MulUp(I.rb, Opposite(I.rb)), From(-(b * b), One))
    BY <2>2, SquareOfBound
  <2>4. /\ f \in Nat /\ a \in Int /\ b \in Int /\ a * a \in Int /\ b * b \in Int
        /\ low * low = (a * a) * f
        /\ top * top = (b * b) * f
    BY <2>1, ExtremesMultiply
  <2> DEFINE aa == a * a
             bb == b * b
             high == IF aa <= bb THEN bb ELSE aa
  <2>5. IsCeiling(largest, From(high, One)) /\ high \in Int
    <3> HIDE DEF a, b
    <3> QED
      BY <2>3, <2>4, MaxIsCeiling
  <2>6. /\ low >= 0 => Extremes(M, low * low, top * top)
        /\ top <= 0 => Extremes(M, top * top, low * low)
        /\ low <= 0 /\ top >= 0 => Extremes(M, 0, IF low * low <= top * top THEN top * top ELSE low * low)
    <3>1. Extremes(Samples(I), low, top)
      BY <2>1, SamplesHaveExtremes
    <3>2. low <= 0 /\ top >= 0 => 0 \in Samples(I)
      BY <2>1, ZeroIsSample
    <3> QED
      BY <3>1, <3>2, SquaresHaveExtremes
  <2>7. aa \in Int /\ bb \in Int /\ aa * f \in Int /\ bb * f \in Int /\ (-aa) * f = -(aa * f)
        /\ (-bb) * f = -(bb * f) /\ (aa <= bb <=> aa * f <= bb * f) /\ 0 * f = 0
    <3>1. f >= 1
      BY <2>1, ExtremesMultiply
    <3> HIDE DEF aa, bb, f
    <3>2. aa \in Int /\ bb \in Int
      BY <2>4 DEF aa, bb
    <3> QED
      BY <2>4, <3>1, <3>2, ProductsCompare
  <2> HIDE DEF f, M
  <2>8. ASSUME NEW lb, NEW rb, NEW p \in Int, NEW q \in Int,
               IsCeiling(lb, From(p, One)), IsCeiling(rb, From(q, One)),
               Extremes(M, -(p * f), q * f)
        PROVE  Hull(Squares(I)) = <<Num(lb), Num(rb)>>
    BY <2>8, OverHull, ProductsAreFractions DEF M, f
  <2>9. /\ low >= 0 /\ Num(I.lb) <= 0 =>
             Hull(Squares(I)) = <<Num(fromP.lb), Num(fromP.rb)>>
        /\ top <= 0 /\ Num(I.rb) <= 0 =>
             Hull(Squares(I)) = <<Num(fromN.lb), Num(fromN.rb)>>
    <3>1. -((-aa) * f) = aa * f /\ -((-bb) * f) = bb * f
      BY <2>7
    <3>2. /\ low >= 0 => Extremes(M, -((-aa) * f), bb * f)
          /\ top <= 0 => Extremes(M, -((-bb) * f), aa * f)
      BY <2>4, <2>6, <3>1
    <3> HIDE DEF low, top, a, b
    <3>3. -aa \in Int /\ -bb \in Int
      BY <2>7
    <3>4. fromP.lb = MulUp(I.lb, Opposite(I.lb)) /\ fromP.rb = MulUp(I.rb, I.rb)
      BY DEF Bounds
    <3>5. fromN.lb = MulUp(I.rb, Opposite(I.rb)) /\ fromN.rb = MulUp(I.lb, I.lb)
      BY DEF Bounds
    <3> HIDE DEF fromP, fromN
    <3> QED
      BY <2>3, <2>7, <2>8, <3>2, <3>3, <3>4, <3>5
  <2>10. ASSUME NEW neg \in BOOLEAN, low <= 0, top >= 0
         PROVE  Hull(Squares(I)) = <<Num(Zero(neg)), Num(largest)>>
    <3>1. Extremes(M, 0, IF low * low <= top * top THEN top * top ELSE low * low)
      BY <2>6, <2>10
    <3>2. (IF low * low <= top * top THEN top * top ELSE low * low) = high * f
      <4>1. low * low = aa * f /\ top * top = bb * f
        BY <2>4
      <4> HIDE DEF aa, bb
      <4> QED
        BY <2>7, <4>1
    <3>3. -(0 * f) = 0 /\ 0 \in Int
      BY <2>7
    <3>4. IsCeiling(Zero(neg), From(0, One))
      BY ZeroIsCeiling
    <3>5. Extremes(M, -(0 * f), high * f)
      BY <3>1, <3>2, <3>3
    <3> HIDE DEF high, largest
    <3> QED
      BY <2>5, <2>8, <3>3, <3>4, <3>5
  <2>11. sqr(I) =
           IF Sse
           THEN CASE side = "M" -> Bounds(Zero(FALSE), largest)
                  [] side = "P" -> fromP
                  [] side = "N" -> fromN
                  [] side = "Z" -> Bounds(Zero(TRUE), Zero(FALSE))
           ELSE IF certainly_positive(I) THEN fromP
           ELSE IF certainly_negative(I) THEN fromN
           ELSE Bounds(Zero(TRUE), largest)
    BY <1>2 DEF sqr
  <2>12. sqr(I) \in NonEmpty
    BY <2>1, SquareIsInterval
  <2>13. Value(sqr(I)) = <<Num(sqr(I).lb), Num(sqr(I).rb)>>
    BY <2>12, NonEmptyIs DEF Value
  <2>14. \A lb, rb : Bounds(lb, rb).lb = lb /\ Bounds(lb, rb).rb = rb
    BY DEF Bounds
  <2>15. /\ Num(I.lb) <= 0 => low >= 0
         /\ Num(I.lb) >= 0 => low <= 0
         /\ Num(I.rb) >= 0 => top >= 0
         /\ Num(I.rb) <= 0 => top <= 0
    BY <2>1, SamplesAreOnSides
  <2>16. /\ Num(I.lb) <= 0 => Hull(Squares(I)) = <<Num(fromP.lb), Num(fromP.rb)>>
         /\ Num(I.rb) <= 0 => Hull(Squares(I)) = <<Num(fromN.lb), Num(fromN.rb)>>
         /\ Num(I.lb) >= 0 /\ Num(I.rb) >= 0 =>
              \A neg \in BOOLEAN : Hull(Squares(I)) = <<Num(Zero(neg)), Num(largest)>>
    BY <2>9, <2>10, <2>15
  <2>17. Num(I.lb) = 0 /\ Num(I.rb) = 0 => Hull(Squares(I)) = <<0, 0>>
    <3>1. ASSUME Num(I.lb) = 0, Num(I.rb) = 0 PROVE Hull(Squares(I)) = <<0, 0>>
      <4>1. low = 0 /\ top = 0
        <5>1. low >= 0 /\ low <= 0 /\ top >= 0 /\ top <= 0
          BY <2>15, <3>1
        <5>2. low \in Int /\ top \in Int
          BY <2>1, SamplesAre
        <5> QED
          BY <5>1, <5>2
      <4>2. Extremes(M, -(0 * f), 0 * f)
        <5> HIDE DEF low, top
        <5>1. low * low = 0 /\ top * top = 0 /\ -(0 * f) = 0 /\ 0 * f = 0
          BY <2>7, <4>1
        <5> QED
          BY <2>6, <4>1, <5>1
      <4> DEFINE z == Zero(FALSE)
      <4>3. IsCeiling(z, From(0, One)) /\ Num(z) = 0
        BY ZeroIsCeiling
      <4> HIDE DEF z
      <4> QED
        BY <2>8, <4>2, <4>3
    <3> QED
      BY <3>1
  <2>18. /\ side = "P" => Num(I.lb) <= 0
         /\ side = "N" => Num(I.rb) <= 0
         /\ side = "M" => Num(I.lb) >= 0 /\ Num(I.rb) >= 0
         /\ side = "Z" => Num(I.lb) = 0 /\ Num(I.rb) = 0
         /\ side \in {"P", "M", "N", "Z"}
    BY <2>1, SidesAre, SidesOfZero DEF OnSide
  <2>19. /\ certainly_positive(I) <=> Num(I.lb) <= 0
         /\ certainly_negative(I) <=> Num(I.rb) <= 0
    BY <1>2, <2>1, BoundsCompare DEF certainly_positive, certainly_negative
  <2> HIDE DEF side, fromP, fromN, largest, low, top
  <2> DEFINE zz == Bounds(Zero(TRUE), Zero(FALSE))
             from0 == Bounds(Zero(FALSE), largest)
             fromMinus0 == Bounds(Zero(TRUE), largest)
  <2>20. Num(zz.lb) = 0 /\ Num(zz.rb) = 0
    BY <2>14, ZeroIsCeiling
  <2>21. Num(I.lb) >= 0 /\ Num(I.rb) >= 0 =>
            /\ Hull(Squares(I)) = <<Num(from0.lb), Num(from0.rb)>>
            /\ Hull(Squares(I)) = <<Num(fromMinus0.lb), Num(fromMinus0.rb)>>
    BY <2>14, <2>16
  <2>22. sqr(I) =
           IF Sse
           THEN CASE side = "M" -> from0
                  [] side = "P" -> fromP
                  [] side = "N" -> fromN
                  [] side = "Z" -> zz
           ELSE IF certainly_positive(I) THEN fromP
           ELSE IF certainly_negative(I) THEN fromN
           ELSE fromMinus0
    BY <2>11
  <2> HIDE DEF zz, from0, fromMinus0
  <2>23. CASE Sse
    BY <2>13, <2>16, <2>17, <2>18, <2>20, <2>21, <2>22, <2>23
  <2>24. CASE ~Sse
    <3>1. \/ certainly_positive(I) /\ Num(I.lb) <= 0 /\ sqr(I) = fromP
          \/ certainly_negative(I) /\ Num(I.rb) <= 0 /\ sqr(I) = fromN
          \/ Num(I.lb) >= 0 /\ Num(I.rb) >= 0 /\ sqr(I) = fromMinus0
      BY <2>2, <2>19, <2>22, <2>24
    <3> QED
      BY <2>13, <2>16, <2>21, <3>1
  <2> QED
    BY <2>23, <2>24
<1> QED
  BY <1>1, <1>2

(* The products and squares of what a program comes to.                      *)
LEMMA ProductsOfKept ==
  ASSUME Kept
  PROVE  ProductsAreHulls
<1>1. X \in Intervals /\ Y \in Intervals /\ Sse \in BOOLEAN
  BY ProgramAssumption DEF Kept, X, Y, Names
<1> QED
  BY <1>1, ProductIsHull, SquareIsHull DEF ProductsAreHulls

-----------------------------------------------------------------------------
(* The quotients of the numbers of two sets, 0 not being in the second.       *)
RatiosOf(S, T) == {Ratio(x, y) : x \in S, y \in T}

(* The doubles that bound the quotients by numbers above 0 are those that     *)
(* bound the greatest dividend by the least of them when it is not below 0,   *)
(* and by the greatest of them when it is not above.                          *)
LEMMA PositivesDivide ==
  ASSUME NEW S, NEW T, NEW a, NEW b, NEW c, NEW e, Extremes(S, a, b), Extremes(T, c, e), c >= 1
  PROVE  /\ b >= 0 => Bounding(RatiosOf(S, T)) = From(b * One, c)
         /\ b <= 0 => Bounding(RatiosOf(S, T)) = From(b * One, e)
<1>1. /\ S \subseteq Int /\ T \subseteq Int /\ b \in S /\ c \in T /\ e \in T
      /\ b \in Int /\ c \in Int /\ e \in Int /\ One \in Nat /\ One >= 1
      /\ \A x \in S : x \in Int /\ x <= b
      /\ \A y \in T : y \in Int /\ y >= 1 /\ c <= y /\ y <= e
  BY LargestMagnitude DEF Extremes
<1>2. \A x \in S, y \in T : Ratio(x, y) = <<x * One, y>>
  <2>1. \A y \in T : ~(y < 0)
    BY <1>1
  <2> QED
    BY <2>1 DEF Ratio
<1>3. \A n, d : <<n, d>>[1] = n /\ <<n, d>>[2] = d
  OBVIOUS
<1>4. ASSUME NEW v
      PROVE  (\A q \in RatiosOf(S, T) : q[1] <= v * q[2])
               <=> \A x \in S, y \in T : x * One <= v * y
  <2>1. \A x \in S, y \in T : Ratio(x, y)[1] = x * One /\ Ratio(x, y)[2] = y
    BY <1>2, <1>3
  <2>2. (\A q \in RatiosOf(S, T) : q[1] <= v * q[2])
          <=> \A x \in S, y \in T : Ratio(x, y)[1] <= v * Ratio(x, y)[2]
    BY DEF RatiosOf
  <2> QED
    BY <2>1, <2>2
<1>5. ASSUME NEW x \in S PROVE x * One \in Int /\ b * One \in Int /\ x * One <= b * One
  BY <1>1, ProductsCompare
<1>6. ASSUME NEW v \in Int, NEW y \in T
      PROVE  /\ v * c \in Int /\ v * y \in Int /\ v * e \in Int
             /\ v >= 0 => v * c <= v * y
             /\ v <= 0 => v * e <= v * y
             /\ v >= 0 => v * y >= 0
  <2>1. y \in Int /\ 0 <= y /\ 0 <= c /\ c <= y /\ y <= e
    BY <1>1
  <2>2. /\ v >= 0 => c * v <= y * v
        /\ v <= 0 => e * v <= y * v
    BY <1>1, <2>1, ProductsGrowOutward
  <2>3. c * v = v * c /\ y * v = v * y /\ e * v = v * e
    BY <1>1, <2>1
  <2> QED
    BY <1>1, <2>1, <2>2, <2>3, SignsMultiply
<1>7. ASSUME NEW v \in Int, b >= 0
      PROVE  (\A x \in S, y \in T : x * One <= v * y) <=> b * One <= v * c
  <2>1. ASSUME b * One <= v * c PROVE v >= 0
    <3>1. ASSUME v < 0 PROVE FALSE
      <4>1. (-v) * c > 0 /\ (-v) * c = -(v * c) /\ v * c \in Int
        BY <1>1, <3>1, SignsMultiply
      <4>2. b * One >= 0 /\ b * One \in Int
        BY <1>1, <1>7, SignsMultiply
      <4> QED
        BY <2>1, <4>1, <4>2
    <3> QED
      BY <3>1
  <2>2. ASSUME b * One <= v * c, NEW x \in S, NEW y \in T PROVE x * One <= v * y
    BY <1>5, <1>6, <2>1, <2>2
  <2> QED
    BY <1>1, <2>2
<1>8. ASSUME NEW v \in Int, b <= 0
      PROVE  (\A x \in S, y \in T : x * One <= v * y) <=> b * One <= v * e
  <2>1. b * One <= 0 /\ b * One \in Int
    BY <1>1, <1>8, SignsMultiply
  <2>2. ASSUME b * One <= v * e, NEW x \in S, NEW y \in T PROVE x * One <= v * y
    <3>1. CASE v >= 0
      BY <1>5, <1>6, <2>1, <3>1
    <3>2. CASE v <= 0
      BY <1>5, <1>6, <2>2, <3>2
    <3> QED
      BY <3>1, <3>2
  <2> QED
    BY <1>1, <2>2
<1>9. \A v \in FiniteNums : v \in Int
  BY FiniteNumsRange
<1>10. ASSUME b >= 0 PROVE Bounding(RatiosOf(S, T)) = From(b * One, c)
  <2>1. \A v \in FiniteNums : (\A q \in RatiosOf(S, T) : q[1] <= v * q[2]) <=> b * One <= v * c
    BY <1>4, <1>7, <1>9, <1>10
  <2> QED
    BY <2>1 DEF Bounding, From
<1>11. ASSUME b <= 0 PROVE Bounding(RatiosOf(S, T)) = From(b * One, e)
  <2>1. \A v \in FiniteNums : (\A q \in RatiosOf(S, T) : q[1] <= v * q[2]) <=> b * One <= v * e
    BY <1>4, <1>8, <1>9, <1>11
  <2> QED
    BY <2>1 DEF Bounding, From
<1> QED
  BY <1>10, <1>11

(* The quotient of opposites, and the opposites of quotients.                 *)
LEMMA NegatedRatios ==
  ASSUME NEW S, NEW T, S \subseteq Int, T \subseteq Int
  PROVE  /\ 0 \notin T => RatiosOf(S, T) = RatiosOf(Negated(S), Negated(T))
         /\ Opposites(RatiosOf(S, T)) = RatiosOf(Negated(S), T)
<1>1. ASSUME NEW x \in Int, NEW y \in Int
      PROVE  /\ y # 0 => Ratio(x, y) = Ratio(-x, -y)
             /\ <<-(Ratio(x, y)[1]), Ratio(x, y)[2]>> = Ratio(-x, y)
  <2>1. One \in Nat
    BY LargestMagnitude
  <2>2. -(x * One) = (-x) * One /\ -((-x) * One) = x * One /\ -(-y) = y /\ -(-x) = x
        /\ (-x) * One \in Int /\ x * One \in Int
    BY <2>1
  <2>3. CASE y < 0
    <3>1. Ratio(x, y) = <<(-x) * One, -y>> /\ Ratio(-x, y) = <<(-(-x)) * One, -y>>
      BY <2>1, <2>3 DEF Ratio
    <3>2. Ratio(-x, -y) = <<(-x) * One, -y>>
      <4>1. ~(-y < 0)
        BY <2>3
      <4> QED
        BY <4>1 DEF Ratio
    <3>3. Ratio(x, y)[1] = (-x) * One /\ Ratio(x, y)[2] = -y
      BY <3>1
    <3> QED
      BY <2>2, <3>1, <3>2, <3>3
  <2>4. CASE ~(y < 0)
    <3>1. Ratio(x, y) = <<x * One, y>> /\ Ratio(-x, y) = <<(-x) * One, y>>
      BY <2>4 DEF Ratio
    <3>2. y # 0 => Ratio(-x, -y) = <<(-(-x)) * One, -(-y)>>
      <4>1. y # 0 => -y < 0
        BY <2>4
      <4> QED
        BY <2>1, <4>1 DEF Ratio
    <3>3. Ratio(x, y)[1] = x * One /\ Ratio(x, y)[2] = y
      BY <3>1
    <3> QED
      BY <2>2, <3>1, <3>2, <3>3
  <2> QED
    BY <2>3, <2>4
<1>2. \A x \in S : x \in Int
  OBVIOUS
<1>3. \A y \in T : y \in Int
  OBVIOUS
<1>4. ASSUME 0 \notin T PROVE RatiosOf(S, T) = RatiosOf(Negated(S), Negated(T))
  <2>1. \A q : q \in RatiosOf(S, T) <=> \E x \in S, y \in T : q = Ratio(x, y)
    BY DEF RatiosOf
  <2>2. \A q : q \in RatiosOf(Negated(S), Negated(T)) <=> \E x \in S, y \in T : q = Ratio(-x, -y)
    BY DEF RatiosOf, Negated
  <2>3. \A x \in S, y \in T : Ratio(x, y) = Ratio(-x, -y)
    BY <1>1, <1>2, <1>3, <1>4
  <2>4. \A q : q \in RatiosOf(S, T) <=> q \in RatiosOf(Negated(S), Negated(T))
    BY <2>1, <2>2, <2>3
  <2> QED
    BY <2>4
<1>5. Opposites(RatiosOf(S, T)) = RatiosOf(Negated(S), T)
  <2>1. \A q : q \in Opposites(RatiosOf(S, T))
                 <=> \E x \in S, y \in T : q = <<-(Ratio(x, y)[1]), Ratio(x, y)[2]>>
    BY DEF RatiosOf, Opposites
  <2>2. \A q : q \in RatiosOf(Negated(S), T) <=> \E x \in S, y \in T : q = Ratio(-x, y)
    BY DEF RatiosOf, Negated
  <2>3. \A x \in S, y \in T : <<-(Ratio(x, y)[1]), Ratio(x, y)[2]>> = Ratio(-x, y)
    BY <1>1, <1>2, <1>3
  <2>4. \A q : q \in Opposites(RatiosOf(S, T)) <=> q \in RatiosOf(Negated(S), T)
    BY <2>1, <2>2, <2>3
  <2> QED
    BY <2>4
<1> QED
  BY <1>4, <1>5

(* The doubles that bound the quotients of two bounded sets, and those that   *)
(* bound their opposites, for divisors on one side of 0.                       *)
LEMMA RatiosAreBounded ==
  ASSUME NEW S, NEW T, NEW a, NEW b, NEW c, NEW e, Extremes(S, a, b), Extremes(T, c, e)
  PROVE  /\ c >= 1 => /\ b >= 0 => Bounding(RatiosOf(S, T)) = From(b * One, c)
                      /\ b <= 0 => Bounding(RatiosOf(S, T)) = From(b * One, e)
                      /\ a <= 0 => Bounding(Opposites(RatiosOf(S, T))) = From((-a) * One, c)
                      /\ a >= 0 => Bounding(Opposites(RatiosOf(S, T))) = From((-a) * One, e)
         /\ e <= -1 => /\ a <= 0 => Bounding(RatiosOf(S, T)) = From((-a) * One, -e)
                       /\ a >= 0 => Bounding(RatiosOf(S, T)) = From((-a) * One, -c)
                       /\ b >= 0 => Bounding(Opposites(RatiosOf(S, T))) = From(b * One, -e)
                       /\ b <= 0 => Bounding(Opposites(RatiosOf(S, T))) = From(b * One, -c)
         /\ RatiosOf(S, T) # {}
<1> DEFINE R == RatiosOf(S, T)
<1>1. /\ S \subseteq Int /\ T \subseteq Int /\ a \in S /\ c \in T
      /\ a \in Int /\ b \in Int /\ c \in Int /\ e \in Int
      /\ \A y \in T : c <= y /\ y <= e
  BY DEF Extremes
<1>2. Extremes(Negated(S), -b, -a) /\ Extremes(Negated(T), -e, -c)
  BY NegatedExtremes
<1>3. Opposites(R) = RatiosOf(Negated(S), T)
  BY <1>1, NegatedRatios
<1>4. ASSUME c >= 1
      PROVE  /\ b >= 0 => Bounding(R) = From(b * One, c)
             /\ b <= 0 => Bounding(R) = From(b * One, e)
             /\ -a >= 0 => Bounding(Opposites(R)) = From((-a) * One, c)
             /\ -a <= 0 => Bounding(Opposites(R)) = From((-a) * One, e)
  BY <1>2, <1>3, <1>4, PositivesDivide
<1>5. ASSUME e <= -1
      PROVE  /\ -a >= 0 => Bounding(R) = From((-a) * One, -e)
             /\ -a <= 0 => Bounding(R) = From((-a) * One, -c)
             /\ b >= 0 => Bounding(Opposites(R)) = From(b * One, -e)
             /\ b <= 0 => Bounding(Opposites(R)) = From(b * One, -c)
  <2>1. 0 \notin T /\ Negated(S) \subseteq Int /\ -e >= 1
    BY <1>1, <1>5 DEF Negated
  <2>2. R = RatiosOf(Negated(S), Negated(T))
    BY <1>1, <2>1, NegatedRatios
  <2>3. Negated(Negated(S)) = S
    <3>1. \A x : x \in Negated(Negated(S)) <=> x \in S
      <4>1. \A x \in S : -(-x) = x
        BY <1>1
      <4>2. \A x : x \in Negated(Negated(S)) <=> \E z \in S : x = -(-z)
        BY DEF Negated
      <4> QED
        BY <4>1, <4>2
    <3> QED
      BY <3>1
  <2>4. Opposites(R) = RatiosOf(S, Negated(T))
    <3>1. Opposites(R) = RatiosOf(Negated(Negated(S)), Negated(T))
      <4>1. Negated(T) \subseteq Int
        BY <1>1 DEF Negated
      <4> QED
        BY <2>1, <2>2, <4>1, NegatedRatios
    <3> QED
      BY <2>3, <3>1
  <2>5. /\ -a >= 0 => Bounding(R) = From((-a) * One, -e)
        /\ -a <= 0 => Bounding(R) = From((-a) * One, -c)
    BY <1>2, <2>1, <2>2, PositivesDivide
  <2>6. /\ b >= 0 => Bounding(Opposites(R)) = From(b * One, -e)
        /\ b <= 0 => Bounding(Opposites(R)) = From(b * One, -c)
    BY <1>2, <2>1, <2>4, PositivesDivide
  <2> QED
    BY <2>5, <2>6
<1>6. R # {}
  BY <1>1 DEF RatiosOf
<1>7. /\ a <= 0 <=> -a >= 0
      /\ a >= 0 <=> -a <= 0
  BY <1>1
<1> QED
  BY <1>4, <1>5, <1>6, <1>7

(* What an infinity stands for, of either sign *)
Size(x) ==
  IF x = Infinity THEN Beyond ELSE IF x = MinusInfinity THEN -Beyond ELSE Num(x)

(* The quotient of what two doubles stand for, of a denominator above 0 *)
Dividend(x, y) == IF Num(y) > 0 THEN Size(x) ELSE -Size(x)
Divisor(y) == IF Num(y) > 0 THEN Size(y) ELSE -Size(y)

(* The sizes of doubles.                                                      *)
LEMMA SizesAre ==
  /\ \A x \in Ends : Size(x) = Reach(x)
  /\ \A x \in Doubles : /\ Size(x) \in Int /\ Num(x) \in Int
                        /\ ~IsInf(x) => /\ Size(x) = Num(x)
                                        /\ -Largest <= Num(x) /\ Num(x) <= Largest
                        /\ IsInf(x) => \/ Num(x) > 0 /\ Size(x) = Beyond
                                       \/ Num(x) < 0 /\ Size(x) = -Beyond
                        /\ Size(Opposite(x)) = -Size(x)
<1>1. /\ Infinity \in Doubles /\ MinusInfinity \in Doubles /\ Infinity # MinusInfinity
      /\ Num(Infinity) = Largest + 1 /\ Num(MinusInfinity) = -(Largest + 1)
      /\ Largest \in Nat /\ Beyond \in Nat
      /\ MinusInfinity = Opposite(Infinity) /\ Infinity = Opposite(MinusInfinity)
  <2>1. Infinity \in Doubles /\ Num(Infinity) = Largest + 1 /\ Largest \in Nat /\ Beyond \in Nat
    BY EndsAre, ConstantsAre
  <2>2. MinusInfinity = Opposite(Infinity)
    BY DEF MinusInfinity
  <2>3. /\ MinusInfinity \in Doubles /\ Num(MinusInfinity) = -Num(Infinity)
        /\ Opposite(MinusInfinity) = Infinity
    BY <2>1, <2>2, OppositeIsDouble, OppositeTwice
  <2>4. Infinity # MinusInfinity
    BY <2>1, <2>3
  <2> QED
    BY <2>1, <2>2, <2>3, <2>4
<1>2. \A x \in Ends : Size(x) = Reach(x)
  BY EndsAre DEF Size, Reach
<1>3. ASSUME NEW x \in Doubles
      PROVE  /\ Num(x) \in Int
             /\ IsInf(x) <=> x = Infinity \/ x = MinusInfinity
             /\ ~IsInf(x) => -Largest <= Num(x) /\ Num(x) <= Largest
             /\ Opposite(x) \in Doubles /\ Opposite(Opposite(x)) = x /\ Num(Opposite(x)) = -Num(x)
  <2>1. /\ Num(x) \in Int /\ Opposite(x) \in Doubles /\ Opposite(Opposite(x)) = x
        /\ Num(Opposite(x)) = -Num(x)
        /\ IsInf(x) <=> IsInf(Opposite(x))
    BY NumOfMagnitude, OppositeIsDouble, OppositeTwice DEF IsInf
  <2>2. x # MinusInfinity => x \in Ends
    BY EndsAre
  <2>3. x = MinusInfinity => IsInf(x)
    BY <1>1, <2>1, EndsAre
  <2> QED
    BY <1>1, <2>1, <2>2, <2>3, EndsAre
<1>4. ASSUME NEW x \in Doubles
      PROVE  /\ Size(x) \in Int
             /\ ~IsInf(x) => Size(x) = Num(x)
             /\ IsInf(x) => \/ Num(x) > 0 /\ Size(x) = Beyond
                            \/ Num(x) < 0 /\ Size(x) = -Beyond
             /\ Size(Opposite(x)) = -Size(x)
  <2>1. /\ x = Infinity => Opposite(x) = MinusInfinity
        /\ x = MinusInfinity => Opposite(x) = Infinity
        /\ Opposite(x) = Infinity => x = MinusInfinity
        /\ Opposite(x) = MinusInfinity => x = Infinity
    BY <1>1, <1>3
  <2> QED
    BY <1>1, <1>3, <2>1 DEF Size
<1> QED
  BY <1>2, <1>3, <1>4

(* What is beyond all the doubles is so of their products too.                *)
LEMMA BeyondIs ==
  /\ \A v \in FiniteNums : v \in Int /\ -Largest <= v /\ v <= Largest
  /\ Beyond > Largest * Largest /\ Beyond > Largest * One /\ Beyond * One >= Beyond
  /\ Largest * Largest \in Nat /\ Largest * One \in Nat /\ Beyond * One \in Nat
<1>1. /\ Largest \in Nat /\ Largest >= 1 /\ One \in Nat /\ One >= 1 /\ Beyond \in Nat
      /\ Beyond > Largest * Largest * One
  BY ConstantsAre, LargestMagnitude, FineAssumption
<1>2. Largest * Largest \in Nat /\ Largest * One \in Nat /\ Beyond * One \in Nat
  BY <1>1, SignsMultiply
<1>3. (Largest * Largest) * 1 <= (Largest * Largest) * One
  BY <1>1, <1>2, ProductsGrow
<1>4. Largest * One <= (Largest * Largest) * One
  <2>1. 1 * Largest <= Largest * Largest
    BY <1>1, ProductsGrow
  <2> QED
    BY <1>1, <1>2, <2>1, ProductsGrow
<1>5. Beyond * 1 <= Beyond * One
  BY <1>1, ProductsGrow
<1>6. (Largest * Largest) * One = Largest * Largest * One /\ (Largest * Largest) * One \in Nat
  BY <1>1, <1>2, SignsMultiply
<1>7. \A v \in FiniteNums : v \in Int /\ -Largest <= v /\ v <= Largest
  BY FiniteNumsRange
<1> DEFINE ll == Largest * Largest
           lo == Largest * One
           llo == ll * One
           bo == Beyond * One
<1>8. ll * 1 = ll /\ Beyond * 1 = Beyond
  BY <1>1, <1>2
<1>9. Beyond > llo /\ ll <= llo /\ lo <= llo /\ Beyond <= bo
  BY <1>1, <1>3, <1>4, <1>5, <1>6, <1>8
<1>10. ll \in Nat /\ lo \in Nat /\ llo \in Nat /\ bo \in Nat
  BY <1>2, <1>6
<1> HIDE DEF ll, lo, llo, bo
<1>11. Beyond > ll /\ Beyond > lo /\ bo >= Beyond
  BY <1>1, <1>9, <1>10
<1> QED
  BY <1>2, <1>7, <1>11 DEF ll, lo, bo

(* A quotient rounded upward is the ceiling of the quotient of what its       *)
(* operands stand for.                                                        *)
LEMMA QuotientIsCeiling ==
  ASSUME NEW x \in Doubles, NEW y \in Doubles, Divides(x, y)
  PROVE  IsCeiling(DivUp(x, y), From(Dividend(x, y) * One, Divisor(y)))
<1> DEFINE n == Dividend(x, y)
           d == Divisor(y)
<1>1. /\ x # NaN /\ y # NaN /\ Num(x) \in Int /\ Num(y) \in Int
      /\ IsZero(x) <=> Num(x) = 0
      /\ IsZero(y) <=> Num(y) = 0
      /\ One \in Nat /\ One >= 1 /\ Largest \in Nat /\ Largest >= 1 /\ Beyond \in Nat
      /\ y.mag \in Nat /\ y.neg \in BOOLEAN /\ x.neg \in BOOLEAN
      /\ y.neg => Num(y) = -y.mag
      /\ ~y.neg => Num(y) = y.mag
      /\ Num(y) # 0
  BY FiniteOrInfinite, NumOfMagnitude, LargestMagnitude, ConstantsAre DEF Divides
<1>2. /\ Size(x) \in Int /\ Size(y) \in Int /\ n \in Int /\ d \in Int
      /\ ~IsInf(x) => Size(x) = Num(x) /\ -Largest <= Num(x) /\ Num(x) <= Largest
      /\ ~IsInf(y) => Size(y) = Num(y) /\ -Largest <= Num(y) /\ Num(y) <= Largest
      /\ IsInf(x) => \/ Num(x) > 0 /\ Size(x) = Beyond
                     \/ Num(x) < 0 /\ Size(x) = -Beyond
      /\ IsInf(y) => \/ Num(y) > 0 /\ Size(y) = Beyond
                     \/ Num(y) < 0 /\ Size(y) = -Beyond
  BY SizesAre DEF Dividend, Divisor
<1>3. \A v \in FiniteNums : v \in Int /\ -Largest <= v /\ v <= Largest
  BY BeyondIs
<1>4. CASE IsInf(x)
  <2>1. ~IsInf(y) /\ Agree(x, y)
    BY <1>4 DEF Divides
  <2>2. n = Beyond /\ d \in Nat /\ d <= Largest
    BY <1>1, <1>2, <1>4, <2>1 DEF Agree, Dividend, Divisor
  <2>3. Num(x) # 0
    BY <1>2, <1>4
  <2>4. (x.neg # y.neg) = FALSE
    BY <1>1, <2>1, <2>3, SignIs DEF Agree
  <2>5. DivUp(x, y) = [neg |-> (x.neg # y.neg), mag |-> Oo]
    BY <1>1, <1>4, <2>1, <2>3 DEF DivUp
  <2>6. DivUp(x, y) = Infinity
    BY <2>4, <2>5 DEF Infinity
  <2> HIDE DEF n, d
  <2>7. ASSUME NEW v \in FiniteNums PROVE v * d \in Int /\ v * d <= Largest * Largest
    <3>1. v \in Int /\ v <= Largest
      BY <1>3
    <3>2. CASE v >= 0
      BY <1>1, <2>2, <3>1, <3>2, ProductsGrow
    <3>3. CASE v <= 0
      <4>1. v * d <= 0 /\ v * d \in Int /\ Largest * Largest >= 0 /\ Largest * Largest \in Int
        BY <1>1, <2>2, <3>1, <3>3, SignsMultiply
      <4> QED
        BY <4>1
    <3> QED
      BY <3>1, <3>2, <3>3
  <2>8. From(n * One, d) = {}
    <3>1. ASSUME NEW v \in FiniteNums PROVE ~(Beyond * One <= v * d)
      <4> DEFINE vd == v * d
                 ll == Largest * Largest
                 bo == Beyond * One
      <4>1. vd \in Int /\ vd <= ll /\ Beyond > ll /\ bo >= Beyond /\ bo \in Nat /\ ll \in Nat
        BY <2>7, BeyondIs
      <4> HIDE DEF vd, ll, bo
      <4>2. ~(bo <= vd)
        BY <1>1, <4>1
      <4> QED
        BY <4>2 DEF vd, bo
    <3> QED
      BY <2>2, <3>1 DEF From
  <2> QED
    BY <2>6, <2>8 DEF IsCeiling, n, d
<1>5. CASE ~IsInf(x) /\ IsInf(y)
  <2> DEFINE neg == x.neg # y.neg
             z == Zero(neg)
  <2>1. DivUp(x, y) = z
    BY <1>1, <1>5 DEF DivUp
  <2>2. Num(z) = 0
    BY EndsAre
  <2>3. Num(Opposite(y)) = -Num(y)
    BY OppositeIsDouble
  <2>4. n \in Int /\ n <= 0 /\ -Largest <= n /\ d = Beyond
    BY <1>1, <1>2, <1>5, <2>3 DEF Agree, Divides, Dividend, Divisor
  <2>5. 0 \in FiniteNums
    BY MagnitudesAssumption DEF FiniteNums
  <2> HIDE DEF n, d, z
  <2>6. 0 * Beyond = 0 /\ n * One <= 0 /\ n * One \in Int /\ -(Largest * One) <= n * One
    <3>1. n * One <= 0 /\ n * One \in Int /\ 0 * Beyond = 0
      BY <1>1, <2>4, SignsMultiply
    <3>2. (-Largest) * One <= n * One /\ (-Largest) * One = -(Largest * One)
      BY <1>1, <2>4, ProductsCompare, SignsMultiply
    <3> QED
      BY <3>1, <3>2
  <2>7. ASSUME NEW v \in FiniteNums, n * One <= v * Beyond PROVE 0 <= v
    <3>1. ASSUME v < 0 PROVE FALSE
      <4>1. v \in Int /\ v <= -1 /\ -1 \in Int /\ Beyond >= 1
        BY <1>1, <1>3, <3>1, ConstantsAre
      <4>2. v * Beyond <= (-1) * Beyond /\ (-1) * Beyond = -Beyond /\ v * Beyond \in Int
        BY <1>1, <4>1, ProductsCompare
      <4> DEFINE vb == v * Beyond
                 no == n * One
                 lo == Largest * One
      <4>3. vb <= -Beyond /\ vb \in Int /\ no <= vb /\ no \in Int /\ -lo <= no
            /\ Beyond > lo /\ lo \in Nat
        BY <2>6, <2>7, <4>2, BeyondIs
      <4> HIDE DEF vb, no, lo
      <4> QED
        BY <1>1, <4>3
    <3> QED
      BY <1>3, <3>1
  <2>8. 0 \in From(n * One, d) /\ \A w \in From(n * One, d) : 0 <= w
    BY <2>4, <2>5, <2>6, <2>7 DEF From
  <2> QED
    BY <2>1, <2>2, <2>8 DEF IsCeiling, n, d
<1>6. CASE ~IsInf(x) /\ ~IsInf(y)
  <2> DEFINE neg == x.neg # y.neg
             k == (IF y.neg THEN -1 ELSE 1) * Num(x) * One
  <2>1. DivUp(x, y) = RoundUp(k, y.mag, neg)
    BY <1>1, <1>6 DEF DivUp
  <2>2. k \in Int /\ y.mag >= 1 /\ neg \in BOOLEAN
    BY <1>1
  <2>3. k = n * One /\ y.mag = d
    <3>1. CASE y.neg
      <4>1. ~(Num(y) > 0)
        BY <1>1, <3>1
      <4>2. n = -Num(x) /\ d = y.mag
        BY <1>1, <1>2, <1>6, <3>1, <4>1 DEF Dividend, Divisor
      <4> HIDE DEF n, d
      <4> QED
        BY <1>1, <3>1, <4>2
    <3>2. CASE ~y.neg
      <4>1. Num(y) > 0
        BY <1>1, <3>2
      <4>2. n = Num(x) /\ d = y.mag
        BY <1>1, <1>2, <1>6, <3>2, <4>1 DEF Dividend, Divisor
      <4> HIDE DEF n, d
      <4> QED
        BY <1>1, <3>2, <4>2
    <3> QED
      BY <3>1, <3>2
  <2> HIDE DEF k, neg, n, d
  <2>4. IsCeiling(RoundUp(k, y.mag, neg), From(k, y.mag))
    BY <1>1, <2>2, RoundUpIsCeiling
  <2> QED
    BY <2>1, <2>3, <2>4 DEF n, d
<1> QED
  BY <1>4, <1>5, <1>6

(* The reals other than 0 of an interval: their extremes on one side of 0,    *)
(* where they are next to it when 0 is the bound.                              *)
LEMMA DivisorsAre ==
  ASSUME NEW J \in NonEmpty
  PROVE  LET T == Samples(J) \ {0} IN
         /\ Num(J.lb) < 0 => Extremes(T, -Bottom(J), Top(J)) /\ -Bottom(J) >= 1
         /\ Num(J.rb) < 0 => Extremes(T, -Bottom(J), Top(J)) /\ Top(J) <= -1
         /\ Num(J.lb) = 0 /\ Num(J.rb) > 0 => Extremes(T, 1, Top(J))
         /\ Num(J.rb) = 0 /\ Num(J.lb) > 0 => Extremes(T, -Bottom(J), -1)
         /\ Num(J.lb) > 0 /\ Num(J.rb) > 0 => 1 \in T /\ -1 \in T
         /\ Num(J.lb) = 0 /\ Num(J.rb) = 0 => T = {}
         /\ T \subseteq Int
<1> DEFINE T == Samples(J) \ {0}
           low == -Bottom(J)
           top == Top(J)
<1>1. /\ top \in Samples(J) /\ low \in Samples(J)
      /\ \A x \in Samples(J) : x \in Int /\ low <= x /\ x <= top
      /\ top \in Int /\ low \in Int
  BY SamplesAre
<1>2. /\ J.lb \in Ends /\ J.rb \in Ends /\ Num(J.lb) \in Int /\ Num(J.rb) \in Int
      /\ Fine \in Nat /\ Fine >= 1 /\ Beyond \in Nat /\ Beyond * Fine >= 1
  <2>1. /\ J.lb \in Ends /\ J.rb \in Ends /\ Num(J.lb) \in Int /\ Num(J.rb) \in Int
        /\ Fine \in Nat /\ Fine >= 1 /\ Beyond \in Nat /\ Beyond >= 1
    BY NonEmptyIs, ConstantsAre
  <2>2. 1 * 1 <= Beyond * Fine
    BY <2>1, ProductsGrow
  <2> QED
    BY <2>1, <2>2
<1>3. ASSUME NEW x \in Ends
      PROVE  /\ Num(x) > 0 => Reach(x) * Fine >= 1
             /\ Num(x) < 0 => Reach(x) * Fine <= -1
             /\ Num(x) = 0 => Reach(x) * Fine = 0
             /\ Reach(x) * Fine \in Int
  <2>1. /\ Reach(x) \in Int /\ Num(x) \in Int
        /\ Num(x) > 0 => Reach(x) >= 1
        /\ Num(x) <= 0 => Reach(x) = Num(x)
    BY ReachIs, EndsAre, ConstantsAre
  <2>2. /\ Reach(x) >= 1 => 1 * Fine <= Reach(x) * Fine
        /\ Reach(x) <= -1 => Reach(x) * Fine <= (-1) * Fine
        /\ 1 * Fine = Fine /\ (-1) * Fine = -Fine /\ 0 * Fine = 0
        /\ Reach(x) * Fine \in Int
    BY <1>2, <2>1, ProductsCompare
  <2> QED
    BY <1>2, <2>1, <2>2
<1>4. /\ Num(J.lb) < 0 => low >= 1
      /\ Num(J.lb) > 0 => low <= -1
      /\ Num(J.lb) = 0 => low = 0
      /\ Num(J.rb) < 0 => top <= -1
      /\ Num(J.rb) > 0 => top >= 1
      /\ Num(J.rb) = 0 => top = 0
  <2>1. low = -(Reach(J.lb) * Fine) /\ top = Reach(J.rb) * Fine
    BY DEF Bottom, Top
  <2>2. Reach(J.lb) * Fine \in Int /\ Reach(J.rb) * Fine \in Int
    BY <1>2, <1>3
  <2> HIDE DEF low, top
  <2> QED
    BY <1>2, <1>3, <2>1, <2>2
<1>5. \A x \in {1, -1} : low <= x /\ x <= top => x \in Samples(J)
  <2>1. ASSUME NEW x \in {1, -1}, low <= x, x <= top PROVE x \in Samples(J)
    <3>1. x \in Int /\ -(Beyond * Fine) <= x /\ x <= Beyond * Fine
      BY <1>2
    <3>2. In(x, J)
      BY <2>1, <3>1, InIs
    <3> QED
      BY <3>2 DEF Samples
  <2> QED
    BY <2>1
<1> HIDE DEF low, top
<1>12. /\ \A x : x \in T <=> x \in Samples(J) /\ x # 0
       /\ \A x \in Samples(J) : x \in Int
       /\ T \subseteq Int
  BY <1>1
<1> DEFINE K == Samples(J)
<1>13. /\ \A x : x \in T <=> x \in K /\ x # 0
       /\ \A x \in K : x \in Int /\ low <= x /\ x <= top
       /\ T \subseteq Int
       /\ low \in K /\ top \in K /\ low \in Int /\ top \in Int
       /\ low <= 1 /\ 1 <= top => 1 \in K
       /\ low <= -1 /\ -1 <= top => -1 \in K
  BY <1>1, <1>5, <1>12
<1> HIDE DEF T, K
<1>6. /\ low >= 1 => Extremes(T, low, top)
      /\ top <= -1 => Extremes(T, low, top)
  BY <1>13 DEF Extremes
<1>7. low = 0 /\ top >= 1 => Extremes(T, 1, top)
  BY <1>13 DEF Extremes
<1>8. top = 0 /\ low <= -1 => Extremes(T, low, -1)
  BY <1>13 DEF Extremes
<1>9. low <= -1 /\ top >= 1 => 1 \in T /\ -1 \in T
  BY <1>13
<1> USE DEF T
<1>10. Num(J.lb) = 0 /\ Num(J.rb) = 0 => T = {}
  <2>1. low = 0 /\ top = 0 => \A x \in Samples(J) : x = 0
    BY <1>1
  <2> QED
    BY <1>4, <2>1
<1>11. T \subseteq Int
  BY <1>1
<1> QED
  BY <1>4, <1>6, <1>7, <1>8, <1>9, <1>10, <1>11 DEF low, top

(* What is below a quotient of ends, counted in samples, is so in doubles; a  *)
(* real other than 0 divided by one next to 0 is beyond all the doubles.       *)
LEMMA FromOfRatios ==
  /\ \A r, k \in Int : From((r * Fine) * One, k * Fine) = From(r * One, k)
  /\ \A r \in Int : r >= 1 => From((r * Fine) * One, 1) = {}
<1>1. Fine \in Nat /\ Fine >= 1 /\ One \in Nat /\ One >= 1
  BY ConstantsAre, LargestMagnitude
<1>2. ASSUME NEW r \in Int, NEW k \in Int
      PROVE  From((r * Fine) * One, k * Fine) = From(r * One, k)
  <2>1. ASSUME NEW v \in Int PROVE (r * Fine) * One <= v * (k * Fine) <=> r * One <= v * k
    <3> DEFINE p == r * One
               q == v * k
    <3>1. p \in Int /\ q \in Int
      BY <1>1
    <3>2. (r * Fine) * One = p * Fine
      BY <1>1
    <3>3. v * (k * Fine) = q * Fine
      BY <1>1
    <3> HIDE DEF p, q
    <3>4. p <= q <=> p * Fine <= q * Fine
      BY <1>1, <3>1, ProductsCompare
    <3> QED
      BY <3>2, <3>3, <3>4 DEF p, q
  <2>2. \A v : v \in From((r * Fine) * One, k * Fine) <=> v \in From(r * One, k)
    BY <2>1, FiniteNumsRange DEF From
  <2> QED
    BY <2>2
<1>3. ASSUME NEW r \in Int, r >= 1 PROVE From((r * Fine) * One, 1) = {}
  <2>1. Fine * One > Largest /\ Fine * One \in Nat
    BY <1>1, FineAssumption, SignsMultiply
  <2>2. Fine * One <= (r * Fine) * One
    <3>1. 1 * Fine <= r * Fine /\ 1 * Fine = Fine /\ r * Fine \in Int
      BY <1>1, <1>3, ProductsCompare
    <3> QED
      BY <1>1, <3>1, ProductsCompare
  <2>3. (r * Fine) * One \in Int
    BY <1>1
  <2>4. \A v \in FiniteNums : v \in Int /\ v <= Largest /\ v * 1 = v
    BY FiniteNumsRange
  <2> DEFINE n == (r * Fine) * One
             fo == Fine * One
  <2>5. n \in Int /\ fo \in Nat /\ fo <= n /\ fo > Largest /\ Largest \in Int
    BY <2>1, <2>2, <2>3, ConstantsAre
  <2> HIDE DEF n, fo
  <2>6. \A v \in FiniteNums : ~(n <= v * 1)
    BY <2>4, <2>5
  <2> QED
    BY <2>6 DEF From, n
<1> QED
  BY <1>2, <1>3

(* The doubles that bound the quotients of the reals of two intervals, from   *)
(* what their bounds stand for, when the divisor is on one side of 0.          *)
LEMMA QuotientsAreBounded ==
  ASSUME NEW I \in NonEmpty, NEW J \in NonEmpty
  PROVE  LET a == Reach(I.lb)
             b == Reach(I.rb)
             c == Reach(J.lb)
             d == Reach(J.rb)
             U == Bounding(Ratios(I, J))
             L == Bounding(Opposites(Ratios(I, J)))
         IN /\ Num(J.lb) < 0 => /\ b >= 0 => U = From(b * One, -c)
                                /\ b <= 0 => U = From(b * One, d)
                                /\ a >= 0 => L = From(a * One, -c)
                                /\ a <= 0 => L = From(a * One, d)
            /\ Num(J.rb) < 0 => /\ a >= 0 => U = From(a * One, -d)
                                /\ a <= 0 => U = From(a * One, c)
                                /\ b >= 0 => L = From(b * One, -d)
                                /\ b <= 0 => L = From(b * One, c)
            /\ Num(J.lb) = 0 /\ Num(J.rb) > 0 =>
                 /\ b > 0 => U = {}
                 /\ b <= 0 => U = From(b * One, d)
                 /\ a > 0 => L = {}
                 /\ a <= 0 => L = From(a * One, d)
            /\ Num(J.rb) = 0 /\ Num(J.lb) > 0 =>
                 /\ a > 0 => U = {}
                 /\ a <= 0 => U = From(a * One, c)
                 /\ b > 0 => L = {}
                 /\ b <= 0 => L = From(b * One, c)
<1> DEFINE a == Reach(I.lb)
           b == Reach(I.rb)
           c == Reach(J.lb)
           d == Reach(J.rb)
           S == Samples(I)
           T == Samples(J) \ {0}
           U == Bounding(Ratios(I, J))
           L == Bounding(Opposites(Ratios(I, J)))
           A == a * Fine
           B == b * Fine
           C == c * Fine
           D == d * Fine
<1>1. Ratios(I, J) = RatiosOf(S, T)
  BY DEF Ratios, RatiosOf
<1>2. /\ a \in Int /\ b \in Int /\ c \in Int /\ d \in Int /\ Fine \in Nat /\ Fine >= 1
      /\ One \in Nat
  BY NonEmptyIs, ReachIs, ConstantsAre, LargestMagnitude
<1>3. Extremes(S, -A, B)
  BY SamplesHaveExtremes DEF Bottom, Top
<1>4. /\ Num(J.lb) < 0 => Extremes(T, -C, D) /\ -C >= 1
      /\ Num(J.rb) < 0 => Extremes(T, -C, D) /\ D <= -1
      /\ Num(J.lb) = 0 /\ Num(J.rb) > 0 => Extremes(T, 1, D)
      /\ Num(J.rb) = 0 /\ Num(J.lb) > 0 => Extremes(T, -C, -1)
  BY DivisorsAre DEF Bottom, Top
<1>5. /\ A \in Int /\ B \in Int /\ C \in Int /\ D \in Int
      /\ -(-A) = A /\ -(-C) = C /\ -(-1) = 1 /\ -D = (-d) * Fine /\ -C = (-c) * Fine
      /\ -c \in Int /\ -d \in Int
      /\ a <= 0 <=> A <= 0
      /\ b <= 0 <=> B <= 0
      /\ a >= 0 <=> A >= 0
      /\ b >= 0 <=> B >= 0
      /\ (a > 0 => A >= 0) /\ (b > 0 => B >= 0)
      /\ (a > 0 => a >= 1) /\ (b > 0 => b >= 1)
  <2>1. A \in Int /\ B \in Int /\ C \in Int /\ D \in Int /\ 0 * Fine = 0
    BY <1>2
  <2>2. -D = (-d) * Fine /\ -C = (-c) * Fine
    <3>1. ASSUME NEW r \in Int PROVE -(r * Fine) = (-r) * Fine
      BY <1>2, SignsMultiply
    <3> HIDE DEF a, b, c, d
    <3> QED
      BY <1>2, <3>1
  <2>3. \A x \in Int : /\ x <= 0 <=> x * Fine <= 0
                       /\ 0 <= x <=> 0 <= x * Fine
    BY <1>2, <2>1, ProductsCompare
  <2>4. /\ a <= 0 <=> A <= 0
        /\ b <= 0 <=> B <= 0
        /\ 0 <= a <=> 0 <= A
        /\ 0 <= b <=> 0 <= B
    BY <1>2, <2>3
  <2> HIDE DEF a, b, c, d, A, B, C, D
  <2>7. -(-1) = 1
    <3>1. \A r \in Int : r + 1 = 0 => -r = 1
      OBVIOUS
    <3>2. -1 \in Int /\ (-1) + 1 = 0
      OBVIOUS
    <3> QED
      BY <3>1, <3>2
  <2>8. \A r \in Int : -(-r) = r /\ -r \in Int
    OBVIOUS
  <2>5. /\ -(-A) = A /\ -(-C) = C /\ -(-1) = 1
        /\ -c \in Int /\ -d \in Int
    BY <1>2, <2>1, <2>7, <2>8
  <2>6. ASSUME NEW r \in Int, NEW k \in Int, r <= 0 <=> k <= 0, 0 <= r <=> 0 <= k
        PROVE  /\ r <= 0 <=> k <= 0
               /\ r >= 0 <=> k >= 0
               /\ (r > 0 => k >= 0) /\ (r > 0 => r >= 1)
    BY <2>6
  <2> QED
    BY <1>2, <2>1, <2>2, <2>4, <2>5, <2>6
<1>6. /\ \A r, k \in Int : From((r * Fine) * One, k * Fine) = From(r * One, k)
      /\ \A r \in Int : r >= 1 => From((r * Fine) * One, 1) = {}
  BY FromOfRatios
<1>7. /\ From(A * One, D) = From(a * One, d) /\ From(A * One, C) = From(a * One, c)
      /\ From(B * One, D) = From(b * One, d) /\ From(B * One, C) = From(b * One, c)
      /\ From(A * One, -D) = From(a * One, -d) /\ From(A * One, -C) = From(a * One, -c)
      /\ From(B * One, -D) = From(b * One, -d) /\ From(B * One, -C) = From(b * One, -c)
      /\ a > 0 => From(A * One, 1) = {}
      /\ b > 0 => From(B * One, 1) = {}
  BY <1>2, <1>5, <1>6
<1> HIDE DEF a, b, c, d, S, T, A, B, C, D
<1>8. ASSUME Num(J.lb) < 0
      PROVE  /\ b >= 0 => U = From(b * One, -c)
             /\ b <= 0 => U = From(b * One, d)
             /\ a >= 0 => L = From(a * One, -c)
             /\ a <= 0 => L = From(a * One, d)
  <2>1. Extremes(T, -C, D) /\ -C >= 1
    BY <1>4, <1>8
  <2>2. /\ B >= 0 => U = From(B * One, -C)
        /\ B <= 0 => U = From(B * One, D)
        /\ -A <= 0 => L = From((-(-A)) * One, -C)
        /\ -A >= 0 => L = From((-(-A)) * One, D)
    BY <1>1, <1>3, <2>1, RatiosAreBounded
  <2> QED
    BY <1>5, <1>7, <2>2
<1>9. ASSUME Num(J.rb) < 0
      PROVE  /\ a >= 0 => U = From(a * One, -d)
             /\ a <= 0 => U = From(a * One, c)
             /\ b >= 0 => L = From(b * One, -d)
             /\ b <= 0 => L = From(b * One, c)
  <2>1. Extremes(T, -C, D) /\ D <= -1
    BY <1>4, <1>9
  <2>2. /\ -A <= 0 => U = From((-(-A)) * One, -D)
        /\ -A >= 0 => U = From((-(-A)) * One, -(-C))
        /\ B >= 0 => L = From(B * One, -D)
        /\ B <= 0 => L = From(B * One, -(-C))
    BY <1>1, <1>3, <2>1, RatiosAreBounded
  <2> QED
    BY <1>5, <1>7, <2>2
<1>10. ASSUME Num(J.lb) = 0, Num(J.rb) > 0
       PROVE  /\ b > 0 => U = {}
              /\ b <= 0 => U = From(b * One, d)
              /\ a > 0 => L = {}
              /\ a <= 0 => L = From(a * One, d)
  <2>1. Extremes(T, 1, D) /\ 1 >= 1
    BY <1>4, <1>10
  <2>2. /\ B >= 0 => U = From(B * One, 1)
        /\ B <= 0 => U = From(B * One, D)
        /\ -A <= 0 => L = From((-(-A)) * One, 1)
        /\ -A >= 0 => L = From((-(-A)) * One, D)
    BY <1>1, <1>3, <2>1, RatiosAreBounded
  <2> QED
    BY <1>5, <1>7, <2>2
<1>11. ASSUME Num(J.rb) = 0, Num(J.lb) > 0
       PROVE  /\ a > 0 => U = {}
              /\ a <= 0 => U = From(a * One, c)
              /\ b > 0 => L = {}
              /\ b <= 0 => L = From(b * One, c)
  <2>1. Extremes(T, -C, -1) /\ -1 <= -1
    BY <1>4, <1>11
  <2>2. /\ -A <= 0 => U = From((-(-A)) * One, -(-1))
        /\ -A >= 0 => U = From((-(-A)) * One, -(-C))
        /\ B >= 0 => L = From(B * One, -(-1))
        /\ B <= 0 => L = From(B * One, -(-C))
    BY <1>1, <1>3, <2>1, RatiosAreBounded
  <2> QED
    BY <1>5, <1>7, <2>2
<1> QED
  BY <1>8, <1>9, <1>10, <1>11 DEF a, b, c, d

(* The quotients of ends that operator/= takes are the ceilings of those of   *)
(* what they stand for.                                                       *)
LEMMA QuotientsOfEnds ==
  ASSUME NEW x \in Ends, NEW y \in Ends
  PROVE  /\ Num(x) >= 0 /\ Num(y) < 0 =>
              /\ IsCeiling(DivUp(x, Opposite(y)), From(Reach(x) * One, -Reach(y)))
              /\ IsCeiling(DivUp(Opposite(x), y), From(Reach(x) * One, -Reach(y)))
         /\ Num(x) <= 0 /\ Num(y) > 0 =>
              /\ IsCeiling(DivUp(x, y), From(Reach(x) * One, Reach(y)))
              /\ IsCeiling(DivUp(Opposite(x), Opposite(y)), From(Reach(x) * One, Reach(y)))
<1> DEFINE nx == Opposite(x)
           ny == Opposite(y)
<1>1. /\ x \in Doubles /\ y \in Doubles /\ nx \in Doubles /\ ny \in Doubles
      /\ Opposite(nx) = x /\ Opposite(ny) = y /\ Opposite(x) = nx /\ Opposite(y) = ny
      /\ Num(x) \in Int /\ Num(y) \in Int /\ Num(nx) = -Num(x) /\ Num(ny) = -Num(y)
      /\ IsInf(nx) <=> IsInf(x)
      /\ IsInf(ny) <=> IsInf(y)
  BY EndsAre, OppositeIsDouble, OppositeTwice DEF IsInf
<1>2. /\ IsInf(x) => Num(x) > 0
      /\ IsInf(y) => Num(y) > 0
  BY EndsAre, LargestMagnitude
<1>3. /\ Size(x) = Reach(x) /\ Size(y) = Reach(y) /\ Size(nx) = -Reach(x) /\ Size(ny) = -Reach(y)
      /\ Reach(x) \in Int /\ Reach(y) \in Int
  BY <1>1, SizesAre, ReachIs
<1> HIDE DEF nx, ny
<1>4. ASSUME Num(x) >= 0, Num(y) < 0
      PROVE  /\ IsCeiling(DivUp(x, ny), From(Reach(x) * One, -Reach(y)))
             /\ IsCeiling(DivUp(nx, y), From(Reach(x) * One, -Reach(y)))
  <2>1. Divides(x, ny) /\ Divides(nx, y)
    BY <1>1, <1>2, <1>4 DEF Divides, Agree
  <2>2. /\ Dividend(x, ny) = Reach(x) /\ Divisor(ny) = -Reach(y)
        /\ Dividend(nx, y) = Reach(x) /\ Divisor(y) = -Reach(y)
    BY <1>1, <1>3, <1>4 DEF Dividend, Divisor
  <2> QED
    BY <1>1, <2>1, <2>2, QuotientIsCeiling
<1>5. ASSUME Num(x) <= 0, Num(y) > 0
      PROVE  /\ IsCeiling(DivUp(x, y), From(Reach(x) * One, Reach(y)))
             /\ IsCeiling(DivUp(nx, ny), From(Reach(x) * One, Reach(y)))
  <2>1. Divides(x, y) /\ Divides(nx, ny)
    BY <1>1, <1>2, <1>5 DEF Divides, Agree
  <2>2. /\ Dividend(x, y) = Reach(x) /\ Divisor(y) = Reach(y)
        /\ Dividend(nx, ny) = Reach(x) /\ Divisor(ny) = Reach(y)
    BY <1>1, <1>3, <1>5 DEF Dividend, Divisor
  <2> QED
    BY <1>1, <2>1, <2>2, QuotientIsCeiling
<1> QED
  BY <1>4, <1>5 DEF nx, ny

(* The bounds that the quotients of two intervals have, for a divisor on one  *)
(* side of 0: the rounded quotients that operator/= takes, 0 and the infinity. *)
LEMMA QuotientsOfBounds ==
  ASSUME NEW I \in NonEmpty, NEW J \in NonEmpty
  PROVE  LET U == Bounding(Ratios(I, J))
             L == Bounding(Opposites(Ratios(I, J)))
             nolb == Opposite(J.lb)
             norb == Opposite(J.rb)
         IN /\ Num(J.lb) < 0 =>
                 /\ Num(I.rb) >= 0 => IsCeiling(DivUp(I.rb, nolb), U)
                 /\ Num(I.lb) >= 0 => IsCeiling(DivUp(I.lb, nolb), L)
                 /\ Num(J.rb) > 0 /\ Num(I.rb) <= 0 => IsCeiling(DivUp(I.rb, J.rb), U)
                 /\ Num(J.rb) > 0 /\ Num(I.lb) <= 0 => IsCeiling(DivUp(I.lb, J.rb), L)
            /\ Num(J.rb) < 0 =>
                 /\ Num(I.lb) >= 0 => /\ IsCeiling(DivUp(I.lb, norb), U)
                                      /\ IsCeiling(DivUp(Opposite(I.lb), J.rb), U)
                 /\ Num(I.rb) >= 0 => /\ IsCeiling(DivUp(I.rb, norb), L)
                                      /\ IsCeiling(DivUp(Opposite(I.rb), J.rb), L)
                 /\ Num(J.lb) > 0 /\ Num(I.lb) <= 0 => IsCeiling(DivUp(I.lb, J.lb), U)
                 /\ Num(J.lb) > 0 /\ Num(I.rb) <= 0 => IsCeiling(DivUp(I.rb, J.lb), L)
            /\ Num(J.lb) = 0 /\ Num(J.rb) > 0 =>
                 /\ Num(I.rb) > 0 => IsCeiling(Infinity, U)
                 /\ Num(I.rb) <= 0 => IsCeiling(DivUp(I.rb, J.rb), U)
                 /\ Num(I.lb) > 0 => IsCeiling(Infinity, L)
                 /\ Num(I.lb) <= 0 => IsCeiling(DivUp(I.lb, J.rb), L)
            /\ Num(J.rb) = 0 /\ Num(J.lb) > 0 =>
                 /\ Num(I.lb) > 0 => IsCeiling(Infinity, U)
                 /\ Num(I.lb) <= 0 => /\ IsCeiling(DivUp(I.lb, J.lb), U)
                                      /\ IsCeiling(DivUp(Opposite(I.lb), nolb), U)
                 /\ Num(I.rb) > 0 => IsCeiling(Infinity, L)
                 /\ Num(I.rb) <= 0 => IsCeiling(DivUp(I.rb, J.lb), L)
<1> DEFINE a == Reach(I.lb)
           b == Reach(I.rb)
           c == Reach(J.lb)
           d == Reach(J.rb)
           U == Bounding(Ratios(I, J))
           L == Bounding(Opposites(Ratios(I, J)))
<1>1. /\ I.lb \in Ends /\ I.rb \in Ends /\ J.lb \in Ends /\ J.rb \in Ends
  BY NonEmptyIs
<1>2. /\ Num(I.lb) >= 0 => a >= 0
      /\ Num(I.lb) <= 0 => a <= 0
      /\ Num(I.lb) > 0 => a > 0
      /\ Num(I.rb) >= 0 => b >= 0
      /\ Num(I.rb) <= 0 => b <= 0
      /\ Num(I.rb) > 0 => b > 0
  <2>1. \A x \in Ends : /\ Num(x) >= 0 => Reach(x) >= 0
                        /\ Num(x) <= 0 => Reach(x) <= 0
                        /\ Num(x) > 0 => Reach(x) > 0
    BY ReachIs, EndsAre, ConstantsAre
  <2> QED
    BY <1>1, <2>1
<1>3. IsCeiling(Infinity, {})
  BY DEF IsCeiling
<1>4. /\ Num(J.lb) < 0 => /\ b >= 0 => U = From(b * One, -c)
                          /\ b <= 0 => U = From(b * One, d)
                          /\ a >= 0 => L = From(a * One, -c)
                          /\ a <= 0 => L = From(a * One, d)
      /\ Num(J.rb) < 0 => /\ a >= 0 => U = From(a * One, -d)
                          /\ a <= 0 => U = From(a * One, c)
                          /\ b >= 0 => L = From(b * One, -d)
                          /\ b <= 0 => L = From(b * One, c)
      /\ Num(J.lb) = 0 /\ Num(J.rb) > 0 =>
           /\ b > 0 => U = {}
           /\ b <= 0 => U = From(b * One, d)
           /\ a > 0 => L = {}
           /\ a <= 0 => L = From(a * One, d)
      /\ Num(J.rb) = 0 /\ Num(J.lb) > 0 =>
           /\ a > 0 => U = {}
           /\ a <= 0 => U = From(a * One, c)
           /\ b > 0 => L = {}
           /\ b <= 0 => L = From(b * One, c)
  BY QuotientsAreBounded
<1>5. /\ Num(I.lb) >= 0 /\ Num(J.lb) < 0 => IsCeiling(DivUp(I.lb, Opposite(J.lb)), From(a * One, -c))
      /\ Num(I.rb) >= 0 /\ Num(J.lb) < 0 => IsCeiling(DivUp(I.rb, Opposite(J.lb)), From(b * One, -c))
      /\ Num(I.lb) >= 0 /\ Num(J.rb) < 0 =>
           /\ IsCeiling(DivUp(I.lb, Opposite(J.rb)), From(a * One, -d))
           /\ IsCeiling(DivUp(Opposite(I.lb), J.rb), From(a * One, -d))
      /\ Num(I.rb) >= 0 /\ Num(J.rb) < 0 =>
           /\ IsCeiling(DivUp(I.rb, Opposite(J.rb)), From(b * One, -d))
           /\ IsCeiling(DivUp(Opposite(I.rb), J.rb), From(b * One, -d))
      /\ Num(I.lb) <= 0 /\ Num(J.lb) > 0 =>
           /\ IsCeiling(DivUp(I.lb, J.lb), From(a * One, c))
           /\ IsCeiling(DivUp(Opposite(I.lb), Opposite(J.lb)), From(a * One, c))
      /\ Num(I.rb) <= 0 /\ Num(J.lb) > 0 => IsCeiling(DivUp(I.rb, J.lb), From(b * One, c))
      /\ Num(I.lb) <= 0 /\ Num(J.rb) > 0 => IsCeiling(DivUp(I.lb, J.rb), From(a * One, d))
      /\ Num(I.rb) <= 0 /\ Num(J.rb) > 0 => IsCeiling(DivUp(I.rb, J.rb), From(b * One, d))
  BY <1>1, QuotientsOfEnds
<1> HIDE DEF a, b, c, d, U, L
<1>6. ASSUME Num(J.lb) < 0
      PROVE  /\ Num(I.rb) >= 0 => IsCeiling(DivUp(I.rb, Opposite(J.lb)), U)
             /\ Num(I.lb) >= 0 => IsCeiling(DivUp(I.lb, Opposite(J.lb)), L)
             /\ Num(J.rb) > 0 /\ Num(I.rb) <= 0 => IsCeiling(DivUp(I.rb, J.rb), U)
             /\ Num(J.rb) > 0 /\ Num(I.lb) <= 0 => IsCeiling(DivUp(I.lb, J.rb), L)
  BY <1>2, <1>4, <1>5, <1>6
<1>7. ASSUME Num(J.rb) < 0
      PROVE  /\ Num(I.lb) >= 0 => /\ IsCeiling(DivUp(I.lb, Opposite(J.rb)), U)
                                  /\ IsCeiling(DivUp(Opposite(I.lb), J.rb), U)
             /\ Num(I.rb) >= 0 => /\ IsCeiling(DivUp(I.rb, Opposite(J.rb)), L)
                                  /\ IsCeiling(DivUp(Opposite(I.rb), J.rb), L)
             /\ Num(J.lb) > 0 /\ Num(I.lb) <= 0 => IsCeiling(DivUp(I.lb, J.lb), U)
             /\ Num(J.lb) > 0 /\ Num(I.rb) <= 0 => IsCeiling(DivUp(I.rb, J.lb), L)
  BY <1>2, <1>4, <1>5, <1>7
<1>8. ASSUME Num(J.lb) = 0, Num(J.rb) > 0
      PROVE  /\ Num(I.rb) > 0 => IsCeiling(Infinity, U)
             /\ Num(I.rb) <= 0 => IsCeiling(DivUp(I.rb, J.rb), U)
             /\ Num(I.lb) > 0 => IsCeiling(Infinity, L)
             /\ Num(I.lb) <= 0 => IsCeiling(DivUp(I.lb, J.rb), L)
  BY <1>2, <1>3, <1>4, <1>5, <1>8
<1>9. ASSUME Num(J.rb) = 0, Num(J.lb) > 0
      PROVE  /\ Num(I.lb) > 0 => IsCeiling(Infinity, U)
             /\ Num(I.lb) <= 0 => /\ IsCeiling(DivUp(I.lb, J.lb), U)
                                  /\ IsCeiling(DivUp(Opposite(I.lb), Opposite(J.lb)), U)
             /\ Num(I.rb) > 0 => IsCeiling(Infinity, L)
             /\ Num(I.rb) <= 0 => IsCeiling(DivUp(I.rb, J.lb), L)
  BY <1>2, <1>3, <1>4, <1>5, <1>9
<1> QED
  BY <1>6, <1>7, <1>8, <1>9 DEF U, L

(* The same of a dividend bound at 0.                                         *)
LEMMA QuotientsOfZero ==
  ASSUME NEW I \in NonEmpty, NEW J \in NonEmpty, NEW neg \in BOOLEAN
  PROVE  LET U == Bounding(Ratios(I, J))
             L == Bounding(Opposites(Ratios(I, J)))
         IN /\ Num(J.lb) <= 0 /\ Num(J.rb) > 0 => /\ Num(I.rb) = 0 => IsCeiling(Zero(neg), U)
                                                  /\ Num(I.lb) = 0 => IsCeiling(Zero(neg), L)
            /\ Num(J.rb) <= 0 /\ Num(J.lb) > 0 => /\ Num(I.lb) = 0 => IsCeiling(Zero(neg), U)
                                                  /\ Num(I.rb) = 0 => IsCeiling(Zero(neg), L)
<1> DEFINE a == Reach(I.lb)
           b == Reach(I.rb)
           c == Reach(J.lb)
           d == Reach(J.rb)
           z == Zero(neg)
           U == Bounding(Ratios(I, J))
           L == Bounding(Opposites(Ratios(I, J)))
<1>1. I.lb \in Ends /\ I.rb \in Ends /\ J.lb \in Ends /\ J.rb \in Ends
  BY NonEmptyIs
<1>2. \A x \in Ends : /\ Num(x) = 0 => Reach(x) = 0
                      /\ Num(x) > 0 => Reach(x) >= 1
                      /\ Reach(x) \in Int /\ Num(x) \in Int
  BY ReachIs, EndsAre, ConstantsAre
<1>3. /\ Num(I.lb) = 0 => a = 0
      /\ Num(I.rb) = 0 => b = 0
      /\ Num(J.lb) > 0 => c >= 1
      /\ Num(J.rb) > 0 => d >= 1
      /\ a \in Int /\ b \in Int /\ c \in Int /\ d \in Int
      /\ Num(J.lb) \in Int /\ Num(J.rb) \in Int
  BY <1>1, <1>2
<1>4. \A r, k \in Int : r = 0 /\ k >= 1 => IsCeiling(z, From(r * One, k))
  BY ZeroOverIsCeiling
<1>5. /\ Num(J.lb) < 0 => /\ b <= 0 => U = From(b * One, d)
                          /\ a <= 0 => L = From(a * One, d)
      /\ Num(J.rb) < 0 => /\ a <= 0 => U = From(a * One, c)
                          /\ b <= 0 => L = From(b * One, c)
      /\ Num(J.lb) = 0 /\ Num(J.rb) > 0 =>
           /\ b <= 0 => U = From(b * One, d)
           /\ a <= 0 => L = From(a * One, d)
      /\ Num(J.rb) = 0 /\ Num(J.lb) > 0 =>
           /\ a <= 0 => U = From(a * One, c)
           /\ b <= 0 => L = From(b * One, c)
  BY QuotientsAreBounded
<1> HIDE DEF a, b, c, d, z, U, L
<1>6. ASSUME Num(J.lb) <= 0, Num(J.rb) > 0
      PROVE  /\ Num(I.rb) = 0 => IsCeiling(z, U)
             /\ Num(I.lb) = 0 => IsCeiling(z, L)
  <2>1. Num(J.lb) < 0 \/ Num(J.lb) = 0
    BY <1>3, <1>6
  <2>2. /\ b <= 0 => U = From(b * One, d)
        /\ a <= 0 => L = From(a * One, d)
    BY <1>5, <1>6, <2>1
  <2> QED
    BY <1>3, <1>4, <1>6, <2>2
<1>7. ASSUME Num(J.rb) <= 0, Num(J.lb) > 0
      PROVE  /\ Num(I.lb) = 0 => IsCeiling(z, U)
             /\ Num(I.rb) = 0 => IsCeiling(z, L)
  <2>1. Num(J.rb) < 0 \/ Num(J.rb) = 0
    BY <1>3, <1>7
  <2>2. /\ a <= 0 => U = From(a * One, c)
        /\ b <= 0 => L = From(b * One, c)
    BY <1>5, <1>7, <2>1
  <2> QED
    BY <1>3, <1>4, <1>7, <2>2
<1> QED
  BY <1>6, <1>7 DEF z, U, L

(* The interval of the ceilings of the quotients has the hull's bounds.       *)
LEMMA QuotientsMakeHull ==
  ASSUME NEW I, NEW J, NEW K \in NonEmpty, Ratios(I, J) # {},
         IsCeiling(K.lb, Bounding(Opposites(Ratios(I, J)))),
         IsCeiling(K.rb, Bounding(Ratios(I, J)))
  PROVE  Value(K) = Hull(Ratios(I, J))
<1>1. Value(K) = <<Num(K.lb), Num(K.rb)>>
  BY NonEmptyIs DEF Value
<1>2. Hull(Ratios(I, J)) = <<Num(K.lb), Num(K.rb)>>
  BY HullIs
<1> QED
  BY <1>1, <1>2

(* There are quotients by any interval that has other numbers than 0.         *)
LEMMA RatiosAre ==
  ASSUME NEW I \in NonEmpty, NEW J \in NonEmpty
  PROVE  /\ Ratios(I, J) = {} <=> Num(J.lb) = 0 /\ Num(J.rb) = 0
         /\ Ratios(I, J) = RatiosOf(Samples(I), Samples(J) \ {0})
<1> DEFINE T == Samples(J) \ {0}
<1>1. Ratios(I, J) = RatiosOf(Samples(I), T)
  BY DEF Ratios, RatiosOf
<1>2. /\ Num(J.lb) < 0 => Extremes(T, -Bottom(J), Top(J))
      /\ Num(J.rb) < 0 => Extremes(T, -Bottom(J), Top(J))
      /\ Num(J.lb) = 0 /\ Num(J.rb) > 0 => Extremes(T, 1, Top(J))
      /\ Num(J.rb) = 0 /\ Num(J.lb) > 0 => Extremes(T, -Bottom(J), -1)
      /\ Num(J.lb) > 0 /\ Num(J.rb) > 0 => 1 \in T
      /\ Num(J.lb) = 0 /\ Num(J.rb) = 0 => T = {}
  BY DivisorsAre
<1>3. Num(J.lb) \in Int /\ Num(J.rb) \in Int
  BY NonEmptyIs
<1>4. Samples(I) # {}
  BY EmptyHasNone
<1> HIDE DEF T
<1>5. \A c, e : Extremes(T, c, e) => T # {}
  BY DEF Extremes
<1>6. T = {} <=> Num(J.lb) = 0 /\ Num(J.rb) = 0
  BY <1>2, <1>3, <1>5
<1>7. RatiosOf(Samples(I), T) = {} <=> T = {}
  <2>1. PICK x : x \in Samples(I)
    BY <1>4
  <2>2. \A y \in T : Ratio(x, y) \in RatiosOf(Samples(I), T)
    BY <2>1 DEF RatiosOf
  <2>3. T = {} => RatiosOf(Samples(I), T) = {}
    BY DEF RatiosOf
  <2> QED
    BY <2>2, <2>3
<1> QED
  BY <1>1, <1>6, <1>7 DEF T

(* The quotients that operator/= takes of a divisor on one side of 0 are those *)
(* of the hull.                                                               *)
LEMMA QuotientsGiveHull ==
  ASSUME NEW I \in NonEmpty, NEW J \in NonEmpty, NEW s, NEW t, NEW same, same => Sse,
         Sse \in BOOLEAN, s = Class(I), t = Class(J), s # "Z", t \in {"N1", "P1"}
  PROVE  Value(QuotientOneSide(<<s, t>>, I, J, same)) = Hull(Ratios(I, J))
<1> DEFINE K == QuotientOneSide(<<s, t>>, I, J, same)
           U == Bounding(Ratios(I, J))
           L == Bounding(Opposites(Ratios(I, J)))
           from0 == Zero(~Sse)
           to0 == Zero(FALSE)
<1>1. K \in NonEmpty
  BY QuotientsAreInterval
<1>2. /\ s = "N1" => Num(I.rb) < 0 /\ Num(I.lb) > 0
      /\ s = "N0" => Num(I.rb) = 0 /\ Num(I.lb) > 0
      /\ s = "M"  => Num(I.rb) > 0 /\ Num(I.lb) > 0
      /\ s = "P0" => Num(I.rb) > 0 /\ Num(I.lb) = 0
      /\ s = "P1" => Num(I.rb) > 0 /\ Num(I.lb) < 0
      /\ t = "N1" => Num(J.rb) < 0 /\ Num(J.lb) > 0
      /\ t = "P1" => Num(J.rb) > 0 /\ Num(J.lb) < 0
  BY ClassIs
<1>3. /\ s = "N1" \/ s = "N0" \/ s = "M" \/ s = "P0" \/ s = "P1"
      /\ t = "N1" \/ t = "P1"
  BY ClassIs
<1>4. /\ Num(I.lb) \in Int /\ Num(I.rb) \in Int /\ Num(J.lb) \in Int /\ Num(J.rb) \in Int
  BY NonEmptyIs
<1>5. /\ Num(J.lb) < 0 =>
           /\ Num(I.rb) >= 0 => IsCeiling(DivUp(I.rb, Opposite(J.lb)), U)
           /\ Num(I.lb) >= 0 => IsCeiling(DivUp(I.lb, Opposite(J.lb)), L)
           /\ Num(J.rb) > 0 /\ Num(I.rb) <= 0 => IsCeiling(DivUp(I.rb, J.rb), U)
           /\ Num(J.rb) > 0 /\ Num(I.lb) <= 0 => IsCeiling(DivUp(I.lb, J.rb), L)
      /\ Num(J.rb) < 0 =>
           /\ Num(I.lb) >= 0 => /\ IsCeiling(DivUp(I.lb, Opposite(J.rb)), U)
                                /\ IsCeiling(DivUp(Opposite(I.lb), J.rb), U)
           /\ Num(I.rb) >= 0 => /\ IsCeiling(DivUp(I.rb, Opposite(J.rb)), L)
                                /\ IsCeiling(DivUp(Opposite(I.rb), J.rb), L)
           /\ Num(J.lb) > 0 /\ Num(I.lb) <= 0 => IsCeiling(DivUp(I.lb, J.lb), U)
           /\ Num(J.lb) > 0 /\ Num(I.rb) <= 0 => IsCeiling(DivUp(I.rb, J.lb), L)
  BY QuotientsOfBounds
<1>6. \A neg \in BOOLEAN :
        /\ Num(J.lb) <= 0 /\ Num(J.rb) > 0 => /\ Num(I.rb) = 0 => IsCeiling(Zero(neg), U)
                                              /\ Num(I.lb) = 0 => IsCeiling(Zero(neg), L)
        /\ Num(J.rb) <= 0 /\ Num(J.lb) > 0 => /\ Num(I.lb) = 0 => IsCeiling(Zero(neg), U)
                                              /\ Num(I.rb) = 0 => IsCeiling(Zero(neg), L)
  BY QuotientsOfZero
<1>7. \A z \in {from0, to0} :
        /\ Num(J.lb) <= 0 /\ Num(J.rb) > 0 => /\ Num(I.rb) = 0 => IsCeiling(z, U)
                                              /\ Num(I.lb) = 0 => IsCeiling(z, L)
        /\ Num(J.rb) <= 0 /\ Num(J.lb) > 0 => /\ Num(I.lb) = 0 => IsCeiling(z, U)
                                              /\ Num(I.rb) = 0 => IsCeiling(z, L)
  <2>1. (~Sse) \in BOOLEAN /\ FALSE \in BOOLEAN
    OBVIOUS
  <2> HIDE DEF U, L
  <2> QED
    BY <1>6, <2>1
<1>8. left(I) = Opposite(I.lb)
  BY DEF left
<1> HIDE DEF U, L, from0, to0
<1>9. ASSUME NEW lb, NEW rb, K = Bounds(lb, rb), IsCeiling(lb, L), IsCeiling(rb, U)
      PROVE  Value(K) = Hull(Ratios(I, J))
  <2>1. K.lb = lb /\ K.rb = rb
    BY <1>9 DEF Bounds
  <2> HIDE DEF K
  <2>3. Num(J.rb) # 0
    BY <1>2, <1>3, <1>4
  <2>2. Ratios(I, J) # {}
    BY <2>3, RatiosAre
  <2> QED
    BY <1>1, <1>9, <2>1, <2>2, QuotientsMakeHull DEF U, L
<1>10. CASE t = "P1"
  <2>1. Num(J.lb) < 0 /\ Num(J.lb) <= 0 /\ Num(J.rb) > 0
    BY <1>2, <1>4, <1>10
  <2>2. CASE s = "N1"
    <3>1. K = Bounds(DivUp(I.lb, Opposite(J.lb)), DivUp(I.rb, J.rb))
      BY <1>10, <2>2 DEF QuotientOneSide
    <3> HIDE DEF K
    <3>2. IsCeiling(DivUp(I.lb, Opposite(J.lb)), L) /\ IsCeiling(DivUp(I.rb, J.rb), U)
      BY <1>2, <1>4, <1>5, <2>1, <2>2
    <3> QED
      BY <1>9, <3>1, <3>2 DEF K
  <2>3. CASE s = "N0"
    <3>1. K = Bounds(DivUp(I.lb, Opposite(J.lb)), to0)
      BY <1>10, <2>3 DEF QuotientOneSide, to0
    <3> HIDE DEF K
    <3>2. IsCeiling(DivUp(I.lb, Opposite(J.lb)), L) /\ IsCeiling(to0, U)
      BY <1>2, <1>4, <1>5, <1>7, <2>1, <2>3
    <3> QED
      BY <1>9, <3>1, <3>2 DEF K
  <2>4. CASE s = "M"
    <3>1. K = Bounds(DivUp(I.lb, Opposite(J.lb)), DivUp(I.rb, Opposite(J.lb)))
      BY <1>10, <2>4 DEF QuotientOneSide
    <3> HIDE DEF K
    <3>2. IsCeiling(DivUp(I.lb, Opposite(J.lb)), L) /\ IsCeiling(DivUp(I.rb, Opposite(J.lb)), U)
      BY <1>2, <1>4, <1>5, <2>1, <2>4
    <3> QED
      BY <1>9, <3>1, <3>2 DEF K
  <2>5. CASE s = "P0"
    <3>1. K = Bounds(from0, DivUp(I.rb, Opposite(J.lb)))
      BY <1>10, <2>5 DEF QuotientOneSide, from0
    <3> HIDE DEF K
    <3>2. IsCeiling(from0, L) /\ IsCeiling(DivUp(I.rb, Opposite(J.lb)), U)
      BY <1>2, <1>4, <1>5, <1>7, <2>1, <2>5
    <3> QED
      BY <1>9, <3>1, <3>2 DEF K
  <2>6. CASE s = "P1"
    <3>1. K = Bounds(DivUp(I.lb, J.rb), DivUp(I.rb, Opposite(J.lb)))
      BY <1>10, <2>6 DEF QuotientOneSide
    <3> HIDE DEF K
    <3>2. IsCeiling(DivUp(I.lb, J.rb), L) /\ IsCeiling(DivUp(I.rb, Opposite(J.lb)), U)
      BY <1>2, <1>4, <1>5, <2>1, <2>6
    <3> QED
      BY <1>9, <3>1, <3>2 DEF K
  <2> QED
    BY <1>3, <2>2, <2>3, <2>4, <2>5, <2>6
<1>11. CASE t = "N1"
  <2>1. Num(J.rb) < 0 /\ Num(J.rb) <= 0 /\ Num(J.lb) > 0
    BY <1>2, <1>4, <1>11
  <2>2. CASE s = "N1"
    <3>1. K = Bounds(DivUp(I.rb, J.lb), DivUp(I.lb, Opposite(J.rb)))
      BY <1>11, <2>2 DEF QuotientOneSide
    <3> HIDE DEF K
    <3>2. IsCeiling(DivUp(I.rb, J.lb), L) /\ IsCeiling(DivUp(I.lb, Opposite(J.rb)), U)
      BY <1>2, <1>4, <1>5, <2>1, <2>2
    <3> QED
      BY <1>9, <3>1, <3>2 DEF K
  <2>3. CASE s = "N0"
    <3>1. K = Bounds(from0, DivUp(Opposite(I.lb), J.rb))
      BY <1>8, <1>11, <2>3 DEF QuotientOneSide, from0
    <3> HIDE DEF K
    <3>2. IsCeiling(from0, L) /\ IsCeiling(DivUp(Opposite(I.lb), J.rb), U)
      BY <1>2, <1>4, <1>5, <1>7, <2>1, <2>3
    <3> QED
      BY <1>9, <3>1, <3>2 DEF K
  <2>4. CASE s = "M"
    <3>1. K = Bounds(DivUp(I.rb, Opposite(J.rb)), DivUp(I.lb, Opposite(J.rb)))
      BY <1>11, <2>4 DEF QuotientOneSide
    <3> HIDE DEF K
    <3>2. IsCeiling(DivUp(I.rb, Opposite(J.rb)), L) /\ IsCeiling(DivUp(I.lb, Opposite(J.rb)), U)
      BY <1>2, <1>4, <1>5, <2>1, <2>4
    <3> QED
      BY <1>9, <3>1, <3>2 DEF K
  <2>5. CASE s = "P0"
    <3>1. K = Bounds(DivUp(I.rb, Opposite(J.rb)), to0)
      BY <1>11, <2>5 DEF QuotientOneSide, to0
    <3> HIDE DEF K
    <3>2. IsCeiling(DivUp(I.rb, Opposite(J.rb)), L) /\ IsCeiling(to0, U)
      BY <1>2, <1>4, <1>5, <1>7, <2>1, <2>5
    <3> QED
      BY <1>9, <3>1, <3>2 DEF K
  <2>6. CASE s = "P1"
    <3>1. K = Bounds(DivUp(Opposite(I.rb), J.rb), DivUp(I.lb, J.lb))
      BY <1>11, <2>6 DEF QuotientOneSide
    <3> HIDE DEF K
    <3>2. IsCeiling(DivUp(Opposite(I.rb), J.rb), L) /\ IsCeiling(DivUp(I.lb, J.lb), U)
      BY <1>2, <1>4, <1>5, <2>1, <2>6
    <3> QED
      BY <1>9, <3>1, <3>2 DEF K
  <2> QED
    BY <1>3, <2>2, <2>3, <2>4, <2>5, <2>6
<1> QED
  BY <1>3, <1>10, <1>11

(* The same for a divisor that ends at 0.                                     *)
LEMMA QuotientsTo0GiveHull ==
  ASSUME NEW I \in NonEmpty, NEW J \in NonEmpty, NEW s, NEW t,
         Sse \in BOOLEAN, s = Class(I), t = Class(J), s # "Z", t \in {"N0", "P0"}
  PROVE  Value(QuotientTo0(<<s, t>>, I, J)) = Hull(Ratios(I, J))
<1> DEFINE K == QuotientTo0(<<s, t>>, I, J)
           U == Bounding(Ratios(I, J))
           L == Bounding(Opposites(Ratios(I, J)))
           z0 == Zero(FALSE)
           z1 == Zero(TRUE)
<1>1. K \in NonEmpty
  BY QuotientsTo0AreInterval
<1>2. /\ s = "N1" => Num(I.rb) < 0 /\ Num(I.lb) > 0
      /\ s = "N0" => Num(I.rb) = 0 /\ Num(I.lb) > 0
      /\ s = "M"  => Num(I.rb) > 0 /\ Num(I.lb) > 0
      /\ s = "P0" => Num(I.rb) > 0 /\ Num(I.lb) = 0
      /\ s = "P1" => Num(I.rb) > 0 /\ Num(I.lb) < 0
      /\ t = "N0" => Num(J.rb) = 0 /\ Num(J.lb) > 0
      /\ t = "P0" => Num(J.rb) > 0 /\ Num(J.lb) = 0
  BY ClassIs
<1>3. /\ s = "N1" \/ s = "N0" \/ s = "M" \/ s = "P0" \/ s = "P1"
      /\ t = "N0" \/ t = "P0"
  BY ClassIs
<1>4. /\ Num(I.lb) \in Int /\ Num(I.rb) \in Int /\ Num(J.lb) \in Int /\ Num(J.rb) \in Int
  BY NonEmptyIs
<1>5. /\ Num(J.lb) = 0 /\ Num(J.rb) > 0 =>
           /\ Num(I.rb) > 0 => IsCeiling(Infinity, U)
           /\ Num(I.rb) <= 0 => IsCeiling(DivUp(I.rb, J.rb), U)
           /\ Num(I.lb) > 0 => IsCeiling(Infinity, L)
           /\ Num(I.lb) <= 0 => IsCeiling(DivUp(I.lb, J.rb), L)
      /\ Num(J.rb) = 0 /\ Num(J.lb) > 0 =>
           /\ Num(I.lb) > 0 => IsCeiling(Infinity, U)
           /\ Num(I.lb) <= 0 => /\ IsCeiling(DivUp(I.lb, J.lb), U)
                                /\ IsCeiling(DivUp(Opposite(I.lb), Opposite(J.lb)), U)
           /\ Num(I.rb) > 0 => IsCeiling(Infinity, L)
           /\ Num(I.rb) <= 0 => IsCeiling(DivUp(I.rb, J.lb), L)
  BY QuotientsOfBounds
<1>6. \A neg \in BOOLEAN :
        /\ Num(J.lb) <= 0 /\ Num(J.rb) > 0 => /\ Num(I.rb) = 0 => IsCeiling(Zero(neg), U)
                                              /\ Num(I.lb) = 0 => IsCeiling(Zero(neg), L)
        /\ Num(J.rb) <= 0 /\ Num(J.lb) > 0 => /\ Num(I.lb) = 0 => IsCeiling(Zero(neg), U)
                                              /\ Num(I.rb) = 0 => IsCeiling(Zero(neg), L)
  BY QuotientsOfZero
<1>7. \A z \in {z0, z1} :
        /\ Num(J.lb) <= 0 /\ Num(J.rb) > 0 => /\ Num(I.rb) = 0 => IsCeiling(z, U)
                                              /\ Num(I.lb) = 0 => IsCeiling(z, L)
        /\ Num(J.rb) <= 0 /\ Num(J.lb) > 0 => /\ Num(I.lb) = 0 => IsCeiling(z, U)
                                              /\ Num(I.rb) = 0 => IsCeiling(z, L)
  <2>1. TRUE \in BOOLEAN /\ FALSE \in BOOLEAN
    OBVIOUS
  <2> HIDE DEF U, L
  <2> QED
    BY <1>6, <2>1
<1>8. /\ left(I) = Opposite(I.lb) /\ left(J) = Opposite(J.lb)
      /\ positive = Bounds(z1, Infinity) /\ negative = Bounds(Infinity, z0)
      /\ universe = Bounds(Infinity, Infinity)
  BY DEF left, positive, negative, universe
<1>9. K = CASE <<s, t>> = <<"N1", "N0">> -> Bounds(DivUp(I.rb, J.lb), Infinity)
            [] <<s, t>> = <<"N1", "P0">> -> Bounds(Infinity, DivUp(I.rb, J.rb))
            [] <<s, t>> = <<"N0", "N0">> -> Bounds(z1, Infinity)
            [] <<s, t>> = <<"N0", "P0">> -> Bounds(Infinity, z0)
            [] <<s, t>> = <<"P0", "N0">> -> Bounds(Infinity, z0)
            [] <<s, t>> = <<"P0", "P0">> -> IF Sse THEN Bounds(z1, Infinity) ELSE Bounds(z0, Infinity)
            [] <<s, t>> = <<"P1", "N0">> -> Bounds(Infinity, DivUp(Opposite(I.lb), Opposite(J.lb)))
            [] <<s, t>> = <<"P1", "P0">> -> Bounds(DivUp(I.lb, J.rb), Infinity)
            [] OTHER                     -> Bounds(Infinity, Infinity)
  BY <1>8 DEF QuotientTo0
<1> HIDE DEF K, U, L, z0, z1
<1>10. ASSUME NEW lb, NEW rb, K = Bounds(lb, rb), IsCeiling(lb, L), IsCeiling(rb, U)
       PROVE  Value(K) = Hull(Ratios(I, J))
  <2>1. K.lb = lb /\ K.rb = rb
    BY <1>10 DEF Bounds
  <2>2. ~(Num(J.lb) = 0 /\ Num(J.rb) = 0)
    BY <1>2, <1>3, <1>4
  <2>3. Ratios(I, J) # {}
    BY <2>2, RatiosAre
  <2> QED
    BY <1>1, <1>10, <2>1, <2>3, QuotientsMakeHull DEF U, L
<1>11. CASE t = "N0"
  <2>1. Num(J.rb) = 0 /\ Num(J.rb) <= 0 /\ Num(J.lb) > 0
    BY <1>2, <1>4, <1>11
  <2>2. /\ s = "N1" => K = Bounds(DivUp(I.rb, J.lb), Infinity)
        /\ s = "N0" => K = Bounds(z1, Infinity)
        /\ s = "M" => K = Bounds(Infinity, Infinity)
        /\ s = "P0" => K = Bounds(Infinity, z0)
        /\ s = "P1" => K = Bounds(Infinity, DivUp(Opposite(I.lb), Opposite(J.lb)))
    BY <1>9, <1>11
  <2>3. /\ s = "N1" => IsCeiling(DivUp(I.rb, J.lb), L) /\ IsCeiling(Infinity, U)
        /\ s = "N0" => IsCeiling(z1, L) /\ IsCeiling(Infinity, U)
        /\ s = "M" => IsCeiling(Infinity, L) /\ IsCeiling(Infinity, U)
        /\ s = "P0" => IsCeiling(Infinity, L) /\ IsCeiling(z0, U)
        /\ s = "P1" => IsCeiling(Infinity, L) /\ IsCeiling(DivUp(Opposite(I.lb), Opposite(J.lb)), U)
    BY <1>2, <1>4, <1>5, <1>7, <2>1
  <2>4. CASE s = "N1"
    <3>1. K = Bounds(DivUp(I.rb, J.lb), Infinity)
      BY <2>2, <2>4
    <3>2. IsCeiling(DivUp(I.rb, J.lb), L) /\ IsCeiling(Infinity, U)
      BY <2>3, <2>4
    <3> QED
      BY <1>10, <3>1, <3>2 DEF K
  <2>5. CASE s = "N0"
    <3>1. K = Bounds(z1, Infinity)
      BY <2>2, <2>5
    <3>2. IsCeiling(z1, L) /\ IsCeiling(Infinity, U)
      BY <2>3, <2>5
    <3> QED
      BY <1>10, <3>1, <3>2 DEF K
  <2>6. CASE s = "M"
    <3>1. K = Bounds(Infinity, Infinity)
      BY <2>2, <2>6
    <3>2. IsCeiling(Infinity, L) /\ IsCeiling(Infinity, U)
      BY <2>3, <2>6
    <3> QED
      BY <1>10, <3>1, <3>2 DEF K
  <2>7. CASE s = "P0"
    <3>1. K = Bounds(Infinity, z0)
      BY <2>2, <2>7
    <3>2. IsCeiling(Infinity, L) /\ IsCeiling(z0, U)
      BY <2>3, <2>7
    <3> QED
      BY <1>10, <3>1, <3>2 DEF K
  <2>8. CASE s = "P1"
    <3>1. K = Bounds(Infinity, DivUp(Opposite(I.lb), Opposite(J.lb)))
      BY <2>2, <2>8
    <3>2. IsCeiling(Infinity, L) /\ IsCeiling(DivUp(Opposite(I.lb), Opposite(J.lb)), U)
      BY <2>3, <2>8
    <3> QED
      BY <1>10, <3>1, <3>2 DEF K
  <2> QED
    BY <1>3, <2>4, <2>5, <2>6, <2>7, <2>8
<1>12. CASE t = "P0"
  <2>1. Num(J.lb) = 0 /\ Num(J.lb) <= 0 /\ Num(J.rb) > 0
    BY <1>2, <1>4, <1>12
  <2>2. /\ s = "N1" => K = Bounds(Infinity, DivUp(I.rb, J.rb))
        /\ s = "N0" => K = Bounds(Infinity, z0)
        /\ s = "M" => K = Bounds(Infinity, Infinity)
        /\ s = "P0" => K = Bounds(z1, Infinity) \/ K = Bounds(z0, Infinity)
        /\ s = "P1" => K = Bounds(DivUp(I.lb, J.rb), Infinity)
    BY <1>9, <1>12
  <2>3. /\ s = "N1" => IsCeiling(Infinity, L) /\ IsCeiling(DivUp(I.rb, J.rb), U)
        /\ s = "N0" => IsCeiling(Infinity, L) /\ IsCeiling(z0, U)
        /\ s = "M" => IsCeiling(Infinity, L) /\ IsCeiling(Infinity, U)
        /\ s = "P0" => IsCeiling(z0, L) /\ IsCeiling(z1, L) /\ IsCeiling(Infinity, U)
        /\ s = "P1" => IsCeiling(DivUp(I.lb, J.rb), L) /\ IsCeiling(Infinity, U)
    BY <1>2, <1>4, <1>5, <1>7, <2>1
  <2>4. CASE s = "N1"
    <3>1. K = Bounds(Infinity, DivUp(I.rb, J.rb))
      BY <2>2, <2>4
    <3>2. IsCeiling(Infinity, L) /\ IsCeiling(DivUp(I.rb, J.rb), U)
      BY <2>3, <2>4
    <3> QED
      BY <1>10, <3>1, <3>2 DEF K
  <2>5. CASE s = "N0"
    <3>1. K = Bounds(Infinity, z0)
      BY <2>2, <2>5
    <3>2. IsCeiling(Infinity, L) /\ IsCeiling(z0, U)
      BY <2>3, <2>5
    <3> QED
      BY <1>10, <3>1, <3>2 DEF K
  <2>6. CASE s = "M"
    <3>1. K = Bounds(Infinity, Infinity)
      BY <2>2, <2>6
    <3>2. IsCeiling(Infinity, L) /\ IsCeiling(Infinity, U)
      BY <2>3, <2>6
    <3> QED
      BY <1>10, <3>1, <3>2 DEF K
  <2>7. CASE s = "P0"
    <3>1. IsCeiling(z0, L) /\ IsCeiling(z1, L) /\ IsCeiling(Infinity, U)
      BY <2>3, <2>7
    <3>2. CASE K = Bounds(z0, Infinity)
      BY <1>10, <3>1, <3>2 DEF K
    <3>3. CASE K = Bounds(z1, Infinity)
      BY <1>10, <3>1, <3>3 DEF K
    <3> QED
      BY <2>2, <2>7, <3>2, <3>3
  <2>8. CASE s = "P1"
    <3>1. K = Bounds(DivUp(I.lb, J.rb), Infinity)
      BY <2>2, <2>8
    <3>2. IsCeiling(DivUp(I.lb, J.rb), L) /\ IsCeiling(Infinity, U)
      BY <2>3, <2>8
    <3> QED
      BY <1>10, <3>1, <3>2 DEF K
  <2> QED
    BY <1>3, <2>4, <2>5, <2>6, <2>7, <2>8
<1> QED
  BY <1>3, <1>11, <1>12

(* The quotients by the reals around 0 have no bound, but those of 0.          *)
LEMMA QuotientsAroundZero ==
  ASSUME NEW I \in NonEmpty, NEW J \in NonEmpty, Num(J.lb) > 0, Num(J.rb) > 0,
         Num(I.lb) # 0 \/ Num(I.rb) # 0, Sse \in BOOLEAN
  PROVE  Value(universe) = Hull(Ratios(I, J))
<1> DEFINE S == Samples(I)
           T == Samples(J) \ {0}
           R == RatiosOf(S, T)
           n == -1
           k == 1
           up == Bounding(R)
           down == Bounding(Opposites(R))
<1>1. /\ n \in Int /\ n <= -1 /\ -n = 1
      /\ k \in Int /\ k >= 1 /\ k = 1
  <2>1. \A r \in Int : r + 1 = 0 => -r = 1
    OBVIOUS
  <2>2. \A r \in Int : r + 1 = 0 => r <= -1
    OBVIOUS
  <2>3. n \in Int /\ n + 1 = 0 /\ k \in Int /\ k >= 1 /\ k = 1
    OBVIOUS
  <2> HIDE DEF n, k
  <2> QED
    BY <2>1, <2>2, <2>3
<1> HIDE DEF k
<1>2. k \in T /\ n \in T /\ S \subseteq Int /\ T \subseteq Int
  <2>1. \A x \in S : x \in Int
    BY SamplesAre
  <2> QED
    BY <2>1, DivisorsAre DEF n, k
<1> HIDE DEF n
<1>3. \A x \in Int : Extremes({x}, x, x)
  BY DEF Extremes
<1>4. ASSUME NEW x \in S, NEW y \in T
      PROVE  /\ RatiosOf({x}, {y}) \subseteq R
             /\ Opposites(RatiosOf({x}, {y})) \subseteq Opposites(R)
  BY DEF RatiosOf, Opposites
<1>11. ASSUME NEW x \in Int
       PROVE  /\ x >= 0 => /\ Bounding(RatiosOf({x}, {k})) = From(x * One, 1)
                           /\ Bounding(Opposites(RatiosOf({x}, {n}))) = From(x * One, 1)
              /\ x <= 0 => /\ Bounding(RatiosOf({x}, {n})) = From((-x) * One, 1)
                           /\ Bounding(Opposites(RatiosOf({x}, {k}))) = From((-x) * One, 1)
  <2>1. Extremes({x}, x, x) /\ Extremes({k}, k, k) /\ Extremes({n}, n, n)
    BY <1>1, <1>3
  <2>2. /\ x >= 0 => Bounding(RatiosOf({x}, {k})) = From(x * One, k)
        /\ x <= 0 => Bounding(Opposites(RatiosOf({x}, {k}))) = From((-x) * One, k)
    BY <1>1, <2>1, RatiosAreBounded
  <2>3. /\ x >= 0 => Bounding(Opposites(RatiosOf({x}, {n}))) = From(x * One, -n)
        /\ x <= 0 => Bounding(RatiosOf({x}, {n})) = From((-x) * One, -n)
    BY <1>1, <2>1, RatiosAreBounded
  <2> QED
    BY <1>1, <2>2, <2>3
<1>12. ASSUME NEW x \in S, NEW y \in T, NEW r \in Int, r >= 1
       PROVE  /\ Bounding(RatiosOf({x}, {y})) = From((r * Fine) * One, 1) => up = {}
              /\ Bounding(Opposites(RatiosOf({x}, {y}))) = From((r * Fine) * One, 1) => down = {}
  <2>1. From((r * Fine) * One, 1) = {}
    BY <1>12, FromOfRatios
  <2>2. /\ Bounding(RatiosOf({x}, {y})) = {} => up = {}
        /\ Bounding(Opposites(RatiosOf({x}, {y}))) = {} => down = {}
    BY <1>4, MoreAreUnbounded
  <2> QED
    BY <2>1, <2>2
<1> HIDE DEF R, S, T, up, down
<1>5. ASSUME NEW x \in S, NEW r \in Int, r >= 1, x = r * Fine PROVE up = {} /\ down = {}
  <2>1. x >= 0 /\ x \in Int
    BY <1>2, <1>5, ConstantsAre, SignsMultiply
  <2> QED
    BY <1>2, <1>5, <1>11, <1>12, <2>1
<1>6. ASSUME NEW x \in S, NEW r \in Int, r >= 1, -x = r * Fine PROVE up = {} /\ down = {}
  <2>1. x <= 0 /\ x \in Int
    <3>1. r * Fine >= 0 /\ r * Fine \in Int
      BY <1>6, ConstantsAre, SignsMultiply
    <3>2. x \in Int
      BY <1>2
    <3> QED
      BY <1>6, <3>1, <3>2
  <2> QED
    BY <1>2, <1>6, <1>11, <1>12, <2>1
<1>7. up = {} /\ down = {}
  <2>1. /\ I.lb \in Ends /\ I.rb \in Ends /\ Num(I.lb) \in Int /\ Num(I.rb) \in Int
        /\ Num(I.lb) + Num(I.rb) >= 0
    BY NonEmptyIs
  <2>2. Num(I.lb) > 0 \/ Num(I.rb) > 0
    BY <2>1
  <2>3. \A x \in Ends : Reach(x) \in Int /\ (Num(x) > 0 => Reach(x) >= 1)
    BY ReachIs, EndsAre
  <2>4. /\ Top(I) \in S /\ Top(I) = Reach(I.rb) * Fine
        /\ -Bottom(I) \in S /\ Bottom(I) = Reach(I.lb) * Fine /\ -(-Bottom(I)) = Bottom(I)
    <3>1. Bottom(I) \in Int /\ Top(I) \in S /\ -Bottom(I) \in S
      BY SamplesAre DEF S
    <3>2. -(-Bottom(I)) = Bottom(I)
      BY <3>1
    <3> QED
      BY <3>1, <3>2 DEF Top, Bottom, S
  <2>5. CASE Num(I.rb) > 0
    BY <1>5, <2>1, <2>3, <2>4, <2>5
  <2>6. CASE Num(I.lb) > 0
    BY <1>6, <2>1, <2>3, <2>4, <2>6
  <2> QED
    BY <2>2, <2>5, <2>6
<1>8. /\ universe \in NonEmpty /\ universe.lb = Infinity /\ universe.rb = Infinity
  BY ConstantsAreIntervals DEF universe, Bounds
<1>9. IsCeiling(Infinity, {})
  BY DEF IsCeiling
<1>10. Ratios(I, J) = R /\ Ratios(I, J) # {}
  <2>1. Num(J.lb) # 0
    OBVIOUS
  <2> QED
    BY <2>1, RatiosAre DEF R, S, T
<1> QED
  BY <1>7, <1>8, <1>9, <1>10, QuotientsMakeHull DEF up, down

(* The interval of 0 has no other real.                                       *)
LEMMA ZeroIsItsSample ==
  ASSUME NEW K \in NonEmpty, Num(K.lb) = 0, Num(K.rb) = 0
  PROVE  Samples(K) = {0}
<1>1. Top(K) <= 0 /\ -Bottom(K) >= 0 /\ Top(K) >= 0
  BY SamplesAreOnSides
<1>2. /\ Top(K) \in Samples(K) /\ Top(K) \in Int /\ Bottom(K) \in Int
      /\ \A x \in Samples(K) : x \in Int /\ -Bottom(K) <= x /\ x <= Top(K)
  BY SamplesAre
<1>3. \A x : x \in Samples(K) <=> x = 0
  BY <1>1, <1>2
<1> QED
  BY <1>3

(* The quotients of 0 are 0.                                                  *)
LEMMA ZeroIsDivided ==
  ASSUME NEW I \in NonEmpty, NEW J \in NonEmpty, Num(I.lb) = 0, Num(I.rb) = 0,
         Num(J.lb) # 0 \/ Num(J.rb) # 0, Sse \in BOOLEAN
  PROVE  Value(zero) = Hull(Ratios(I, J))
<1> DEFINE R == Ratios(I, J)
           T == Samples(J) \ {0}
<1>1. R # {} /\ R = RatiosOf({0}, T)
  BY RatiosAre, ZeroIsItsSample
<1>2. \A y \in T : y \in Int /\ y # 0
  BY SamplesAre
<1>3. \A n, d : <<n, d>>[1] = n /\ <<n, d>>[2] = d
  OBVIOUS
<1>4. ASSUME NEW x \in Int, x >= 0, x <= 0, NEW y \in T
      PROVE  /\ Ratio(x, y)[1] \in Int /\ Ratio(x, y)[1] >= 0 /\ Ratio(x, y)[1] <= 0
             /\ Ratio(x, y)[2] \in Int /\ Ratio(x, y)[2] >= 1
  <2> DEFINE m == x * One
  <2>1. One \in Int /\ One >= 0
    BY LargestMagnitude
  <2>2. m \in Int /\ m >= 0 /\ m <= 0
    BY <1>4, <2>1, SignsMultiply
  <2>3. Ratio(x, y) = IF y < 0 THEN <<-m, -y>> ELSE <<m, y>>
    BY DEF Ratio
  <2> HIDE DEF m
  <2>4. CASE y < 0
    <3>1. Ratio(x, y)[1] = -m /\ Ratio(x, y)[2] = -y
      BY <2>3, <2>4
    <3>2. -y \in Int /\ -y >= 1
      BY <1>2, <2>4
    <3> QED
      BY <2>2, <3>1, <3>2
  <2>5. CASE ~(y < 0)
    <3>1. Ratio(x, y)[1] = m /\ Ratio(x, y)[2] = y
      BY <2>3, <2>5
    <3>2. y \in Int /\ y >= 1
      BY <1>2, <2>5
    <3> QED
      BY <2>2, <3>1, <3>2
  <2> QED
    BY <2>4, <2>5
<1>5. \A q \in R : q[1] \in Int /\ q[1] >= 0 /\ q[1] <= 0 /\ q[2] \in Int /\ q[2] >= 1
  <2>1. \A q \in R : \E y \in T : q = Ratio(0, y)
    BY <1>1 DEF RatiosOf
  <2>2. 0 \in Int /\ 0 >= 0 /\ 0 <= 0
    OBVIOUS
  <2>3. \A y \in T : /\ Ratio(0, y)[1] \in Int /\ Ratio(0, y)[1] >= 0 /\ Ratio(0, y)[1] <= 0
                     /\ Ratio(0, y)[2] \in Int /\ Ratio(0, y)[2] >= 1
    BY <1>4, <2>2
  <2> QED
    BY <2>1, <2>3
<1>6. \A q \in Opposites(R) :
        q[1] \in Int /\ q[1] >= 0 /\ q[1] <= 0 /\ q[2] \in Int /\ q[2] >= 1
  <2>1. \A q \in Opposites(R) : \E p \in R : q[1] = -(p[1]) /\ q[2] = p[2]
    BY DEF Opposites
  <2>2. \A m \in Int : m >= 0 /\ m <= 0 => -m \in Int /\ -m >= 0 /\ -m <= 0
    OBVIOUS
  <2> HIDE DEF R
  <2> QED
    BY <1>5, <2>1, <2>2
<1>7. Opposites(R) # {}
  BY <1>1 DEF Opposites
<1> HIDE DEF R, T
<1>8. ASSUME NEW Q, Q # {},
             \A q \in Q : q[1] \in Int /\ q[1] >= 0 /\ q[1] <= 0 /\ q[2] \in Int /\ q[2] >= 1
      PROVE  \A b \in {zero.lb, zero.rb} : IsCeiling(b, Bounding(Q))
  <2>1. 0 \in FiniteNums /\ \A v \in FiniteNums : v \in Int
    BY MagnitudesAssumption, FiniteNumsRange DEF FiniteNums
  <2>2. ASSUME NEW v \in Int, NEW k \in Int, k >= 1 PROVE 0 <= v * k <=> 0 <= v
    <3>1. k \in Nat /\ 0 * k = 0
      BY <2>2
    <3>2. 0 <= v <=> 0 * k <= v * k
      BY <2>2, <3>1, ProductsCompare
    <3> QED
      BY <3>1, <3>2
  <2>3. \A v \in FiniteNums, q \in Q : q[1] <= v * q[2] <=> 0 <= v
    <3>1. \A q \in Q : q[1] = 0
      BY <1>8
    <3> QED
      BY <1>8, <2>1, <2>2, <3>1
  <2>4. \A v : v \in Bounding(Q) <=> v \in FiniteNums /\ 0 <= v
    BY <1>8, <2>3 DEF Bounding
  <2>5. Num(zero.lb) = 0 /\ Num(zero.rb) = 0
    <3>1. (~Sse) \in BOOLEAN /\ FALSE \in BOOLEAN
      OBVIOUS
    <3>2. \A neg \in BOOLEAN : Num(Zero(neg)) = 0
      BY EndsAre
    <3> QED
      BY <3>1, <3>2 DEF zero, Bounds
  <2>6. 0 \in Bounding(Q) /\ \A w \in Bounding(Q) : 0 <= w
    BY <2>1, <2>4
  <2> QED
    BY <2>5, <2>6 DEF IsCeiling
<1>9. zero \in NonEmpty
  BY ConstantsAreIntervals
<1>10. IsCeiling(zero.lb, Bounding(Opposites(R))) /\ IsCeiling(zero.rb, Bounding(R))
  BY <1>1, <1>5, <1>6, <1>7, <1>8
<1> QED
  BY <1>1, <1>9, <1>10, QuotientsMakeHull DEF R

(* operator/= gives the hull of the quotients by the reals other than 0, of   *)
(* any two intervals, the empty set and the divisor 0 included.               *)
LEMMA QuotientIsHull ==
  ASSUME NEW I \in Intervals, NEW J \in Intervals, NEW same, same => Sse, Sse \in BOOLEAN
  PROVE  Value(Quotient(I, J, same)) = Hull(Ratios(I, J))
<1> DEFINE s == Class(I)
           t == Class(J)
<1>1. CASE is_empty(I) \/ is_empty(J)
  <2>1. Quotient(I, J, same) = emptyset
    BY <1>1 DEF Quotient
  <2>2. I = emptyset \/ J = emptyset
    BY <1>1, EmptySetIs
  <2>3. Ratios(I, J) = {}
    BY <2>2, EmptyHasNone DEF Ratios
  <2> QED
    BY <2>1, <2>3, ValueIs
<1>2. CASE ~is_empty(I) /\ ~is_empty(J)
  <2>1. I \in NonEmpty /\ J \in NonEmpty
    BY <1>2, EmptySetIs
  <2>2. <<s, t>>[1] = s /\ <<s, t>>[2] = t
    OBVIOUS
  <2>3. Quotient(I, J, same) =
          IF t = "Z" THEN emptyset
          ELSE IF s = "Z" THEN zero
          ELSE IF t = "M" THEN universe
          ELSE IF t \in {"N0", "P0"} THEN QuotientTo0(<<s, t>>, I, J)
          ELSE QuotientOneSide(<<s, t>>, I, J, same)
    BY <1>2, <2>2 DEF Quotient
  <2>4. /\ t \in {"N1", "N0", "Z", "M", "P0", "P1"}
        /\ t = "Z" => Num(J.lb) = 0 /\ Num(J.rb) = 0
        /\ t # "Z" => ~(Num(J.lb) = 0 /\ Num(J.rb) = 0)
        /\ t = "M" => Num(J.lb) > 0 /\ Num(J.rb) > 0
        /\ s = "Z" => Num(I.lb) = 0 /\ Num(I.rb) = 0
        /\ s # "Z" => ~(Num(I.lb) = 0 /\ Num(I.rb) = 0)
    <3>1. \A K \in NonEmpty :
            /\ Class(K) \in {"N1", "N0", "Z", "M", "P0", "P1"}
            /\ Class(K) = "Z" => Num(K.lb) = 0 /\ Num(K.rb) = 0
            /\ Class(K) # "Z" => ~(Num(K.lb) = 0 /\ Num(K.rb) = 0)
            /\ Class(K) = "M" => Num(K.lb) > 0 /\ Num(K.rb) > 0
      BY ClassIs
    <3> QED
      BY <2>1, <3>1
  <2>5. CASE t = "Z"
    <3>1. Ratios(I, J) = {}
      BY <2>1, <2>4, <2>5, RatiosAre
    <3> QED
      BY <2>3, <2>5, <3>1, ValueIs
  <2>6. CASE t # "Z" /\ s = "Z"
    BY <2>1, <2>3, <2>4, <2>6, ZeroIsDivided
  <2>7. CASE t = "M" /\ s # "Z"
    BY <2>1, <2>3, <2>4, <2>7, QuotientsAroundZero
  <2>8. CASE t \in {"N0", "P0"} /\ s # "Z"
    <3>1. Quotient(I, J, same) = QuotientTo0(<<s, t>>, I, J)
      BY <2>3, <2>8
    <3> QED
      BY <2>1, <2>8, <3>1, QuotientsTo0GiveHull
  <2>9. CASE t \in {"N1", "P1"} /\ s # "Z"
    <3>1. Quotient(I, J, same) = QuotientOneSide(<<s, t>>, I, J, same)
      BY <2>3, <2>9
    <3> QED
      BY <2>1, <2>9, <3>1, QuotientsGiveHull
  <2> QED
    BY <2>4, <2>5, <2>6, <2>7, <2>8, <2>9
<1> QED
  BY <1>1, <1>2

(* The interval of a double, which an infinite one and a NaN do not have.     *)
LEMMA PointIs ==
  ASSUME NEW d \in Numbers
  PROVE  /\ IsFinite(d) => /\ Point(d) \in NonEmpty
                           /\ Point(d) = Bounds(Opposite(d), d)
                           /\ Point(d).lb = Opposite(d) /\ Point(d).rb = d
         /\ ~IsFinite(d) => Point(d) = emptyset
<1>1. ~IsFinite(d) => Point(d) = emptyset
  BY DEF Point, Interval, IsFinite
<1>2. ASSUME IsFinite(d)
      PROVE  /\ Point(d) \in NonEmpty
             /\ Point(d) = Bounds(Opposite(d), d)
             /\ Point(d).lb = Opposite(d) /\ Point(d).rb = d
  <2>1. /\ Opposite(d) \in Ends /\ d \in Ends /\ Num(d) \in Int /\ Num(Opposite(d)) = -Num(d)
    BY <1>2, FiniteIs
  <2>2. d # NaN /\ Leq(d, d)
    BY <1>2, <2>1 DEF IsFinite, Leq, Lt
  <2>3. Point(d) = Bounds(Opposite(d), d)
    BY <1>2, <2>2 DEF Point, Interval, IsFinite
  <2>4. Num(Opposite(d)) + Num(d) >= 0
    BY <2>1
  <2>5. Bounds(Opposite(d), d) \in NonEmpty
    BY <2>1, <2>4 DEF Bounds, NonEmpty
  <2> QED
    BY <2>3, <2>5 DEF Bounds
<1> QED
  BY <1>1, <1>2

(* The interval of 1.                                                         *)
LEMMA UnitIs ==
  /\ OfNum(-One) \in Ends /\ Num(OfNum(-One)) = -One
  /\ OfNum(One) \in Ends /\ Num(OfNum(One)) = One
  /\ Opposite(OfNum(One)) = OfNum(-One)
  /\ Point(OfNum(One)) \in NonEmpty
  /\ Point(OfNum(One)).lb = OfNum(-One) /\ Point(OfNum(One)).rb = OfNum(One)
<1> DEFINE u == OfNum(One)
           m == OfNum(-One)
<1>1. One \in Nat /\ One >= 1 /\ One \in FiniteNums /\ -One \in FiniteNums
  BY LargestMagnitude, FiniteNumsRange, MagnitudesAssumption DEF FiniteNums
<1>2. /\ u \in Doubles /\ Num(u) = One /\ u.mag \in Magnitudes
      /\ m \in Doubles /\ Num(m) = -One /\ m.mag \in Magnitudes
  BY <1>1, OfNumIsNum
<1>3. Opposite(u) = m
  <2> DEFINE v == Opposite(u)
  <2>1. v \in Doubles /\ Num(v) = -One /\ One >= 1 /\ m \in Doubles /\ Num(m) = -One
    BY <1>1, <1>2, OppositeIsDouble
  <2> HIDE DEF u, m, v
  <2>2. /\ v.neg \in BOOLEAN /\ m.neg \in BOOLEAN
        /\ v.mag \in Nat /\ m.mag \in Nat
        /\ v = [neg |-> v.neg, mag |-> v.mag] /\ m = [neg |-> m.neg, mag |-> m.mag]
    BY <2>1, NumOfMagnitude DEF Doubles
  <2>3. v.neg /\ m.neg /\ v.mag = One /\ m.mag = One
    BY <1>1, <2>1, <2>2 DEF Num
  <2>4. v.neg = m.neg
    BY <2>2, <2>3
  <2>5. v = m
    BY <2>2, <2>3, <2>4
  <2> QED
    BY <2>5 DEF v
<1> HIDE DEF u, m
<1>4. u \in Ends /\ m \in Ends
  BY <1>2, EndsAre, FiniteOrInfinite
<1>5. u \in Numbers
  BY <1>2 DEF Numbers
<1>6. IsFinite(u)
  <2>1. u # NaN /\ Infinity # NaN /\ Infinity \in Doubles /\ Num(Infinity) = Largest + 1
    BY <1>4, EndsAre
  <2>2. /\ MinusInfinity \in Doubles /\ MinusInfinity # NaN /\ Num(MinusInfinity) = -(Largest + 1)
    BY <2>1, LargestMagnitude, OppositeIsDouble, FiniteOrInfinite DEF MinusInfinity
  <2>3. One <= Largest /\ Largest \in Nat
    BY LargestMagnitude, MagnitudesAssumption
  <2> QED
    BY <1>1, <1>2, <2>1, <2>2, <2>3 DEF IsFinite, Lt
<1>7. Point(u) \in NonEmpty /\ Point(u).lb = Opposite(u) /\ Point(u).rb = u
  BY <1>5, <1>6, PointIs
<1> QED
  BY <1>2, <1>3, <1>4, <1>7 DEF u, m

(* inverse() gives the hull of the quotients of 1.                            *)
LEMMA InverseIsHull ==
  ASSUME NEW I \in Intervals, Sse \in BOOLEAN
  PROVE  Value(inverse(I)) = Hull(Ratios(Point(OfNum(One)), I))
<1> DEFINE P == Point(OfNum(One))
           m == OfNum(-One)
           bound(x) == IF IsZero(x) THEN Infinity ELSE DivUp(m, x)
           U == Bounding(Ratios(P, I))
           L == Bounding(Opposites(Ratios(P, I)))
<1>1. P \in NonEmpty /\ P.lb = m /\ Opposite(P.rb) = m /\ P.rb \in Ends
      /\ Num(P.lb) = -One /\ Num(P.rb) = One /\ One \in Nat /\ One >= 1
  BY UnitIs, LargestMagnitude
<1> HIDE DEF P, m
<1>2. CASE is_empty(I)
  <2>1. inverse(I) = emptyset
    BY <1>2 DEF inverse
  <2>2. Ratios(P, I) = {}
    BY <1>2, EmptySetIs, EmptyHasNone DEF Ratios
  <2> QED
    BY <2>1, <2>2, ValueIs DEF P
<1>3. CASE ~is_empty(I)
  <2>1. I \in NonEmpty
    BY <1>3, EmptySetIs
  <2>2. /\ I.lb \in Ends /\ I.rb \in Ends /\ I.lb \in Doubles /\ I.rb \in Doubles
        /\ Num(I.lb) \in Int /\ Num(I.rb) \in Int /\ Num(I.lb) + Num(I.rb) >= 0
    BY <2>1, NonEmptyIs
  <2>3. /\ is_zero(I) <=> Num(I.lb) = 0 /\ Num(I.rb) = 0
        /\ strictly_straddles_zero(I) <=> Num(I.lb) > 0 /\ Num(I.rb) > 0
    BY <2>1, BoundsCompare DEF strictly_straddles_zero
  <2>4. CASE is_zero(I)
    <3>1. inverse(I) = emptyset
      BY <2>4 DEF inverse
    <3>2. Ratios(P, I) = {}
      BY <1>1, <2>1, <2>3, <2>4, RatiosAre
    <3> QED
      BY <3>1, <3>2, ValueIs DEF P
  <2>5. CASE strictly_straddles_zero(I)
    <3>1. ~is_zero(I)
      BY <2>3, <2>5
    <3>2. inverse(I) = universe
      BY <1>3, <2>5, <3>1 DEF inverse
    <3>3. Num(P.rb) # 0 /\ Num(I.lb) > 0 /\ Num(I.rb) > 0
      BY <1>1, <2>3, <2>5
    <3>4. Value(universe) = Hull(Ratios(P, I))
      BY <1>1, <2>1, <3>3, QuotientsAroundZero
    <3> QED
      BY <3>2, <3>4 DEF P
  <2>6. CASE ~is_zero(I) /\ ~strictly_straddles_zero(I)
    <3>1. inverse(I) = Bounds(bound(I.rb), bound(I.lb))
      BY <1>3, <2>6 DEF inverse, m
    <3>2. inverse(I) \in Intervals /\ bound(I.rb) # NaN
      <4>1. inverse(I) \in Intervals
        BY InverseIsInterval
      <4>2. DivUp(m, I.rb) = NaN => ~(Num(I.rb) # 0)
        <5>1. m \in Doubles /\ m # NaN /\ ~IsInf(m) /\ ~IsZero(m)
          <6>1. m \in Ends /\ Num(m) = -One
            BY <1>1, UnitIs DEF m
          <6>2. Num(m) < 0 /\ m \in Doubles /\ m # NaN
            BY <1>1, <6>1, EndsAre
          <6>3. IsZero(m) <=> Num(m) = 0
            BY <6>2, FiniteOrInfinite
          <6>4. ~IsInf(m)
            BY <6>1, <6>2, EndsAre, LargestMagnitude
          <6> QED
            BY <6>2, <6>3, <6>4
        <5>2. I.rb # NaN /\ (IsZero(I.rb) <=> Num(I.rb) = 0)
          BY <2>2, EndsAre, FiniteOrInfinite
        <5>3. \A neg : [neg |-> neg, mag |-> Oo] # NaN /\ Zero(neg) # NaN
          BY LargestMagnitude DEF NaN, Oo, Zero
        <5>4. ASSUME ~IsInf(I.rb), Num(I.rb) # 0 PROVE DivUp(m, I.rb) # NaN
          <6>1. Divides(m, I.rb)
            BY <5>1, <5>4, <2>2 DEF Divides
          <6> QED
            BY <5>1, <2>2, <6>1, QuotientsArePair, EndsAre
        <5> QED
          BY <5>1, <5>2, <5>3, <5>4 DEF DivUp
      <4> QED
        BY <4>1, <4>2, <2>2, FiniteOrInfinite, EndsAre
    <3>3. inverse(I) \in NonEmpty
      <4>1. inverse(I).lb # NaN
        BY <3>1, <3>2 DEF Bounds
      <4> QED
        BY <3>2, <4>1, EmptySetIs DEF Intervals
    <3>4. IsCeiling(bound(I.rb), L) /\ IsCeiling(bound(I.lb), U)
      <4>1. /\ IsZero(I.rb) <=> Num(I.rb) = 0
            /\ IsZero(I.lb) <=> Num(I.lb) = 0
        BY <2>2, FiniteOrInfinite
      <4>2. ~(Num(I.lb) = 0 /\ Num(I.rb) = 0) /\ ~(Num(I.lb) > 0 /\ Num(I.rb) > 0)
        BY <2>3, <2>6
      <4> DEFINE c == Opposite(I.lb)
                 e == Opposite(I.rb)
      <4>3. /\ Num(I.rb) < 0 =>
                 /\ Num(P.rb) >= 0 => IsCeiling(DivUp(Opposite(P.rb), I.rb), L)
                 /\ Num(I.lb) > 0 /\ Num(P.lb) <= 0 => IsCeiling(DivUp(P.lb, I.lb), U)
            /\ Num(I.lb) < 0 =>
                 /\ Num(I.rb) > 0 /\ Num(P.lb) <= 0 => IsCeiling(DivUp(P.lb, I.rb), L)
            /\ Num(I.lb) = 0 /\ Num(I.rb) > 0 =>
                 /\ Num(P.rb) > 0 => IsCeiling(Infinity, U)
                 /\ Num(P.lb) <= 0 => IsCeiling(DivUp(P.lb, I.rb), L)
            /\ Num(I.rb) = 0 /\ Num(I.lb) > 0 =>
                 /\ Num(P.lb) <= 0 => IsCeiling(DivUp(P.lb, I.lb), U)
                 /\ Num(P.rb) > 0 => IsCeiling(Infinity, L)
        BY <1>1, <2>1, QuotientsOfBounds
      <4>4. Num(I.lb) < 0 => IsCeiling(DivUp(m, I.lb), U)
        <5>1. ASSUME Num(I.lb) < 0 PROVE IsCeiling(DivUp(m, I.lb), U)
          <6>1. IsCeiling(DivUp(Opposite(P.rb), I.lb), From(Reach(P.rb) * One, -Reach(I.lb)))
            BY <1>1, <2>2, <5>1, QuotientsOfEnds
          <6>2. Reach(P.rb) >= 0
            BY <1>1, ReachIs
          <6>3. U = From(Reach(P.rb) * One, -Reach(I.lb))
            BY <1>1, <2>1, <5>1, <6>2, QuotientsAreBounded
          <6> HIDE DEF U
          <6> QED
            BY <1>1, <6>1, <6>3
        <5> QED
          BY <5>1
      <4>5. Num(P.lb) <= 0 /\ Num(P.rb) > 0 /\ Num(P.rb) >= 0
        BY <1>1
      <4> HIDE DEF U, L
      <4>6. CASE Num(I.lb) < 0
        <5>1. Num(I.rb) > 0 /\ Num(I.lb) # 0 /\ Num(I.rb) # 0
          BY <2>2, <4>6
        <5> QED
          BY <1>1, <4>1, <4>3, <4>4, <4>5, <4>6, <5>1
      <4>7. CASE Num(I.rb) < 0
        <5>1. Num(I.lb) > 0 /\ Num(I.lb) # 0 /\ Num(I.rb) # 0
          BY <2>2, <4>7
        <5> QED
          BY <1>1, <4>1, <4>3, <4>5, <4>7, <5>1
      <4>8. CASE Num(I.lb) = 0 /\ Num(I.rb) > 0
        <5>1. Num(I.rb) # 0
          BY <4>8
        <5> QED
          BY <1>1, <4>1, <4>3, <4>5, <4>8, <5>1
      <4>9. CASE Num(I.rb) = 0 /\ Num(I.lb) > 0
        <5>1. Num(I.lb) # 0
          BY <4>9
        <5> QED
          BY <1>1, <4>1, <4>3, <4>5, <4>9, <5>1
      <4> QED
        BY <2>2, <4>2, <4>6, <4>7, <4>8, <4>9
    <3>5. Ratios(P, I) # {}
      BY <1>1, <2>1, <2>3, <2>6, RatiosAre
    <3>6. inverse(I).lb = bound(I.rb) /\ inverse(I).rb = bound(I.lb)
      BY <3>1 DEF Bounds
    <3>7. Value(inverse(I)) = Hull(Ratios(P, I))
      BY <3>3, <3>4, <3>5, <3>6, QuotientsMakeHull
    <3> QED
      BY <3>7 DEF P
  <2> QED
    BY <2>4, <2>5, <2>6
<1> QED
  BY <1>2, <1>3

(* There is no quotient by 0.                                                 *)
LEMMA QuotientByZero ==
  ASSUME NEW I, NEW J, NEW same, Class(J) = "Z"
  PROVE  Quotient(I, J, same) = emptyset
<1> DEFINE of == <<Class(I), Class(J)>>
<1>1. of[2] = "Z"
  OBVIOUS
<1> QED
  BY <1>1 DEF Quotient

(* The operators with a double give what those with its interval give.        *)
LEMMA DoubleIsItsInterval ==
  ASSUME NEW I \in Intervals, NEW d \in Numbers, Sse \in BOOLEAN
  PROVE  /\ Value(PlusDouble(I, d)) = Value(Plus(I, Point(d), FALSE))
         /\ Value(MinusDouble(I, d)) = Value(Difference(I, Point(d), FALSE))
         /\ Value(TimesDouble(I, d)) = Value(Product(I, Point(d)))
         /\ Value(OverDouble(I, d)) = Value(Quotient(I, Point(d), FALSE))
         /\ Value(RelOverDouble(I, d)) = Value(RelQuotient(I, Point(d), FALSE))
<1> DEFINE D == Point(d)
           o == Opposite(d)
<1>1. CASE is_empty(I) \/ ~IsFinite(d)
  <2>1. I = emptyset \/ D = emptyset
    BY <1>1, PointIs, EmptySetIs
  <2>2. is_empty(I) \/ is_empty(D)
    BY <2>1, EmptySetIs
  <2>3. /\ PlusDouble(I, d) = emptyset /\ MinusDouble(I, d) = emptyset
        /\ TimesDouble(I, d) = emptyset /\ OverDouble(I, d) = emptyset
        /\ RelOverDouble(I, d) = emptyset
    BY <1>1 DEF PlusDouble, MinusDouble, TimesDouble, OverDouble, RelOverDouble
  <2>4. /\ Product(I, D) = emptyset /\ Quotient(I, D, FALSE) = emptyset
        /\ RelQuotient(I, D, FALSE) = emptyset
    BY <2>2 DEF Product, Quotient, RelQuotient
  <2>5. \A x : AddUp(x, NaN) = NaN /\ AddUp(NaN, x) = NaN
    BY SumOfNaN
  <2>6. Plus(I, D, FALSE) = emptyset /\ Difference(I, D, FALSE) = emptyset
    BY <2>1, <2>5, EmptySetIs DEF Plus, Difference, emptyset
  <2> QED
    BY <2>3, <2>4, <2>6
<1>2. CASE ~is_empty(I) /\ IsFinite(d)
  <2>1. I \in NonEmpty
    BY <1>2, EmptySetIs
  <2>2. /\ I.lb \in Ends /\ I.rb \in Ends /\ I.lb \in Doubles /\ I.rb \in Doubles
        /\ Num(I.lb) \in Int /\ Num(I.rb) \in Int /\ Num(I.lb) + Num(I.rb) >= 0
    BY <2>1, NonEmptyIs
  <2>3. /\ d \in Doubles /\ ~IsInf(d) /\ d \in Ends /\ o \in Ends /\ o \in Doubles /\ ~IsInf(o)
        /\ Num(o) = -Num(d) /\ Num(d) \in Int
        /\ IsZero(d) <=> Num(d) = 0
    BY <1>2, FiniteIs
  <2>4. D \in NonEmpty /\ D.lb = o /\ D.rb = d /\ D \in Intervals /\ ~is_empty(D)
    BY <1>2, PointIs, EmptySetIs DEF Intervals
  <2>5. Opposite(o) = d
    BY <2>3, OppositeTwice
  <2>6. d.neg \in BOOLEAN /\ (Num(d) > 0 => ~d.neg) /\ (Num(d) < 0 => d.neg)
    BY <2>3, NumOfMagnitude
  <2> HIDE DEF D, o
  <2>7. PlusDouble(I, d) = Plus(I, D, FALSE) /\ MinusDouble(I, d) = Difference(I, D, FALSE)
    BY <1>2, <2>4 DEF PlusDouble, MinusDouble, Plus, Difference, o
  <2>8. Value(Quotient(I, D, FALSE)) = Hull(Ratios(I, D))
    BY <2>1, <2>4, QuotientIsHull DEF Intervals
  <2>9. Value(Product(I, D)) = Hull(RealProducts(I, D))
    BY <2>1, <2>4, ProductIsHull DEF Intervals
  <2>10. CASE Num(d) = 0
    <3>1. Num(D.lb) = 0 /\ Num(D.rb) = 0 /\ IsZero(d)
      <4>1. \A r, k \in Int : k = -r /\ r >= 0 /\ r <= 0 => k >= 0 /\ k <= 0
        OBVIOUS
      <4>2. Num(o) \in Int /\ Num(d) >= 0 /\ Num(d) <= 0
        BY <2>3, <2>10, EndsAre
      <4> DEFINE no == Num(o)
      <4>3. no \in Int /\ no >= 0 /\ no <= 0
        BY <2>3, <4>1, <4>2
      <4> HIDE DEF no
      <4>4. no = 0
        BY <4>3
      <4> QED
        BY <2>3, <2>4, <2>10, <4>4 DEF no
    <3>2. TimesDouble(I, d) = zero /\ OverDouble(I, d) = emptyset
      BY <1>2, <3>1 DEF TimesDouble, OverDouble
    <3>3. Value(zero) = <<0, 0>>
      <4>1. zero \in NonEmpty /\ Num(zero.lb) = 0 /\ Num(zero.rb) = 0
        <5>1. (~Sse) \in BOOLEAN
          OBVIOUS
        <5> QED
          BY <5>1, ConstantsAreIntervals, EndsAre DEF zero, Bounds
      <4> QED
        BY <4>1, NonEmptyIs DEF Value
    <3>4. Hull(RealProducts(I, D)) = <<0, 0>>
      BY <2>1, <2>4, <3>1, ZeroGivesHull
    <3>5. Class(D) = "Z"
      BY <2>4, <3>1, ClassIs
    <3>6. Quotient(I, D, FALSE) = emptyset
      BY <3>5, QuotientByZero
    <3>7. straddles_zero(D)
      <4>1. straddles_zero(D) <=> Num(D.lb) >= 0 /\ Num(D.rb) >= 0
        BY <2>4, BoundsCompare DEF straddles_zero
      <4> QED
        BY <3>1, <4>1
    <3>8. RelOverDouble(I, d) = RelQuotient(I, D, FALSE)
      BY <1>2, <2>4, <3>1, <3>6, <3>7 DEF RelOverDouble, RelQuotient
    <3> QED
      BY <2>7, <2>9, <3>2, <3>3, <3>4, <3>6, <3>8 DEF D
  <2>11. CASE Num(d) # 0
    <3>1. ~IsZero(d) /\ ~straddles_zero(D)
      <4>1. straddles_zero(D) <=> Num(D.lb) >= 0 /\ Num(D.rb) >= 0
        BY <2>4, BoundsCompare DEF straddles_zero
      <4> QED
        BY <2>3, <2>4, <2>11, <4>1
    <3>2. /\ TimesDouble(I, d) = IF d.neg THEN Bounds(MulUp(I.rb, o), MulUp(I.lb, o))
                                  ELSE Bounds(MulUp(I.lb, d), MulUp(I.rb, d))
          /\ OverDouble(I, d) = IF d.neg THEN Bounds(DivUp(I.rb, o), DivUp(I.lb, o))
                                 ELSE Bounds(DivUp(I.lb, d), DivUp(I.rb, d))
          /\ RelOverDouble(I, d) = OverDouble(I, d)
          /\ RelQuotient(I, D, FALSE) = Quotient(I, D, FALSE)
      BY <1>2, <2>4, <3>1 DEF TimesDouble, OverDouble, RelOverDouble, RelQuotient, o
    <3>3. TimesDouble(I, d) \in NonEmpty /\ OverDouble(I, d) \in NonEmpty
      BY <1>2, <2>11, WithDoubleIsInterval
    <3>4. Value(OverDouble(I, d)) = Hull(Ratios(I, D))
      <4> DEFINE K == OverDouble(I, d)
                 U == Bounding(Ratios(I, D))
                 L == Bounding(Opposites(Ratios(I, D)))
      <4>1. IsCeiling(K.lb, L) /\ IsCeiling(K.rb, U)
        <5>1. /\ Num(D.lb) < 0 =>
                   /\ Num(I.rb) >= 0 => IsCeiling(DivUp(I.rb, d), U)
                   /\ Num(I.lb) >= 0 => IsCeiling(DivUp(I.lb, d), L)
                   /\ Num(D.rb) > 0 /\ Num(I.rb) <= 0 => IsCeiling(DivUp(I.rb, d), U)
                   /\ Num(D.rb) > 0 /\ Num(I.lb) <= 0 => IsCeiling(DivUp(I.lb, d), L)
              /\ Num(D.rb) < 0 =>
                   /\ Num(I.lb) >= 0 => IsCeiling(DivUp(I.lb, o), U)
                   /\ Num(I.rb) >= 0 => IsCeiling(DivUp(I.rb, o), L)
                   /\ Num(D.lb) > 0 /\ Num(I.lb) <= 0 => IsCeiling(DivUp(I.lb, o), U)
                   /\ Num(D.lb) > 0 /\ Num(I.rb) <= 0 => IsCeiling(DivUp(I.rb, o), L)
          <6>1. Opposite(D.lb) = d /\ Opposite(D.rb) = o
            BY <2>4, <2>5 DEF o
          <6> HIDE DEF U, L
          <6> QED
            BY <2>1, <2>4, <6>1, QuotientsOfBounds DEF U, L
        <5> HIDE DEF U, L
        <5>2. CASE Num(d) > 0
          <6>1. Num(D.lb) < 0 /\ Num(D.rb) > 0 /\ ~d.neg
            BY <2>3, <2>4, <2>6, <5>2
          <6>2. K.lb = DivUp(I.lb, d) /\ K.rb = DivUp(I.rb, d)
            BY <3>2, <6>1 DEF Bounds
          <6> HIDE DEF K
          <6> QED
            BY <2>2, <5>1, <6>1, <6>2
        <5>3. CASE Num(d) < 0
          <6>1. Num(D.rb) < 0 /\ Num(D.lb) > 0 /\ d.neg
            BY <2>3, <2>4, <2>6, <5>3
          <6>2. K.lb = DivUp(I.rb, o) /\ K.rb = DivUp(I.lb, o)
            BY <3>2, <6>1 DEF Bounds
          <6> HIDE DEF K
          <6> QED
            BY <2>2, <5>1, <6>1, <6>2
        <5> QED
          BY <2>3, <2>11, <5>2, <5>3
      <4>2. Ratios(I, D) # {}
        BY <2>1, <2>4, <2>11, RatiosAre
      <4>3. K \in NonEmpty
        BY <3>3
      <4> HIDE DEF K
      <4> QED
        BY <4>1, <4>2, <4>3, QuotientsMakeHull DEF K
    <3>5. Value(TimesDouble(I, d)) = Hull(RealProducts(I, D))
      <4>1. PICK s : OnSide(s, I)
        <5>1. OnSide("P", I) \/ OnSide("M", I) \/ OnSide("N", I)
          BY <2>2 DEF OnSide
        <5> QED
          BY <5>1
      <4>2. /\ Num(d) > 0 => OnSide("P", D)
            /\ Num(d) < 0 => OnSide("N", D)
        BY <2>3, <2>4 DEF OnSide
      <4>3. \A x \in {I.lb, I.rb} : /\ NaNToZero(MulUp(x, d)) = MulUp(x, d)
                                   /\ NaNToZero(MulUp(x, o)) = MulUp(x, o)
                                   /\ MulUp(Opposite(x), d) = MulUp(x, o)
        <5>1. \A x, e \in Doubles : ~IsInf(e) /\ ~IsZero(e) =>
                                       NaNToZero(MulUp(x, e)) = MulUp(x, e)
          BY ProductOfFinite
        <5>2. ~IsZero(o)
          BY <2>3, <2>11, FiniteOrInfinite
        <5> QED
          BY <2>2, <2>3, <3>1, <5>1, <5>2, ProductOfOpposites DEF o
      <4>4. Opposite(D.lb) = d /\ Opposite(D.rb) = o
        BY <2>4, <2>5 DEF o
      <4>5. s \in {"P", "M", "N"}
        BY <4>1 DEF OnSide
      <4>6. CASE Num(d) > 0
        <5>1. Products(<<s, "P">>, I, D) = Bounds(MulUp(I.lb, d), MulUp(I.rb, d))
          BY <2>4, <4>3, <4>4, <4>5 DEF Products
        <5>2. TimesDouble(I, d) = Products(<<s, "P">>, I, D)
          BY <2>6, <3>2, <4>6, <5>1
        <5> QED
          BY <2>1, <2>4, <4>1, <4>2, <4>6, <5>2, SidesGiveHull
      <4>7. CASE Num(d) < 0
        <5>1. Products(<<s, "N">>, I, D) = Bounds(MulUp(I.rb, o), MulUp(I.lb, o))
          BY <2>4, <4>3, <4>4, <4>5 DEF Products
        <5>2. TimesDouble(I, d) = Products(<<s, "N">>, I, D)
          BY <2>6, <3>2, <4>7, <5>1
        <5> QED
          BY <2>1, <2>4, <4>1, <4>2, <4>7, <5>2, SidesGiveHull
      <4> QED
        BY <2>3, <2>11, <4>6, <4>7
    <3> QED
      BY <2>7, <2>8, <2>9, <3>2, <3>4, <3>5 DEF D
  <2> QED
    BY <2>10, <2>11
<1> QED
  BY <1>1, <1>2

(* The arithmetic of what a program comes to.                                *)
LEMMA OperationsOfKept ==
  ASSUME ~Aliased, Kept
  PROVE  OperationsAreHulls
<1>1. X \in Intervals /\ Y \in Intervals /\ Sse \in BOOLEAN
  BY ProgramAssumption DEF Kept, X, Y, Names
<1>2. SumsAreHulls
  BY <1>1, SumIsHull DEF SumsAreHulls, SameAllowed
<1>3. ProductsAreHulls
  BY <1>1, ProductIsHull, SquareIsHull DEF ProductsAreHulls
<1>4. QuotientsAreHulls
  BY <1>1, QuotientIsHull, InverseIsHull DEF QuotientsAreHulls, SameAllowed
<1>5. DoublesAreIntervals
  <2>1. left(Y) \in Numbers /\ right(Y) \in Numbers
    BY <1>1, NonEmptyIs, EmptySetIs DEF Intervals, Numbers
  <2> QED
    BY <1>1, <2>1, DoubleIsItsInterval DEF DoublesAreIntervals
<1> QED
  BY <1>2, <1>3, <1>4, <1>5 DEF OperationsAreHulls

-----------------------------------------------------------------------------
(* The bounds of an interval that has both, and of one that either has.       *)
LEMMA MeetIs ==
  ASSUME NEW I \in NonEmpty, NEW J \in NonEmpty
  PROVE  LET l == IF Num(I.lb) <= Num(J.lb) THEN Num(I.lb) ELSE Num(J.lb)
             r == IF Num(I.rb) <= Num(J.rb) THEN Num(I.rb) ELSE Num(J.rb)
         IN /\ l + r >= 0 => /\ Meet(I, J) \in NonEmpty
                             /\ Num(Meet(I, J).lb) = l /\ Num(Meet(I, J).rb) = r
            /\ l + r < 0 => Meet(I, J) = emptyset
<1> DEFINE lb == IF ~Leq(I.lb, J.lb) THEN J.lb ELSE I.lb
           rb == IF ~Leq(I.rb, J.rb) THEN J.rb ELSE I.rb
           taken == Bounds(lb, rb)
<1>1. /\ I.lb \in Ends /\ I.rb \in Ends /\ J.lb \in Ends /\ J.rb \in Ends
      /\ Num(I.lb) \in Int /\ Num(I.rb) \in Int /\ Num(J.lb) \in Int /\ Num(J.rb) \in Int
      /\ I.lb # NaN /\ I.rb # NaN /\ J.lb # NaN /\ J.rb # NaN
      /\ ~is_empty(I)
  BY NonEmptyIs
<1>2. Meet(I, J) = IF is_empty(taken) THEN emptyset ELSE taken
  BY <1>1 DEF Meet
<1>3. /\ lb \in Ends /\ rb \in Ends
      /\ Num(lb) = IF Num(I.lb) <= Num(J.lb) THEN Num(I.lb) ELSE Num(J.lb)
      /\ Num(rb) = IF Num(I.rb) <= Num(J.rb) THEN Num(I.rb) ELSE Num(J.rb)
  BY <1>1 DEF Leq
<1> HIDE DEF lb, rb
<1>4. /\ lb \in Doubles /\ lb # NaN /\ Num(lb) \in Int
      /\ rb \in Doubles /\ rb # NaN /\ Num(rb) \in Int
  BY <1>3, EndsAre
<1>5. left(taken) \in Doubles /\ Num(left(taken)) = -Num(lb) /\ left(taken) # NaN
  BY <1>4, OppositeIsDouble, FiniteOrInfinite DEF left, Bounds
<1>6. right(taken) = rb /\ taken.lb = lb /\ taken.rb = rb
  BY DEF right, Bounds
<1>7. Num(lb) + Num(rb) >= 0 => taken \in NonEmpty
  BY <1>3 DEF Bounds, NonEmpty
<1> HIDE DEF taken
<1>8. is_empty(taken) <=> Num(lb) + Num(rb) < 0
  BY <1>4, <1>5, <1>6 DEF is_empty, Leq
<1> QED
  BY <1>2, <1>3, <1>4, <1>6, <1>7, <1>8

LEMMA JoinIs ==
  ASSUME NEW I \in NonEmpty, NEW J \in NonEmpty
  PROVE  /\ Join(I, J) \in NonEmpty
         /\ Num(Join(I, J).lb) = IF Num(I.lb) <= Num(J.lb) THEN Num(J.lb) ELSE Num(I.lb)
         /\ Num(Join(I, J).rb) = IF Num(I.rb) <= Num(J.rb) THEN Num(J.rb) ELSE Num(I.rb)
<1> DEFINE lb == IF Lt(I.lb, J.lb) THEN J.lb ELSE I.lb
           rb == IF Lt(I.rb, J.rb) THEN J.rb ELSE I.rb
<1>1. /\ I.lb \in Ends /\ I.rb \in Ends /\ J.lb \in Ends /\ J.rb \in Ends
      /\ Num(I.lb) \in Int /\ Num(I.rb) \in Int /\ Num(J.lb) \in Int /\ Num(J.rb) \in Int
      /\ I.lb # NaN /\ I.rb # NaN /\ J.lb # NaN /\ J.rb # NaN
      /\ ~is_empty(I) /\ ~is_empty(J)
      /\ Num(I.lb) + Num(I.rb) >= 0
  BY NonEmptyIs
<1>2. Join(I, J) = Bounds(lb, rb)
  BY <1>1 DEF Join
<1>3. /\ lb \in Ends /\ rb \in Ends
      /\ Num(lb) = IF Num(I.lb) <= Num(J.lb) THEN Num(J.lb) ELSE Num(I.lb)
      /\ Num(rb) = IF Num(I.rb) <= Num(J.rb) THEN Num(J.rb) ELSE Num(I.rb)
  BY <1>1 DEF Lt
<1> HIDE DEF lb, rb
<1>4. Num(lb) + Num(rb) >= 0
  BY <1>1, <1>3
<1>5. Bounds(lb, rb) \in NonEmpty /\ Bounds(lb, rb).lb = lb /\ Bounds(lb, rb).rb = rb
  BY <1>3, <1>4 DEF Bounds, NonEmpty
<1> QED
  BY <1>2, <1>3, <1>5

(* 0 is in an interval when it straddles zero.                              *)
LEMMA StraddlesAre ==
  ASSUME NEW I \in NonEmpty
  PROVE  /\ straddles_zero(I) <=> Num(I.lb) >= 0 /\ Num(I.rb) >= 0
         /\ In(0, I) <=> Num(I.lb) >= 0 /\ Num(I.rb) >= 0
<1>1. straddles_zero(I) <=> Num(I.lb) >= 0 /\ Num(I.rb) >= 0
  BY BoundsCompare DEF straddles_zero
<1>2. In(0, I) <=> (I.lb = Infinity \/ -(Num(I.lb) * Fine) <= 0) /\ (I.rb = Infinity \/ 0 <= Num(I.rb) * Fine)
  BY InIs
<1>3. ASSUME NEW x \in Ends
      PROVE  /\ Num(x) \in Int /\ Num(x) * Fine \in Int
             /\ x = Infinity => Num(x) >= 0
             /\ Num(x) >= 0 <=> Num(x) * Fine >= 0
  <2>1. /\ Num(x) \in Int /\ Fine \in Nat /\ Fine >= 1 /\ Largest >= 1 /\ Largest \in Nat
        /\ x = Infinity => Num(x) = Largest + 1
    BY EndsAre, ConstantsAre
  <2>2. 0 <= Num(x) <=> 0 * Fine <= Num(x) * Fine
    BY <2>1, ProductsCompare
  <2> QED
    BY <2>1, <2>2
<1>4. I.lb \in Ends /\ I.rb \in Ends
  BY NonEmptyIs
<1>5. /\ Num(I.lb) >= 0 <=> I.lb = Infinity \/ -(Num(I.lb) * Fine) <= 0
      /\ Num(I.rb) >= 0 <=> I.rb = Infinity \/ 0 <= Num(I.rb) * Fine
  BY <1>3, <1>4
<1> QED
  BY <1>1, <1>2, <1>5

(* operator%= gives the hull of the x such that x*y is in I for a y of J.     *)
LEMMA ReverseIsHull ==
  ASSUME NEW I \in Intervals, NEW J \in Intervals, NEW same, same => Sse, Sse \in BOOLEAN
  PROVE  Value(RelQuotient(I, J, same)) = RelHull(I, J)
<1>1. Value(Quotient(I, J, same)) = Hull(Ratios(I, J))
  BY QuotientIsHull
<1>2. CASE is_empty(I) \/ is_empty(J)
  <2>1. I = emptyset \/ J = emptyset
    BY <1>2, EmptySetIs
  <2>2. ~(In(0, I) /\ In(0, J))
    BY <2>1, EmptyHasNone
  <2>3. Quotient(I, J, same) = emptyset /\ RelQuotient(I, J, same) = emptyset
    BY <1>2 DEF Quotient, RelQuotient
  <2> QED
    BY <1>1, <2>2, <2>3 DEF RelHull
<1>3. CASE ~is_empty(I) /\ ~is_empty(J)
  <2>1. I \in NonEmpty /\ J \in NonEmpty
    BY <1>3, EmptySetIs
  <2>2. /\ straddles_zero(I) <=> In(0, I)
        /\ straddles_zero(J) <=> In(0, J)
    BY <2>1, StraddlesAre
  <2>3. Value(universe) = <<Oo, Oo>>
    <3>1. universe \in NonEmpty /\ Infinity \in Ends
      BY ConstantsAreIntervals, EndsAre
    <3> QED
      BY <3>1, ValueIs DEF universe, Infinity, Num
  <2> QED
    BY <1>1, <1>3, <2>2, <2>3 DEF RelQuotient, RelHull
<1> QED
  BY <1>2, <1>3

(* No rational of a set exceeds the bounds of its hull.                     *)
LEMMA HullHas ==
  ASSUME NEW Q, NEW q \in Q, NEW a, NEW b, Hull(Q) = <<a, b>>
  PROVE  /\ b = Oo \/ (b \in FiniteNums /\ q[1] <= b * q[2])
         /\ a = Oo \/ (a \in FiniteNums /\ -(q[1]) <= a * q[2])
<1>1. ASSUME NEW R, NEW r \in R
      PROVE  Ceiling(R) = Oo \/ (Ceiling(R) \in FiniteNums /\ r[1] <= Ceiling(R) * r[2])
  <2> DEFINE U == Bounding(R)
  <2>1. Ceiling(R) = IF U = {} THEN Oo ELSE Min(U)
    BY DEF Ceiling, Bounding
  <2>2. CASE U = {}
    BY <2>1, <2>2
  <2>3. CASE U # {}
    <3>1. U \subseteq Int /\ U \subseteq FiniteNums /\ \A v \in U : -Largest <= v
      BY FiniteNumsRange DEF Bounding
    <3>2. -Largest \in Int
      BY ConstantsAre
    <3>3. PICK m \in U : \A k \in U : m <= k
      BY <2>3, <3>1, <3>2, LeastInteger
    <3>4. Min(U) \in U
      BY <3>3 DEF Min
    <3> QED
      BY <2>1, <2>3, <3>1, <3>4 DEF Bounding
  <2> QED
    BY <2>2, <2>3
<1>2. <<-(q[1]), q[2]>> \in Opposites(Q)
  BY DEF Opposites
<1>3. Hull(Q) = <<Ceiling(Opposites(Q)), Ceiling(Q)>>
  BY DEF Hull, Opposites
<1>4. a = Ceiling(Opposites(Q)) /\ b = Ceiling(Q)
  BY <1>3
<1>5. Ceiling(Opposites(Q)) = Oo
        \/ (Ceiling(Opposites(Q)) \in FiniteNums /\ -(q[1]) <= Ceiling(Opposites(Q)) * q[2])
  <2>1. \/ Ceiling(Opposites(Q)) = Oo
        \/ /\ Ceiling(Opposites(Q)) \in FiniteNums
           /\ <<-(q[1]), q[2]>>[1] <= Ceiling(Opposites(Q)) * <<-(q[1]), q[2]>>[2]
    BY <1>1, <1>2
  <2> QED
    BY <2>1
<1> QED
  BY <1>1, <1>4, <1>5

(* The numbers of units of what is multiplied, then divided by c, and rounded *)
(* upward both times: the first is kept.                                     *)
LEMMA UndoneIsUpper ==
  ASSUME NEW x \in Ends, NEW p \in Ends, NEW q \in Ends, NEW c \in Nat, c >= 1, c <= Largest,
         p # Infinity => Reach(x) * c <= Num(p) * One,
         q # Infinity => Reach(p) * One <= Num(q) * c
  PROVE  Num(x) <= Num(q)
<1>1. /\ Largest \in Nat /\ One \in Nat /\ One >= 1 /\ Beyond \in Nat
      /\ Beyond > Largest * Largest /\ Beyond > Largest * One /\ Beyond * One >= Beyond
      /\ Largest * Largest \in Nat /\ Largest * One \in Nat /\ Beyond * One \in Nat
  BY ConstantsAre, LargestMagnitude, BeyondIs
<1>2. ASSUME NEW e \in Ends
      PROVE  /\ Num(e) \in Int /\ Num(e) <= Largest + 1 /\ Reach(e) \in Int
             /\ e # Infinity => Num(e) <= Largest /\ Reach(e) = Num(e)
             /\ e = Infinity => Num(e) = Largest + 1 /\ Reach(e) = Beyond
  BY EndsAre, ReachIs
<1>3. ASSUME NEW u \in Int, NEW v \in Int, NEW f \in Nat, u <= v PROVE u * f <= v * f
  <2>1. f = 0 \/ f >= 1
    OBVIOUS
  <2>2. CASE f = 0
    BY <2>2
  <2>3. CASE f >= 1
    BY <1>3, <2>3, ProductsCompare
  <2> QED
    BY <2>1, <2>2, <2>3
<1>4. CASE q = Infinity
  BY <1>2, <1>4
<1>5. CASE q # Infinity /\ p = Infinity
  <2>1. Beyond * One <= Num(q) * c
    BY <1>2, <1>5
  <2>2. Num(q) * c <= Largest * c
    BY <1>1, <1>2, <1>3, <1>5
  <2>3. c * Largest <= Largest * Largest
    BY <1>1, <1>3
  <2>4. c * Largest = Largest * c /\ Num(q) * c \in Int /\ Largest * c \in Int
    BY <1>1, <1>2
  <2> QED
    BY <1>1, <2>1, <2>2, <2>3, <2>4
<1>6. CASE q # Infinity /\ p # Infinity /\ x = Infinity
  <2>1. Beyond * c <= Num(p) * One
    BY <1>2, <1>6
  <2>2. Num(p) * One <= Largest * One
    BY <1>1, <1>2, <1>3, <1>6
  <2>3. 1 * Beyond <= c * Beyond
    BY <1>1, <1>3
  <2>4. c * Beyond = Beyond * c /\ 1 * Beyond = Beyond /\ Num(p) * One \in Int /\ Beyond * c \in Int
    BY <1>1, <1>2
  <2> QED
    BY <1>1, <2>1, <2>2, <2>3, <2>4
<1>7. CASE q # Infinity /\ p # Infinity /\ x # Infinity
  <2>1. Num(x) * c <= Num(p) * One /\ Num(p) * One <= Num(q) * c
    BY <1>2, <1>7
  <2>2. Num(x) * c \in Int /\ Num(p) * One \in Int /\ Num(q) * c \in Int
    BY <1>1, <1>2
  <2>3. Num(x) * c <= Num(q) * c
    BY <2>1, <2>2
  <2> QED
    BY <1>2, <2>3, ProductsCompare
<1> QED
  BY <1>4, <1>5, <1>6, <1>7

(* The products of an interval by one on one side of 0, from those of the    *)
(* bound nearer to 0, and the quotients.                                     *)
LEMMA ProductsReach ==
  ASSUME NEW I \in NonEmpty, NEW J \in NonEmpty, NEW P \in NonEmpty,
         Value(P) = Hull(RealProducts(I, J))
  PROVE  /\ J.lb # Infinity =>
              /\ P.rb # Infinity => Reach(I.rb) * (-Num(J.lb)) <= Num(P.rb) * One
              /\ P.lb # Infinity => -(Reach(I.rb) * (-Num(J.lb))) <= Num(P.lb) * One
              /\ P.lb # Infinity => Reach(I.lb) * (-Num(J.lb)) <= Num(P.lb) * One
              /\ P.rb # Infinity => -(Reach(I.lb) * (-Num(J.lb))) <= Num(P.rb) * One
         /\ J.rb # Infinity =>
              /\ P.rb # Infinity => Reach(I.rb) * Num(J.rb) <= Num(P.rb) * One
              /\ P.lb # Infinity => -(Reach(I.rb) * Num(J.rb)) <= Num(P.lb) * One
              /\ P.lb # Infinity => Reach(I.lb) * Num(J.rb) <= Num(P.lb) * One
              /\ P.rb # Infinity => -(Reach(I.lb) * Num(J.rb)) <= Num(P.rb) * One
<1>1. /\ I.lb \in Ends /\ I.rb \in Ends /\ J.lb \in Ends /\ J.rb \in Ends
      /\ P.lb \in Ends /\ P.rb \in Ends /\ ~is_empty(P)
  BY NonEmptyIs
<1>2. ASSUME NEW e \in Ends
      PROVE  /\ Num(e) \in Int /\ Reach(e) \in Int
             /\ e # Infinity => Num(e) # Oo /\ Reach(e) = Num(e)
  BY EndsAre, ReachIs DEF Oo
<1>3. Hull(RealProducts(I, J)) = <<Num(P.lb), Num(P.rb)>>
  BY <1>1 DEF Value
<1>4. Fine \in Nat /\ Fine >= 1 /\ One \in Nat
  BY ConstantsAre, LargestMagnitude
<1>5. ASSUME NEW u \in Int, NEW v \in Int, u * Fine \in Samples(I), v * Fine \in Samples(J)
      PROVE  /\ P.rb # Infinity => u * v <= Num(P.rb) * One
             /\ P.lb # Infinity => -(u * v) <= Num(P.lb) * One
  <2> DEFINE q == <<(u * Fine) * (v * Fine), Fine * Fine * One>>
             f == Fine * Fine
  <2>1. q \in RealProducts(I, J)
    BY <1>5 DEF RealProducts
  <2>2. /\ q[1] = (u * Fine) * (v * Fine) /\ q[2] = Fine * Fine * One
    OBVIOUS
  <2>3. /\ Num(P.rb) = Oo \/ q[1] <= Num(P.rb) * q[2]
        /\ Num(P.lb) = Oo \/ -(q[1]) <= Num(P.lb) * q[2]
    BY <1>3, <2>1, HullHas
  <2>4. f \in Nat /\ f >= 1
    BY <1>4, SignsMultiply
  <2>5. (u * Fine) * (v * Fine) = (u * v) * f
    BY <1>4
  <2>6. ASSUME NEW w \in Int PROVE w * (Fine * Fine * One) = (w * One) * f /\ w * One \in Int
    BY <1>4
  <2> HIDE DEF f, q
  <2>7. u * v \in Int /\ Num(P.rb) * One \in Int /\ Num(P.lb) * One \in Int /\ -(u * v) \in Int
    BY <1>1, <1>2, <1>4
  <2>8. P.rb # Infinity => (u * v) * f <= (Num(P.rb) * One) * f
    BY <1>1, <1>2, <2>2, <2>3, <2>5, <2>6
  <2>9. P.lb # Infinity => (-(u * v)) * f <= (Num(P.lb) * One) * f
    <3>1. -((u * v) * f) = (-(u * v)) * f
      BY <2>4, <2>7
    <3> QED
      BY <1>1, <1>2, <2>2, <2>3, <2>5, <2>6, <3>1
  <2> QED
    BY <2>4, <2>7, <2>8, <2>9, ProductsCompare
<1>6. /\ Reach(I.rb) * Fine \in Samples(I) /\ (-Reach(I.lb)) * Fine \in Samples(I)
      /\ Reach(J.rb) * Fine \in Samples(J) /\ (-Reach(J.lb)) * Fine \in Samples(J)
  <2>1. /\ Reach(I.rb) * Fine \in Samples(I) /\ -(Reach(I.lb) * Fine) \in Samples(I)
        /\ Reach(J.rb) * Fine \in Samples(J) /\ -(Reach(J.lb) * Fine) \in Samples(J)
    BY SamplesAre DEF Top, Bottom
  <2>2. /\ -(Reach(I.lb) * Fine) = (-Reach(I.lb)) * Fine
        /\ -(Reach(J.lb) * Fine) = (-Reach(J.lb)) * Fine
    BY <1>1, <1>2, <1>4
  <2> QED
    BY <2>1, <2>2
<1>7. \A u, v \in Int : (-u) * v = -(u * v) /\ -(-(u * v)) = u * v /\ u * v \in Int
  OBVIOUS
<1>8. ASSUME J.lb # Infinity
      PROVE
             /\ P.rb # Infinity => Reach(I.rb) * (-Num(J.lb)) <= Num(P.rb) * One
             /\ P.lb # Infinity => -(Reach(I.rb) * (-Num(J.lb))) <= Num(P.lb) * One
             /\ P.lb # Infinity => Reach(I.lb) * (-Num(J.lb)) <= Num(P.lb) * One
             /\ P.rb # Infinity => -(Reach(I.lb) * (-Num(J.lb))) <= Num(P.rb) * One
  <2>1. Reach(J.lb) = Num(J.lb) /\ -Num(J.lb) \in Int
    BY <1>1, <1>2, <1>8
  <2>2. /\ P.rb # Infinity => Reach(I.rb) * (-Num(J.lb)) <= Num(P.rb) * One
        /\ P.lb # Infinity => -(Reach(I.rb) * (-Num(J.lb))) <= Num(P.lb) * One
    BY <1>1, <1>2, <1>5, <1>6, <2>1
  <2>3. /\ P.rb # Infinity => (-Reach(I.lb)) * (-Num(J.lb)) <= Num(P.rb) * One
        /\ P.lb # Infinity => -((-Reach(I.lb)) * (-Num(J.lb))) <= Num(P.lb) * One
    BY <1>1, <1>2, <1>5, <1>6, <2>1
  <2>4. /\ (-Reach(I.lb)) * (-Num(J.lb)) = -(Reach(I.lb) * (-Num(J.lb)))
        /\ -((-Reach(I.lb)) * (-Num(J.lb))) = Reach(I.lb) * (-Num(J.lb))
    BY <1>1, <1>2, <1>7, <2>1
  <2> QED
    BY <2>2, <2>3, <2>4
<1>9. ASSUME J.rb # Infinity
      PROVE
             /\ P.rb # Infinity => Reach(I.rb) * Num(J.rb) <= Num(P.rb) * One
             /\ P.lb # Infinity => -(Reach(I.rb) * Num(J.rb)) <= Num(P.lb) * One
             /\ P.lb # Infinity => Reach(I.lb) * Num(J.rb) <= Num(P.lb) * One
             /\ P.rb # Infinity => -(Reach(I.lb) * Num(J.rb)) <= Num(P.rb) * One
  <2>1. Reach(J.rb) = Num(J.rb) /\ Num(J.rb) \in Int
    BY <1>1, <1>2, <1>9
  <2>2. /\ P.rb # Infinity => Reach(I.rb) * Num(J.rb) <= Num(P.rb) * One
        /\ P.lb # Infinity => -(Reach(I.rb) * Num(J.rb)) <= Num(P.lb) * One
    BY <1>1, <1>2, <1>5, <1>6, <2>1
  <2>3. /\ P.rb # Infinity => (-Reach(I.lb)) * Num(J.rb) <= Num(P.rb) * One
        /\ P.lb # Infinity => -((-Reach(I.lb)) * Num(J.rb)) <= Num(P.lb) * One
    BY <1>1, <1>2, <1>5, <1>6, <2>1
  <2>4. /\ (-Reach(I.lb)) * Num(J.rb) = -(Reach(I.lb) * Num(J.rb))
        /\ -((-Reach(I.lb)) * Num(J.rb)) = Reach(I.lb) * Num(J.rb)
    BY <1>1, <1>2, <1>7, <2>1
  <2> QED
    BY <2>2, <2>3, <2>4
<1> QED
  BY <1>8, <1>9

(* The hull of the quotients by an interval reaches those by its bounds.     *)
LEMMA QuotientsReach ==
  ASSUME NEW P \in NonEmpty, NEW J \in NonEmpty, NEW Q \in NonEmpty,
         Value(Q) = Hull(Ratios(P, J))
  PROVE  /\ Num(J.lb) < 0 =>
              /\ Q.rb # Infinity => Reach(P.rb) * One <= Num(Q.rb) * (-Num(J.lb))
              /\ Q.lb # Infinity => Reach(P.lb) * One <= Num(Q.lb) * (-Num(J.lb))
         /\ Num(J.rb) < 0 =>
              /\ Q.rb # Infinity => Reach(P.lb) * One <= Num(Q.rb) * (-Num(J.rb))
              /\ Q.lb # Infinity => Reach(P.rb) * One <= Num(Q.lb) * (-Num(J.rb))
         /\ Num(J.rb) > 0 =>
              /\ Q.rb # Infinity => Reach(P.rb) * One <= Num(Q.rb) * Reach(J.rb)
              /\ Q.lb # Infinity => Reach(P.lb) * One <= Num(Q.lb) * Reach(J.rb)
         /\ Num(J.lb) > 0 =>
              /\ Q.rb # Infinity => Reach(P.lb) * One <= Num(Q.rb) * Reach(J.lb)
              /\ Q.lb # Infinity => Reach(P.rb) * One <= Num(Q.lb) * Reach(J.lb)
<1>1. /\ P.lb \in Ends /\ P.rb \in Ends /\ J.lb \in Ends /\ J.rb \in Ends
      /\ Q.lb \in Ends /\ Q.rb \in Ends /\ ~is_empty(Q)
  BY NonEmptyIs
<1>2. ASSUME NEW e \in Ends
      PROVE  /\ Num(e) \in Int /\ Reach(e) \in Int
             /\ e # Infinity => Num(e) # Oo /\ Reach(e) = Num(e)
             /\ Num(e) < 0 => e # Infinity
  <2>1. Largest \in Nat
    BY ConstantsAre
  <2> QED
    BY <2>1, EndsAre, ReachIs DEF Oo
<1>3. Hull(Ratios(P, J)) = <<Num(Q.lb), Num(Q.rb)>>
  BY <1>1 DEF Value
<1>4. Fine \in Nat /\ Fine >= 1 /\ One \in Nat
  BY ConstantsAre, LargestMagnitude
<1>5. ASSUME NEW u \in Int, NEW c \in Int, NEW s \in Int, c >= 1, s * Fine \in Samples(P),
             \/ u = s /\ c * Fine \in Samples(J)
             \/ u = -s /\ (-c) * Fine \in Samples(J)
      PROVE  /\ Q.rb # Infinity => u * One <= Num(Q.rb) * c
             /\ Q.lb # Infinity => -(u * One) <= Num(Q.lb) * c
  <2> DEFINE q == <<(u * Fine) * One, c * Fine>>
  <2>1. c * Fine >= 1 /\ c * Fine \in Int /\ (-c) * Fine = -(c * Fine)
    BY <1>4, <1>5, SignsMultiply
  <2>2. ASSUME u = s, c * Fine \in Samples(J) PROVE q \in Ratios(P, J)
    <3>1. q = Ratio(s * Fine, c * Fine)
      BY <2>1, <2>2 DEF Ratio
    <3>2. c * Fine \in Samples(J) \ {0}
      BY <2>1, <2>2
    <3> HIDE DEF q
    <3> QED
      BY <1>5, <3>1, <3>2 DEF Ratios
  <2>3. ASSUME u = -s, (-c) * Fine \in Samples(J) PROVE q \in Ratios(P, J)
    <3>1. (-c) * Fine < 0 /\ -((-c) * Fine) = c * Fine /\ -(s * Fine) = u * Fine
      BY <1>4, <2>1, <2>3
    <3>2. Ratio(s * Fine, (-c) * Fine) = <<-(s * Fine) * One, -((-c) * Fine)>>
      BY <3>1 DEF Ratio
    <3>3. q = Ratio(s * Fine, (-c) * Fine)
      <4>1. s * Fine \in Int /\ -((s * Fine) * One) = (-(s * Fine)) * One
        BY <1>4
      <4>2. -((s * Fine) * One) = (u * Fine) * One
        BY <3>1, <4>1
      <4>3. Ratio(s * Fine, (-c) * Fine) = <<(u * Fine) * One, c * Fine>>
        BY <3>1, <3>2, <4>2
      <4> QED
        BY <4>3
    <3>4. (-c) * Fine \in Samples(J) \ {0}
      BY <2>3, <3>1
    <3> HIDE DEF q
    <3> QED
      BY <1>5, <3>3, <3>4 DEF Ratios
  <2>4. q \in Ratios(P, J)
    BY <1>5, <2>2, <2>3
  <2>5. q[1] = (u * Fine) * One /\ q[2] = c * Fine
    OBVIOUS
  <2> HIDE DEF q
  <2>6. /\ Num(Q.rb) = Oo \/ q[1] <= Num(Q.rb) * q[2]
        /\ Num(Q.lb) = Oo \/ -(q[1]) <= Num(Q.lb) * q[2]
    BY <1>3, <2>4, HullHas
  <2>7. (u * Fine) * One = (u * One) * Fine /\ u * One \in Int /\ -((u * One) * Fine) = (-(u * One)) * Fine
    BY <1>4
  <2>8. ASSUME NEW w \in Int PROVE w * (c * Fine) = (w * c) * Fine /\ w * c \in Int
    BY <1>4
  <2>9. /\ Q.rb # Infinity => (u * One) * Fine <= (Num(Q.rb) * c) * Fine
        /\ Q.lb # Infinity => (-(u * One)) * Fine <= (Num(Q.lb) * c) * Fine
    BY <1>1, <1>2, <2>5, <2>6, <2>7, <2>8
  <2>10. Num(Q.rb) * c \in Int /\ Num(Q.lb) * c \in Int /\ -(u * One) \in Int
    BY <1>1, <1>2, <2>7
  <2> QED
    BY <1>4, <2>7, <2>9, <2>10, ProductsCompare
<1>6. /\ Reach(P.rb) * Fine \in Samples(P) /\ (-Reach(P.lb)) * Fine \in Samples(P)
      /\ Reach(J.rb) * Fine \in Samples(J) /\ (-Reach(J.lb)) * Fine \in Samples(J)
  <2>1. /\ Reach(P.rb) * Fine \in Samples(P) /\ -(Reach(P.lb) * Fine) \in Samples(P)
        /\ Reach(J.rb) * Fine \in Samples(J) /\ -(Reach(J.lb) * Fine) \in Samples(J)
    BY SamplesAre DEF Top, Bottom
  <2>2. /\ -(Reach(P.lb) * Fine) = (-Reach(P.lb)) * Fine
        /\ -(Reach(J.lb) * Fine) = (-Reach(J.lb)) * Fine
    BY <1>1, <1>2, <1>4
  <2> QED
    BY <2>1, <2>2
<1> DEFINE a == Reach(P.lb)
           b == Reach(P.rb)
<1>7. a \in Int /\ b \in Int /\ -a \in Int /\ -b \in Int /\ -(-a) = a /\ -(-b) = b
      /\ -((-a) * One) = a * One /\ -((-b) * One) = b * One
  BY <1>1, <1>2, <1>4
<1>8. ASSUME Num(J.lb) < 0
      PROVE  /\ Q.rb # Infinity => b * One <= Num(Q.rb) * (-Num(J.lb))
             /\ Q.lb # Infinity => a * One <= Num(Q.lb) * (-Num(J.lb))
  <2>1. Reach(J.lb) = Num(J.lb) /\ -Num(J.lb) \in Int /\ -Num(J.lb) >= 1
    BY <1>1, <1>2, <1>8
  <2>2. Q.rb # Infinity => b * One <= Num(Q.rb) * (-Num(J.lb))
    BY <1>5, <1>6, <1>7, <2>1
  <2>3. Q.lb # Infinity => -((-a) * One) <= Num(Q.lb) * (-Num(J.lb))
    BY <1>5, <1>6, <1>7, <2>1
  <2> QED
    BY <1>7, <2>2, <2>3
<1>9. ASSUME Num(J.rb) < 0
      PROVE  /\ Q.rb # Infinity => a * One <= Num(Q.rb) * (-Num(J.rb))
             /\ Q.lb # Infinity => b * One <= Num(Q.lb) * (-Num(J.rb))
  <2>1. Reach(J.rb) = Num(J.rb) /\ -Num(J.rb) \in Int /\ -Num(J.rb) >= 1 /\ -(-Num(J.rb)) = Num(J.rb)
    BY <1>1, <1>2, <1>9
  <2>2. Q.rb # Infinity => a * One <= Num(Q.rb) * (-Num(J.rb))
    BY <1>5, <1>6, <1>7, <2>1
  <2>3. Q.lb # Infinity => -((-b) * One) <= Num(Q.lb) * (-Num(J.rb))
    BY <1>5, <1>6, <1>7, <2>1
  <2> QED
    BY <1>7, <2>2, <2>3
<1>10. ASSUME Num(J.rb) > 0
      PROVE  /\ Q.rb # Infinity => b * One <= Num(Q.rb) * Reach(J.rb)
             /\ Q.lb # Infinity => a * One <= Num(Q.lb) * Reach(J.rb)
  <2>1. Reach(J.rb) \in Int /\ Reach(J.rb) >= 1
    BY <1>1, <1>2, <1>10, ReachIs
  <2>2. Q.rb # Infinity => b * One <= Num(Q.rb) * Reach(J.rb)
    BY <1>5, <1>6, <1>7, <2>1
  <2>3. Q.lb # Infinity => -((-a) * One) <= Num(Q.lb) * Reach(J.rb)
    BY <1>5, <1>6, <1>7, <2>1
  <2> QED
    BY <1>7, <2>2, <2>3
<1>11. ASSUME Num(J.lb) > 0
      PROVE  /\ Q.rb # Infinity => a * One <= Num(Q.rb) * Reach(J.lb)
             /\ Q.lb # Infinity => b * One <= Num(Q.lb) * Reach(J.lb)
  <2>1. Reach(J.lb) \in Int /\ Reach(J.lb) >= 1
    BY <1>1, <1>2, <1>11, ReachIs
  <2>2. Q.rb # Infinity => a * One <= Num(Q.rb) * Reach(J.lb)
    BY <1>5, <1>6, <1>7, <2>1
  <2>3. Q.lb # Infinity => -((-b) * One) <= Num(Q.lb) * Reach(J.lb)
    BY <1>5, <1>6, <1>7, <2>1
  <2> QED
    BY <1>7, <2>2, <2>3
<1> HIDE DEF a, b
<1> QED
  BY <1>8, <1>9, <1>10, <1>11 DEF a, b

(* The products by an interval that has 0 have 0.                           *)
LEMMA ProductsHaveZero ==
  ASSUME NEW I \in NonEmpty, NEW J \in NonEmpty, NEW P \in NonEmpty,
         Value(P) = Hull(RealProducts(I, J)), Num(J.lb) >= 0, Num(J.rb) >= 0
  PROVE  Num(P.lb) >= 0 /\ Num(P.rb) >= 0
<1>1. P.lb \in Ends /\ P.rb \in Ends /\ ~is_empty(P) /\ Num(P.lb) \in Int /\ Num(P.rb) \in Int
  BY NonEmptyIs
<1>2. Hull(RealProducts(I, J)) = <<Num(P.lb), Num(P.rb)>>
  BY <1>1 DEF Value
<1>3. 0 \in Samples(J)
  <2>1. -Bottom(J) <= 0 /\ Top(J) >= 0
    BY SamplesAreOnSides
  <2> QED
    BY <2>1, ZeroIsSample
<1>4. Top(I) \in Samples(I) /\ Top(I) \in Int
  BY SamplesAre
<1> DEFINE d == Fine * Fine * One
           q == <<Top(I) * 0, d>>
<1>5. d \in Nat /\ d >= 1
  <2>1. Fine \in Nat /\ Fine >= 1 /\ One \in Nat /\ One >= 1
    BY ConstantsAre, LargestMagnitude
  <2>2. Fine * Fine \in Nat /\ Fine * Fine >= 1
    BY <2>1, SignsMultiply
  <2> QED
    BY <2>1, <2>2, SignsMultiply
<1>6. q \in RealProducts(I, J)
  BY <1>3, <1>4 DEF RealProducts
<1>7. q[1] = 0 /\ q[2] = d
  BY <1>4
<1> HIDE DEF d, q
<1>8. /\ Num(P.rb) = Oo \/ q[1] <= Num(P.rb) * q[2]
      /\ Num(P.lb) = Oo \/ -(q[1]) <= Num(P.lb) * q[2]
  BY <1>2, <1>6, HullHas
<1>9. Oo >= 0
  BY ConstantsAre DEF Oo
<1>10. ASSUME NEW e \in Int, e = Oo \/ 0 <= e * d PROVE e >= 0
  <2>1. 0 * d <= e * d => 0 <= e
    BY <1>5, ProductsCompare
  <2>2. 0 * d = 0
    BY <1>5
  <2> QED
    BY <1>9, <1>10, <2>1, <2>2
<1> QED
  BY <1>1, <1>7, <1>8, <1>10

(* operator%= of a product by one of its operands has all the other one.      *)
LEMMA ProductIsUndone ==
  ASSUME NEW I \in NonEmpty, NEW J \in NonEmpty, Sse \in BOOLEAN
  PROVE  /\ RelQuotient(Product(I, J), J, FALSE) \in NonEmpty
         /\ set_contains(RelQuotient(Product(I, J), J, FALSE), I)
         /\ Product(I, J) \in NonEmpty
         /\ straddles_zero(J) => straddles_zero(Product(I, J))
<1> DEFINE P == Product(I, J)
           Q == RelQuotient(P, J, FALSE)
<1>1. /\ I.lb \in Ends /\ I.rb \in Ends /\ J.lb \in Ends /\ J.rb \in Ends
      /\ Num(I.lb) \in Int /\ Num(I.rb) \in Int /\ Num(J.lb) \in Int /\ Num(J.rb) \in Int
      /\ ~is_empty(I) /\ ~is_empty(J)
      /\ Num(I.lb) <= Largest + 1 /\ Num(I.rb) <= Largest + 1
  BY NonEmptyIs, EndsAre
<1>2. I \in Intervals /\ J \in Intervals
  BY DEF Intervals
<1>3. Value(P) = Hull(RealProducts(I, J)) /\ P \in Intervals
  BY <1>2, ProductIsHull, ProductIsInterval
<1>4. P \in NonEmpty
  <2>1. CASE (Num(I.lb) = 0 /\ Num(I.rb) = 0) \/ (Num(J.lb) = 0 /\ Num(J.rb) = 0)
    <3>1. Value(P) = <<0, 0>>
      BY <1>3, <2>1, ZeroGivesHull
    <3>2. Value(emptyset) = << >>
      BY ValueIs
    <3> HIDE DEF P
    <3>3. P # emptyset
      BY <3>1, <3>2
    <3> QED
      BY <1>3, <3>3 DEF Intervals
  <2>2. CASE ~((Num(I.lb) = 0 /\ Num(I.rb) = 0) \/ (Num(J.lb) = 0 /\ Num(J.rb) = 0))
    <3> DEFINE s == IF Sse THEN SideBySigns(I) ELSE SideByBounds(I)
               t == IF Sse THEN SideBySigns(J) ELSE SideByBounds(J)
    <3>1. s # "Z" /\ t # "Z"
      <4>1. /\ SideBySigns(I) = "Z" => Num(I.lb) = 0 /\ Num(I.rb) = 0
            /\ SideByBounds(I) = "Z" => Num(I.lb) = 0 /\ Num(I.rb) = 0
            /\ SideBySigns(J) = "Z" => Num(J.lb) = 0 /\ Num(J.rb) = 0
            /\ SideByBounds(J) = "Z" => Num(J.lb) = 0 /\ Num(J.rb) = 0
        BY SidesOfZero
      <4>2. /\ SideBySigns(I) # "Z" /\ SideByBounds(I) # "Z"
            /\ SideBySigns(J) # "Z" /\ SideByBounds(J) # "Z"
        BY <2>2, <4>1
      <4>3. (Sse => s = SideBySigns(I)) /\ (~Sse => s = SideByBounds(I))
        OBVIOUS
      <4>4. (Sse => t = SideBySigns(J)) /\ (~Sse => t = SideByBounds(J))
        OBVIOUS
      <4> HIDE DEF s, t
      <4> QED
        BY <4>2, <4>3, <4>4
    <3>2. OnSide(s, I) /\ OnSide(t, J)
      BY <3>1, SidesAre
    <3>3. P = Products(<<s, t>>, I, J)
      BY <1>1, <3>1 DEF Product
    <3> HIDE DEF s, t, P
    <3> QED
      BY <3>2, <3>3, ProductsAreInterval
  <2> QED
    BY <2>1, <2>2
<1> HIDE DEF P
<1>5. P.lb \in Ends /\ P.rb \in Ends /\ ~is_empty(P)
  BY <1>4, NonEmptyIs
<1>6. ASSUME straddles_zero(J) PROVE straddles_zero(P)
  <2>1. Num(J.lb) >= 0 /\ Num(J.rb) >= 0
    BY <1>6, StraddlesAre
  <2>2. Num(P.lb) >= 0 /\ Num(P.rb) >= 0
    BY <1>3, <1>4, <2>1, ProductsHaveZero
  <2> QED
    BY <1>4, <2>2, StraddlesAre
<1>7. CASE straddles_zero(J)
  <2>1. Q = universe
    BY <1>1, <1>5, <1>6, <1>7 DEF RelQuotient
  <2>2. universe \in NonEmpty /\ universe.lb = Infinity /\ universe.rb = Infinity
    BY ConstantsAreIntervals DEF universe, Bounds
  <2>3. Num(Infinity) = Largest + 1
    BY EndsAre
  <2>4. set_contains(universe, I)
    BY <1>1, <2>2, <2>3, RelationsCompare
  <2>5. Q \in NonEmpty /\ set_contains(Q, I)
    BY <2>1, <2>2, <2>4
  <2> QED
    BY <1>4, <1>6, <2>5 DEF P, Q
<1>8. CASE ~straddles_zero(J)
  <2>1. Q = Quotient(P, J, FALSE)
    BY <1>1, <1>5, <1>8 DEF RelQuotient
  <2>2. Num(J.lb) < 0 \/ Num(J.rb) < 0
    BY <1>1, <1>8, StraddlesAre
  <2>3. Value(Q) = Hull(Ratios(P, J)) /\ Q \in Intervals
    BY <1>2, <1>3, <2>1, QuotientIsHull, QuotientIsInterval
  <2> HIDE DEF Q
  <2>4. Q \in NonEmpty
    <3>1. Ratios(P, J) # {}
      <4>1. ~(Num(J.lb) = 0 /\ Num(J.rb) = 0)
        BY <2>2
      <4> QED
        BY <1>4, <4>1, RatiosAre
    <3>2. Value(Q) # << >>
      BY <2>3, <3>1 DEF Hull
    <3>3. Q # emptyset
      BY <3>2, ValueIs
    <3> QED
      BY <2>3, <3>3 DEF Intervals
  <2>5. Q.lb \in Ends /\ Q.rb \in Ends
    BY <2>4, NonEmptyIs
  <2>6. Largest \in Nat
    BY ConstantsAre
  <2>7. ASSUME NEW e \in {J.lb, J.rb}, Num(e) < 0
        PROVE  -Num(e) \in Nat /\ -Num(e) >= 1 /\ -Num(e) <= Largest /\ e # Infinity
    <3>1. Num(e) \in Int /\ Num(e) >= -Largest /\ (e = Infinity => Num(e) = Largest + 1)
      BY <1>1, EndsAre
    <3> QED
      BY <2>6, <2>7, <3>1
  <2>8. CASE Num(J.lb) < 0
    <3> DEFINE c == -Num(J.lb)
    <3>1. c \in Nat /\ c >= 1 /\ c <= Largest /\ J.lb # Infinity
      BY <2>7, <2>8
    <3>2. /\ P.rb # Infinity => Reach(I.rb) * c <= Num(P.rb) * One
          /\ P.lb # Infinity => Reach(I.lb) * c <= Num(P.lb) * One
      BY <1>3, <1>4, <3>1, ProductsReach
    <3>3. /\ Q.rb # Infinity => Reach(P.rb) * One <= Num(Q.rb) * c
          /\ Q.lb # Infinity => Reach(P.lb) * One <= Num(Q.lb) * c
      BY <1>4, <2>3, <2>4, <2>8, QuotientsReach
    <3> HIDE DEF c
    <3>4. Num(I.rb) <= Num(Q.rb) /\ Num(I.lb) <= Num(Q.lb)
      BY <1>1, <1>5, <2>5, <3>1, <3>2, <3>3, UndoneIsUpper
    <3>5. set_contains(Q, I)
      BY <2>4, <3>4, RelationsCompare
    <3> QED
      BY <1>4, <1>6, <2>4, <3>5 DEF P, Q
  <2>9. CASE Num(J.rb) < 0
    <3> DEFINE c == -Num(J.rb)
    <3>1. c \in Nat /\ c >= 1 /\ c <= Largest /\ J.rb # Infinity /\ Num(J.rb) = -c
      BY <1>1, <2>7, <2>9
    <3>2. /\ P.rb # Infinity => -(Reach(I.lb) * Num(J.rb)) <= Num(P.rb) * One
          /\ P.lb # Infinity => -(Reach(I.rb) * Num(J.rb)) <= Num(P.lb) * One
      BY <1>3, <1>4, <3>1, ProductsReach
    <3>3. /\ Q.rb # Infinity => Reach(P.lb) * One <= Num(Q.rb) * c
          /\ Q.lb # Infinity => Reach(P.rb) * One <= Num(Q.lb) * c
      BY <1>4, <2>3, <2>4, <2>9, QuotientsReach
    <3> HIDE DEF c
    <3>4. ASSUME NEW e \in Ends PROVE -(Reach(e) * Num(J.rb)) = Reach(e) * c
      <4>1. Reach(e) \in Int /\ Num(J.rb) = -c /\ c \in Int
        BY <3>1, ReachIs
      <4> QED
        BY <4>1
    <3>5. /\ P.rb # Infinity => Reach(I.lb) * c <= Num(P.rb) * One
          /\ P.lb # Infinity => Reach(I.rb) * c <= Num(P.lb) * One
      BY <1>1, <3>2, <3>4
    <3>6. Num(I.rb) <= Num(Q.rb) /\ Num(I.lb) <= Num(Q.lb)
      BY <1>1, <1>5, <2>5, <3>1, <3>3, <3>5, UndoneIsUpper
    <3>7. set_contains(Q, I)
      BY <2>4, <3>6, RelationsCompare
    <3> QED
      BY <1>4, <1>6, <2>4, <3>7 DEF P, Q
  <2> QED
    BY <2>2, <2>8, <2>9
<1> QED
  BY <1>7, <1>8

(* A sum less one of its terms has all the other.                           *)
LEMMA SumIsUndone ==
  ASSUME NEW I \in NonEmpty, NEW J \in NonEmpty
  PROVE  LET U == Difference(Plus(I, J, FALSE), J, FALSE)
         IN U \in NonEmpty /\ set_contains(U, I)
<1> DEFINE S == Plus(I, J, FALSE)
           U == Difference(S, J, FALSE)
<1>1. /\ I.lb \in Ends /\ I.rb \in Ends /\ J.lb \in Ends /\ J.rb \in Ends
      /\ Num(J.lb) + Num(J.rb) >= 0 /\ Num(I.lb) + Num(I.rb) >= 0
  BY NonEmptyIs
<1>2. S.lb = AddUp(I.lb, J.lb) /\ S.rb = AddUp(I.rb, J.rb)
  BY DEF Plus, Bounds
<1>3. U = Bounds(AddUp(S.lb, J.rb), AddUp(S.rb, J.lb))
  BY DEF Difference
<1> HIDE DEF S, U
<1>4. S.lb \in Ends /\ S.rb \in Ends
  BY <1>1, <1>2, SumIsUpper
<1>5. ASSUME NEW x \in Ends, NEW y \in Ends, NEW z \in Ends, Num(y) + Num(z) >= 0
      PROVE  Num(x) <= Num(AddUp(AddUp(x, y), z))
  <2> DEFINE s == AddUp(x, y)
             u == AddUp(s, z)
  <2>1. s \in Ends /\ AtLeast(s, Num(x) + Num(y), 1)
    BY SumIsUpper
  <2> HIDE DEF s
  <2>2. u \in Ends /\ AtLeast(u, Num(s) + Num(z), 1)
    BY <2>1, SumIsUpper
  <2> HIDE DEF u
  <2>3. /\ Num(x) \in Int /\ Num(y) \in Int /\ Num(z) \in Int /\ Num(s) \in Int /\ Num(u) \in Int
        /\ Num(x) <= Largest + 1 /\ Largest \in Nat
    BY <2>1, <2>2, EndsAre, ConstantsAre
  <2>4. s = Infinity \/ Num(s) >= Num(x) + Num(y)
    BY <2>1, <2>3 DEF AtLeast
  <2>5. u = Infinity \/ Num(u) >= Num(s) + Num(z)
    BY <2>2, <2>3 DEF AtLeast
  <2>6. s = Infinity => u = Infinity
    <3>1. s = Infinity => IsInf(s)
      BY DEF Infinity, IsInf
    <3> QED
      BY <2>1, <3>1, EndsAre DEF AddUp, u
  <2>7. u = Infinity => Num(u) = Largest + 1
    BY <2>2, EndsAre
  <2>8. Num(x) <= Num(u)
    BY <1>5, <2>3, <2>4, <2>5, <2>6, <2>7
  <2> QED
    BY <2>8 DEF s, u
<1>6. Num(J.rb) + Num(J.lb) >= 0
  BY <1>1, NonEmptyIs
<1>7. /\ U.lb = AddUp(AddUp(I.lb, J.lb), J.rb) /\ U.rb = AddUp(AddUp(I.rb, J.rb), J.lb)
      /\ U.lb \in Ends /\ U.rb \in Ends
  BY <1>1, <1>2, <1>3, <1>4, SumIsUpper DEF Bounds
<1>8. Num(I.lb) <= Num(U.lb) /\ Num(I.rb) <= Num(U.rb)
  BY <1>1, <1>5, <1>6, <1>7
<1>9. Num(U.lb) \in Int /\ Num(U.rb) \in Int /\ Num(I.lb) \in Int /\ Num(I.rb) \in Int
  BY <1>1, <1>7, EndsAre
<1>10. U \in NonEmpty
  <2>1. Num(U.lb) + Num(U.rb) >= 0
    BY <1>1, <1>8, <1>9
  <2>2. U = Bounds(U.lb, U.rb)
    BY <1>3 DEF Bounds
  <2> QED
    BY <1>7, <2>1, <2>2 DEF NonEmpty, Bounds
<1>11. set_contains(U, I)
  BY <1>8, <1>10, RelationsCompare
<1> QED
  BY <1>10, <1>11 DEF U, S

-----------------------------------------------------------------------------
(* An interval of two numbers in order.                                     *)
LEMMA ConstructedIs ==
  ASSUME NEW l \in Doubles, NEW r \in Doubles,
         Num(l) <= Num(r), Num(l) <= Largest, Num(r) >= -Largest
  PROVE  /\ Interval(l, r) \in NonEmpty
         /\ Interval(l, r).lb = Opposite(l) /\ Interval(l, r).rb = r
         /\ Num(Opposite(l)) = -Num(l)
<1>1. /\ Num(l) \in Int /\ Num(r) \in Int /\ l # NaN /\ r # NaN
      /\ Largest \in Nat /\ Oo = Largest + 1
  BY NumOfMagnitude, FiniteOrInfinite, ConstantsAre DEF Oo
<1>2. /\ Infinity # NaN /\ Num(Infinity) = Largest + 1
      /\ MinusInfinity # NaN /\ Num(MinusInfinity) = -(Largest + 1)
  BY EndsAre, OppositeIsDouble, FiniteOrInfinite DEF MinusInfinity
<1>3. Leq(l, r) /\ Lt(l, Infinity) /\ Lt(MinusInfinity, r)
  BY <1>1, <1>2 DEF Leq, Lt
<1>4. Interval(l, r) = Bounds(Opposite(l), r)
  BY <1>3 DEF Interval
<1>5. Opposite(l) \in Doubles /\ Num(Opposite(l)) = -Num(l)
  BY OppositeIsDouble
<1>6. Opposite(l) \in Ends /\ r \in Ends
  BY <1>1, <1>5 DEF Ends
<1>7. Bounds(Opposite(l), r) \in NonEmpty
  BY <1>1, <1>5, <1>6 DEF NonEmpty, Bounds
<1> QED
  BY <1>4, <1>5, <1>7 DEF Bounds

(* The bounds of the magnitudes of an interval.                             *)
LEMMA MagnitudesOf ==
  ASSUME NEW I \in NonEmpty
  PROVE  /\ abs(I) \in NonEmpty
         /\ Num(abs(I).lb) = IF Num(I.lb) <= 0 THEN Num(I.lb) ELSE IF Num(I.rb) <= 0 THEN Num(I.rb) ELSE 0
         /\ Num(abs(I).rb) = IF Num(I.lb) <= Num(I.rb) THEN Num(I.rb) ELSE Num(I.lb)
<1>1. /\ I.lb \in Ends /\ I.rb \in Ends /\ I.lb \in Doubles /\ I.rb \in Doubles /\ ~is_empty(I)
      /\ Num(I.lb) \in Int /\ Num(I.rb) \in Int /\ Num(I.lb) + Num(I.rb) >= 0
      /\ right(I) = I.rb
      /\ Num(I.lb) <= Largest + 1 /\ Num(I.lb) >= -Largest
      /\ Num(I.rb) <= Largest + 1 /\ Num(I.rb) >= -Largest /\ Largest \in Nat
  BY NonEmptyIs, EndsAre, ConstantsAre
<1>2. /\ certainly_positive(I) <=> Num(I.lb) <= 0
      /\ certainly_negative(I) <=> Num(I.rb) <= 0
  BY <1>1, BoundsCompare DEF certainly_positive, certainly_negative
<1>3. CASE Num(I.lb) <= 0
  <2>1. abs(I) = I
    BY <1>2, <1>3 DEF abs
  <2> QED
    BY <1>1, <1>3, <2>1
<1>4. CASE Num(I.lb) > 0 /\ Num(I.rb) <= 0
  <2> DEFINE l == Opposite(I.rb)
  <2>1. abs(I) = Interval(l, I.lb)
    <3>1. ~is_empty(I) /\ ~certainly_positive(I) /\ certainly_negative(I) /\ right(I) = I.rb
      BY <1>1, <1>2, <1>4
    <3>2. abs(I) = Interval(Opposite(right(I)), I.lb)
      BY <3>1, Zenon DEF abs
    <3> QED
      BY <3>1, <3>2
  <2>2. l \in Doubles /\ Num(l) = -Num(I.rb)
    BY <1>1, OppositeIsDouble
  <2> HIDE DEF l
  <2>3. /\ Interval(l, I.lb) \in NonEmpty
        /\ Interval(l, I.lb).lb = Opposite(l) /\ Interval(l, I.lb).rb = I.lb
        /\ Num(Opposite(l)) = -Num(l)
    BY <1>1, <1>4, <2>2, ConstructedIs
  <2> QED
    BY <1>1, <1>4, <2>1, <2>2, <2>3
<1>5. CASE Num(I.lb) > 0 /\ Num(I.rb) > 0
  <2> DEFINE r == maximum(I.lb, I.rb)
             l == Zero(FALSE)
  <2>1. abs(I) = Interval(l, r)
    <3>1. ~is_empty(I) /\ ~certainly_positive(I) /\ ~certainly_negative(I)
      BY <1>1, <1>2, <1>5
    <3> QED
      BY <3>1, Zenon DEF abs
  <2>2. /\ r \in Doubles
        /\ Num(r) = IF Num(I.lb) <= Num(I.rb) THEN Num(I.rb) ELSE Num(I.lb)
    BY <1>1, ExtremesOfTwo
  <2>3. l \in Doubles /\ Num(l) = 0
    BY EndsAre
  <2> HIDE DEF l, r
  <2>4. Num(l) <= Num(r) /\ Num(l) <= Largest /\ Num(r) >= -Largest
    BY <1>1, <1>5, <2>2, <2>3
  <2>5. /\ Interval(l, r) \in NonEmpty
        /\ Interval(l, r).lb = Opposite(l) /\ Interval(l, r).rb = r
        /\ Num(Opposite(l)) = -Num(l)
    BY <2>2, <2>3, <2>4, ConstructedIs
  <2>6. abs(I).lb = Opposite(l) /\ abs(I).rb = r /\ abs(I) \in NonEmpty
    BY <2>1, <2>5
  <2>7. Num(abs(I).lb) = 0 /\ Num(abs(I).rb) = Num(r)
    <3>1. Num(Opposite(l)) = 0
      <4>1. Num(l) \in Int /\ Num(Opposite(l)) \in Int
        BY <2>3, OppositeIsDouble, NumOfMagnitude
      <4>2. Num(Opposite(l)) + Num(l) = 0
        BY <2>5, <4>1
      <4> QED
        BY <2>3, <4>1, <4>2
    <3> QED
      BY <2>6, <3>1, Zenon
  <2> QED
    BY <1>1, <1>5, <2>2, <2>6, <2>7
<1> QED
  BY <1>1, <1>3, <1>4, <1>5

(* The x of an interval whose magnitude is in another one.                  *)
LEMMA InverseOfMagnitudes ==
  ASSUME NEW K \in NonEmpty, NEW I \in NonEmpty, Sse \in BOOLEAN
  PROVE  LET J == Meet(K, positive)
         IN /\ Num(K.rb) < 0 => invabs_rel(K, I) = emptyset
            /\ Num(K.rb) >= 0 =>
                 /\ J \in NonEmpty /\ Minus(J) \in NonEmpty
                 /\ Num(J.lb) = IF Num(K.lb) <= 0 THEN Num(K.lb) ELSE 0
                 /\ Num(J.rb) = Num(K.rb)
                 /\ Minus(J).lb = J.rb /\ Minus(J).rb = J.lb
                 /\ invabs_rel(K, I) = IF Num(I.lb) <= 0 THEN Meet(J, I)
                                       ELSE IF Num(I.rb) <= 0 THEN Meet(Minus(J), I)
                                       ELSE Join(Meet(J, I), Meet(Minus(J), I))
<1> DEFINE J == Meet(K, positive)
<1>1. /\ Num(K.lb) \in Int /\ Num(K.rb) \in Int /\ Num(I.lb) \in Int /\ Num(I.rb) \in Int
      /\ Num(K.lb) + Num(K.rb) >= 0 /\ Num(K.rb) <= Largest + 1 /\ Largest \in Nat
  BY NonEmptyIs, EndsAre, ConstantsAre
<1>2. /\ positive \in NonEmpty /\ Num(positive.lb) = 0 /\ Num(positive.rb) = Largest + 1
      /\ zero \in NonEmpty /\ Num(zero.lb) = 0 /\ Num(zero.rb) = 0
  BY ConstantsAreIntervals, EndsAre DEF positive, zero, Bounds
<1>3. /\ Num(K.rb) >= 0 => /\ J \in NonEmpty
                           /\ Num(J.lb) = IF Num(K.lb) <= 0 THEN Num(K.lb) ELSE 0
                           /\ Num(J.rb) = Num(K.rb)
      /\ Num(K.rb) < 0 => J = emptyset
  BY <1>1, <1>2, MeetIs
<1>4. /\ certainly_geq(I, zero) <=> Num(I.lb) <= 0
      /\ certainly_leq(I, zero) <=> Num(I.rb) <= 0
  BY <1>1, <1>2, RelationsCompare
<1>5. invabs_rel(K, I) = IF is_empty(J) THEN emptyset
                         ELSE IF certainly_geq(I, zero) THEN Meet(J, I)
                         ELSE IF certainly_leq(I, zero) THEN Meet(Minus(J), I)
                         ELSE Join(Meet(J, I), Meet(Minus(J), I))
  BY DEF invabs_rel
<1>6. Minus(J).lb = J.rb /\ Minus(J).rb = J.lb
  BY DEF Minus, Bounds
<1> HIDE DEF J
<1>7. ASSUME J \in NonEmpty PROVE Minus(J) \in NonEmpty /\ ~is_empty(J)
  BY <1>7, NonEmptyIs DEF Minus, Bounds, NonEmpty
<1>8. is_empty(emptyset)
  BY EmptySetIs
<1> QED
  BY <1>3, <1>4, <1>5, <1>6, <1>7, <1>8 DEF J

(* The magnitudes of an interval are those of all its reals.                 *)
LEMMA MagnitudesAreUndone ==
  ASSUME NEW I \in NonEmpty, Sse \in BOOLEAN
  PROVE  set_contains(invabs_rel(abs(I), I), I)
<1> DEFINE K == abs(I)
           J == Meet(K, positive)
           U == invabs_rel(K, I)
<1>1. /\ Num(I.lb) \in Int /\ Num(I.rb) \in Int /\ Num(I.lb) + Num(I.rb) >= 0
  BY NonEmptyIs
<1>2. /\ K \in NonEmpty
      /\ Num(K.lb) = IF Num(I.lb) <= 0 THEN Num(I.lb) ELSE IF Num(I.rb) <= 0 THEN Num(I.rb) ELSE 0
      /\ Num(K.rb) = IF Num(I.lb) <= Num(I.rb) THEN Num(I.rb) ELSE Num(I.lb)
  BY MagnitudesOf
<1> HIDE DEF K
<1>3. Num(K.rb) >= 0 /\ Num(K.lb) <= 0
  BY <1>1, <1>2
<1>4. /\ J \in NonEmpty /\ Minus(J) \in NonEmpty
      /\ Num(J.lb) = Num(K.lb) /\ Num(J.rb) = Num(K.rb)
      /\ Minus(J).lb = J.rb /\ Minus(J).rb = J.lb
      /\ U = IF Num(I.lb) <= 0 THEN Meet(J, I)
             ELSE IF Num(I.rb) <= 0 THEN Meet(Minus(J), I)
             ELSE Join(Meet(J, I), Meet(Minus(J), I))
  BY <1>2, <1>3, InverseOfMagnitudes
<1> HIDE DEF J, U
<1>5. CASE Num(I.lb) <= 0
  <2>1. Meet(J, I) \in NonEmpty /\ Num(Meet(J, I).lb) = Num(I.lb) /\ Num(Meet(J, I).rb) = Num(I.rb)
    BY <1>1, <1>2, <1>4, <1>5, MeetIs
  <2>2. U \in NonEmpty /\ Num(U.lb) = Num(I.lb) /\ Num(U.rb) = Num(I.rb)
    BY <1>4, <1>5, <2>1
  <2> QED
    BY <1>1, <2>2, RelationsCompare DEF U, K
<1>6. CASE Num(I.lb) > 0 /\ Num(I.rb) <= 0
  <2> DEFINE N == Minus(J)
  <2>1. N \in NonEmpty /\ Num(N.lb) = Num(I.lb) /\ Num(N.rb) = Num(I.rb)
    BY <1>1, <1>2, <1>4, <1>6
  <2> HIDE DEF N
  <2>2. Meet(N, I) \in NonEmpty /\ Num(Meet(N, I).lb) = Num(I.lb) /\ Num(Meet(N, I).rb) = Num(I.rb)
    BY <1>1, <2>1, MeetIs
  <2>3. U \in NonEmpty /\ Num(U.lb) = Num(I.lb) /\ Num(U.rb) = Num(I.rb)
    BY <1>1, <1>4, <1>6, <2>2 DEF N
  <2> QED
    BY <1>1, <2>3, RelationsCompare DEF U, K
<1>7. CASE Num(I.lb) > 0 /\ Num(I.rb) > 0
  <2> DEFINE N == Minus(J)
             A == Meet(J, I)
             B == Meet(N, I)
  <2>1. /\ N \in NonEmpty /\ Num(N.lb) = Num(K.rb) /\ Num(N.rb) = 0
        /\ Num(J.lb) = 0 /\ Num(J.rb) = Num(K.rb)
        /\ Num(K.rb) >= Num(I.rb) /\ Num(K.rb) >= Num(I.lb) /\ Num(K.rb) \in Int
    BY <1>1, <1>2, <1>4, <1>7
  <2> HIDE DEF N
  <2>2. A \in NonEmpty /\ Num(A.lb) = 0 /\ Num(A.rb) = Num(I.rb)
    BY <1>1, <1>4, <1>7, <2>1, MeetIs
  <2>3. B \in NonEmpty /\ Num(B.lb) = Num(I.lb) /\ Num(B.rb) = 0
    BY <1>1, <1>7, <2>1, MeetIs
  <2>4. U = Join(A, B)
    BY <1>1, <1>4, <1>7 DEF N
  <2> HIDE DEF A, B
  <2>5. Join(A, B) \in NonEmpty /\ Num(Join(A, B).lb) = Num(I.lb) /\ Num(Join(A, B).rb) = Num(I.rb)
    BY <1>1, <1>7, <2>2, <2>3, JoinIs
  <2>6. U \in NonEmpty /\ Num(U.lb) = Num(I.lb) /\ Num(U.rb) = Num(I.rb)
    BY <2>4, <2>5
  <2> QED
    BY <1>1, <2>6, RelationsCompare DEF U, K
<1> QED
  BY <1>1, <1>5, <1>6, <1>7

(* div_rel() of a product by one of its operands keeps all the other one.    *)
LEMMA ProductIsDivided ==
  ASSUME NEW I \in NonEmpty, NEW J \in NonEmpty, Sse \in BOOLEAN
  PROVE  set_contains(div_rel(Product(I, J), J, I), I)
<1> DEFINE P == Product(I, J)
           Q == Quotient(P, J, FALSE)
           U == div_rel(P, J, I)
<1>1. /\ ~is_empty(I) /\ ~is_empty(J)
      /\ Num(I.lb) \in Int /\ Num(I.rb) \in Int /\ Num(I.lb) + Num(I.rb) >= 0
  BY NonEmptyIs
<1>2. /\ RelQuotient(P, J, FALSE) \in NonEmpty /\ set_contains(RelQuotient(P, J, FALSE), I)
      /\ P \in NonEmpty /\ (straddles_zero(J) => straddles_zero(P))
  BY ProductIsUndone
<1> HIDE DEF P
<1>3. ~is_empty(P)
  BY <1>2, NonEmptyIs
<1>4. CASE straddles_zero(J)
  <2>1. U = I
    BY <1>1, <1>2, <1>3, <1>4 DEF div_rel
  <2>2. set_contains(I, I)
    BY <1>1, RelationsCompare
  <2> QED
    BY <2>1, <2>2 DEF P
<1>5. CASE ~straddles_zero(J)
  <2>1. RelQuotient(P, J, FALSE) = Q
    BY <1>1, <1>3, <1>5 DEF RelQuotient
  <2>2. Class(J) # "M"
    <3>1. Num(J.lb) \in Int /\ Num(J.rb) \in Int
      BY NonEmptyIs
    <3> QED
      BY <1>5, <3>1, StraddlesAre, ClassIs
  <2>3. U = Meet(I, Q)
    BY <1>1, <1>3, <1>5, <2>2 DEF div_rel
  <2> HIDE DEF Q, U
  <2>4. Q \in NonEmpty /\ set_contains(Q, I)
    BY <1>2, <2>1
  <2>5. Num(Q.lb) \in Int /\ Num(Q.rb) \in Int /\ Num(I.lb) <= Num(Q.lb) /\ Num(I.rb) <= Num(Q.rb)
    BY <2>4, NonEmptyIs, RelationsCompare
  <2>6. Meet(I, Q) \in NonEmpty /\ Num(Meet(I, Q).lb) = Num(I.lb) /\ Num(Meet(I, Q).rb) = Num(I.rb)
    BY <1>1, <2>4, <2>5, MeetIs
  <2>7. set_contains(Meet(I, Q), I)
    BY <1>1, <2>6, RelationsCompare
  <2> QED
    BY <2>3, <2>7 DEF U, P
<1> QED
  BY <1>4, <1>5

(* The operations undone, of what a program comes to.                        *)
LEMMA ReversesOfKept ==
  ASSUME ~Aliased, Kept
  PROVE  OperationsAreReversed
<1>1. X \in Intervals /\ Y \in Intervals /\ Sse \in BOOLEAN
  BY ProgramAssumption DEF Kept, X, Y, Names
<1>2. Value(RelQuotient(X, Y, FALSE)) = RelHull(X, Y)
  BY <1>1, ReverseIsHull
<1>3. SameAllowed => Value(RelQuotient(X, X, TRUE)) = RelHull(X, X)
  <2>1. SameAllowed => Sse
    BY DEF SameAllowed
  <2> QED
    BY <1>1, <2>1, ReverseIsHull
<1>4. ASSUME ~is_empty(Y)
      PROVE  /\ set_contains(Difference(Plus(X, Y, FALSE), Y, FALSE), X)
             /\ set_contains(RelQuotient(Product(X, Y), Y, FALSE), X)
             /\ set_contains(invabs_rel(abs(X), X), X)
             /\ set_contains(div_rel(Product(X, Y), Y, X), X)
  <2>1. CASE X = emptyset
    BY <2>1, EmptySetIs DEF set_contains
  <2>2. CASE X \in NonEmpty
    <3>1. Y \in NonEmpty
      BY <1>1, <1>4, EmptySetIs
    <3> QED
      BY <1>1, <2>2, <3>1, SumIsUndone, ProductIsUndone, MagnitudesAreUndone, ProductIsDivided
  <2> QED
    BY <1>1, <2>1, <2>2 DEF Intervals
<1> QED
  BY <1>2, <1>3, <1>4 DEF OperationsAreReversed, ReversesAreHulls, UndoingKeepsTheOperand

-----------------------------------------------------------------------------
(* A bound as a factor of Solves(): an infinite one is a number of units     *)
(* whose product with a finite bound is beyond the doubles.                  *)
Span(e) == IF IsInf(e) THEN Num(e) * Beyond * Fine ELSE Num(e)

(* A rational is in an interval when it is between the bounds.              *)
LEMMA InRationalIs ==
  ASSUME NEW I \in NonEmpty, NEW q, q[1] \in Int, q[2] \in Int
  PROVE  InRational(q, I) <=> AtLeast(I.lb, -(q[1]), q[2]) /\ AtLeast(I.rb, q[1], q[2])
<1>1. /\ I.lb \in Ends /\ I.rb \in Ends /\ Num(I.lb) \in Int /\ Num(I.rb) \in Int
      /\ left(I) = MinusInfinity <=> I.lb = Infinity
      /\ Num(left(I)) = -Num(I.lb) /\ right(I) = I.rb /\ ~is_empty(I)
  BY NonEmptyIs, LeftIsInfinite
<1>2. /\ Num(left(I)) * q[2] = -(q[2] * Num(I.lb))
      /\ Num(right(I)) * q[2] = q[2] * Num(I.rb)
      /\ q[2] * Num(I.lb) \in Int /\ q[2] * Num(I.rb) \in Int
  BY <1>1
<1>3. Num(left(I)) * q[2] <= q[1] <=> -(q[1]) <= q[2] * Num(I.lb)
  BY <1>2
<1> QED
  BY <1>1, <1>2, <1>3 DEF InRational, AtLeast

(* A bound farther out is at least what a nearer one is.                     *)
LEMMA FartherIsAtLeast ==
  ASSUME NEW x \in Ends, NEW y \in Ends, Num(x) <= Num(y),
         NEW n \in Int, NEW d \in Nat, AtLeast(x, n, d)
  PROVE  AtLeast(y, n, d)
<1>1. /\ Num(x) \in Int /\ Num(y) \in Int /\ Largest \in Nat
      /\ x = Infinity <=> Num(x) = Largest + 1
      /\ y = Infinity <=> Num(y) = Largest + 1
      /\ Num(y) <= Largest + 1
  BY EndsAre, ConstantsAre
<1>2. CASE x = Infinity
  BY <1>1, <1>2 DEF AtLeast
<1>3. CASE x # Infinity
  <2>1. n <= d * Num(x)
    BY <1>3 DEF AtLeast
  <2>2. d * (Num(y) - Num(x)) >= 0
    BY <1>1, SignsMultiply
  <2>3. d * (Num(y) - Num(x)) = d * Num(y) - d * Num(x) /\ d * Num(y) \in Int /\ d * Num(x) \in Int
    BY <1>1
  <2> QED
    BY <2>1, <2>2, <2>3 DEF AtLeast
<1> QED
  BY <1>2, <1>3

(* A rational in two intervals is in the one that has both, and one of either *)
(* is in the one that joins them.                                           *)
LEMMA MeetHas ==
  ASSUME NEW I \in NonEmpty, NEW J \in NonEmpty, NEW q, q[1] \in Int, q[2] \in Nat, q[2] >= 1,
         InRational(q, I), InRational(q, J)
  PROVE  Meet(I, J) \in NonEmpty /\ InRational(q, Meet(I, J))
<1> DEFINE n == q[1]
           d == q[2]
           M == Meet(I, J)
           l == IF Num(I.lb) <= Num(J.lb) THEN I.lb ELSE J.lb
           r == IF Num(I.rb) <= Num(J.rb) THEN I.rb ELSE J.rb
<1>1. /\ I.lb \in Ends /\ I.rb \in Ends /\ J.lb \in Ends /\ J.rb \in Ends
      /\ Num(I.lb) \in Int /\ Num(I.rb) \in Int /\ Num(J.lb) \in Int /\ Num(J.rb) \in Int
  BY NonEmptyIs
<1>2. /\ AtLeast(I.lb, -n, d) /\ AtLeast(I.rb, n, d)
      /\ AtLeast(J.lb, -n, d) /\ AtLeast(J.rb, n, d)
  BY InRationalIs
<1>3. /\ l \in Ends /\ r \in Ends /\ AtLeast(l, -n, d) /\ AtLeast(r, n, d)
      /\ Num(l) = IF Num(I.lb) <= Num(J.lb) THEN Num(I.lb) ELSE Num(J.lb)
      /\ Num(r) = IF Num(I.rb) <= Num(J.rb) THEN Num(I.rb) ELSE Num(J.rb)
  BY <1>1, <1>2
<1> HIDE DEF l, r
<1>4. n \in Int /\ -n \in Int /\ d \in Nat /\ d >= 1
  OBVIOUS
<1>5. /\ Num(l) \in Int /\ Num(r) \in Int /\ -Largest <= Num(l) /\ -Largest <= Num(r) /\ Largest \in Nat
      /\ l = Infinity => Num(l) = Largest + 1
      /\ r = Infinity => Num(r) = Largest + 1
  BY <1>3, EndsAre, ConstantsAre
<1> HIDE DEF n, d, M
<1>6. Num(l) + Num(r) >= 0
  <2>1. CASE l = Infinity \/ r = Infinity
    BY <1>5, <2>1
  <2>2. CASE l # Infinity /\ r # Infinity
    <3>1. -n <= d * Num(l) /\ n <= d * Num(r)
      BY <1>3, <2>2 DEF AtLeast
    <3>2. d * (Num(l) + Num(r)) = d * Num(l) + d * Num(r) /\ d * Num(l) \in Int /\ d * Num(r) \in Int
      BY <1>4, <1>5
    <3>3. d * (Num(l) + Num(r)) >= 0
      BY <1>4, <3>1, <3>2
    <3>4. \A w \in Int : d * w >= 0 => w >= 0
      <4>1. \A w \in Int : w * d = d * w /\ d * w \in Int /\ 0 * d = 0
        BY <1>4
      <4> QED
        BY <1>4, <4>1, ProductsCompare
    <3>5. Num(l) + Num(r) \in Int
      BY <1>5
    <3> QED
      BY <3>3, <3>4, <3>5
  <2> QED
    BY <2>1, <2>2
<1>7. M \in NonEmpty /\ Num(M.lb) = Num(l) /\ Num(M.rb) = Num(r)
  BY <1>3, <1>6, MeetIs DEF M
<1>8. M.lb \in Ends /\ M.rb \in Ends
  BY <1>7, NonEmptyIs
<1>9. AtLeast(M.lb, -n, d) /\ AtLeast(M.rb, n, d)
  BY <1>3, <1>4, <1>5, <1>7, <1>8, FartherIsAtLeast
<1>10. InRational(q, M)
  BY <1>7, <1>9, InRationalIs DEF n, d
<1> QED
  BY <1>7, <1>10 DEF M

LEMMA JoinHas ==
  ASSUME NEW I \in Intervals, NEW J \in Intervals, NEW q, q[1] \in Int, q[2] \in Nat,
         (I \in NonEmpty /\ InRational(q, I)) \/ (J \in NonEmpty /\ InRational(q, J))
  PROVE  InRational(q, Join(I, J))
<1>1. CASE is_empty(I)
  BY <1>1, NonEmptyIs DEF Join
<1>2. CASE ~is_empty(I) /\ is_empty(J)
  BY <1>2, NonEmptyIs DEF Join
<1>3. CASE ~is_empty(I) /\ ~is_empty(J)
  <2> DEFINE U == Join(I, J)
             n == q[1]
             d == q[2]
  <2>1. I \in NonEmpty /\ J \in NonEmpty
    BY <1>3, EmptySetIs
  <2>2. /\ I.lb \in Ends /\ I.rb \in Ends /\ J.lb \in Ends /\ J.rb \in Ends
        /\ Num(I.lb) \in Int /\ Num(I.rb) \in Int /\ Num(J.lb) \in Int /\ Num(J.rb) \in Int
    BY <2>1, NonEmptyIs
  <2>3. /\ U \in NonEmpty
        /\ Num(I.lb) <= Num(U.lb) /\ Num(J.lb) <= Num(U.lb)
        /\ Num(I.rb) <= Num(U.rb) /\ Num(J.rb) <= Num(U.rb)
    BY <2>1, <2>2, JoinIs
  <2> HIDE DEF U
  <2>4. U.lb \in Ends /\ U.rb \in Ends
    BY <2>3, NonEmptyIs
  <2>5. \/ AtLeast(I.lb, -n, d) /\ AtLeast(I.rb, n, d)
        \/ AtLeast(J.lb, -n, d) /\ AtLeast(J.rb, n, d)
    BY <2>1, InRationalIs
  <2>6. n \in Int /\ -n \in Int /\ d \in Nat
    OBVIOUS
  <2> HIDE DEF n, d
  <2>7. AtLeast(U.lb, -n, d) /\ AtLeast(U.rb, n, d)
    BY <2>2, <2>3, <2>4, <2>5, <2>6, FartherIsAtLeast
  <2> QED
    BY <2>3, <2>7, InRationalIs DEF U, n, d
<1> QED
  BY <1>1, <1>2, <1>3

(* What Solves() says of the two products of a rational by the bounds of an   *)
(* interval: one is below the right bound, one above the left bound.         *)
LEMMA SolvesIs ==
  ASSUME NEW J \in NonEmpty, NEW K \in NonEmpty, NEW q, q[1] \in Int, q[2] \in Nat, Solves(q, J, K)
  PROVE  /\ \/ (-(q[1])) * Span(J.lb) <= q[2] * (Span(K.rb) * One)
            \/ q[1] * Span(J.rb) <= q[2] * (Span(K.rb) * One)
         /\ \/ q[1] * Span(J.lb) <= q[2] * (Span(K.lb) * One)
            \/ (-(q[1])) * Span(J.rb) <= q[2] * (Span(K.lb) * One)
<1> DEFINE n == q[1]
           d == q[2]
           s == -(n * Span(J.lb))
           t == n * Span(J.rb)
           ends == {s, t}
<1>1. ASSUME NEW e \in Ends PROVE Span(e) \in Int
  <2>1. Num(e) \in Int /\ Beyond \in Int /\ Fine \in Int
    BY EndsAre, ConstantsAre
  <2> QED
    BY <2>1 DEF Span
<1>2. /\ Span(J.lb) \in Int /\ Span(J.rb) \in Int /\ Span(K.lb) \in Int /\ Span(K.rb) \in Int
      /\ One \in Int /\ n \in Int /\ d \in Int
  BY <1>1, NonEmptyIs, LargestMagnitude
<1>3. /\ Min(ends) <= Span(K.rb) * d * One
      /\ Max(ends) >= -(Span(K.lb) * d * One)
  BY DEF Solves, Span
<1> HIDE DEF n, d
<1>4. s \in Int /\ t \in Int /\ s = (-n) * Span(J.lb) /\ -s = n * Span(J.lb) /\ -t = (-n) * Span(J.rb)
  BY <1>2
<1>5. Span(K.rb) * d * One = d * (Span(K.rb) * One) /\ Span(K.lb) * d * One = d * (Span(K.lb) * One)
      /\ d * (Span(K.rb) * One) \in Int /\ d * (Span(K.lb) * One) \in Int
  BY <1>2
<1> HIDE DEF s, t
<1>6. Min(ends) \in ends /\ Max(ends) \in ends
  <2>1. \E m \in ends : \A k \in ends : m <= k
    BY <1>4
  <2>2. \E m \in ends : \A k \in ends : m >= k
    BY <1>4
  <2> HIDE DEF ends
  <2> QED
    BY <2>1, <2>2 DEF Min, Max
<1>7. /\ s <= d * (Span(K.rb) * One) \/ t <= d * (Span(K.rb) * One)
      /\ s >= -(d * (Span(K.lb) * One)) \/ t >= -(d * (Span(K.lb) * One))
  BY <1>3, <1>5, <1>6
<1>8. /\ s >= -(d * (Span(K.lb) * One)) => -s <= d * (Span(K.lb) * One)
      /\ t >= -(d * (Span(K.lb) * One)) => -t <= d * (Span(K.lb) * One)
  BY <1>4, <1>5
<1>9. t = n * Span(J.rb)
  BY DEF t
<1> QED
  BY <1>4, <1>7, <1>8, <1>9 DEF n, d

(* A solution is below the hull of the quotients by the bound of a divisor    *)
(* that makes it one, c being the number of units of the bound.              *)
LEMMA SolutionIsBelow ==
  ASSUME NEW e \in Ends, NEW x \in Ends, NEW n \in Int, NEW d \in Nat, d >= 1, NEW v \in Ends,
         Num(e) >= 1, v # Infinity => Reach(x) * One <= Num(v) * Reach(e),
         n * Span(e) <= d * (Span(x) * One)
  PROVE  AtLeast(v, n, d)
<1>1. /\ Largest \in Nat /\ One \in Nat /\ One >= 1 /\ Beyond \in Nat /\ Beyond >= 1 /\ Fine \in Nat /\ Fine >= 1
      /\ Beyond > Largest * Largest /\ Beyond > Largest * One /\ Beyond * One >= Beyond
      /\ Largest * Largest \in Nat /\ Largest * One \in Nat /\ Beyond * One \in Nat
  BY ConstantsAre, LargestMagnitude, BeyondIs
<1>2. ASSUME NEW u \in Ends
      PROVE  /\ Num(u) \in Int /\ Num(u) <= Largest + 1 /\ Num(u) >= -Largest /\ Reach(u) \in Int
             /\ u # Infinity => Num(u) <= Largest /\ Reach(u) = Num(u) /\ Span(u) = Num(u)
             /\ u = Infinity => /\ Num(u) = Largest + 1 /\ Reach(u) = Beyond
                                /\ Span(u) = (Largest + 1) * Beyond * Fine
  BY EndsAre, ReachIs DEF Span
<1>3. ASSUME NEW u \in Int, NEW w \in Int, NEW f \in Nat, u <= w PROVE u * f <= w * f
  <2>1. f = 0 \/ f >= 1
    OBVIOUS
  <2>2. CASE f = 0
    BY <2>2
  <2>3. CASE f >= 1
    BY <1>3, <2>3, ProductsCompare
  <2> QED
    BY <2>1, <2>2, <2>3
<1>4. SUFFICES ASSUME v # Infinity PROVE n <= Num(v) * d
  <2>1. Num(v) * d = d * Num(v)
    BY <1>2
  <2> QED
    BY <1>4, <2>1 DEF AtLeast
<1> DEFINE R == Num(v)
<1>5. R \in Int /\ R <= Largest /\ R >= -Largest
  BY <1>2, <1>4
<1>6. Reach(x) * One <= R * Reach(e)
  BY <1>4
<1>7. CASE e # Infinity
  <2>1. Reach(e) = Num(e) /\ Span(e) = Num(e) /\ Num(e) \in Nat /\ Num(e) >= 1 /\ Num(e) <= Largest
    BY <1>2, <1>7
  <2> DEFINE c == Num(e)
  <2>2. x # Infinity
    <3>1. SUFFICES ASSUME x = Infinity PROVE FALSE
      OBVIOUS
    <3>2. Beyond * One <= R * c
      BY <1>2, <1>6, <2>1, <3>1
    <3>3. R * c <= Largest * c /\ c * Largest <= Largest * Largest
      BY <1>1, <1>3, <1>5, <2>1
    <3>4. c * Largest = Largest * c /\ R * c \in Int /\ Largest * c \in Int
      BY <1>1, <1>5, <2>1
    <3> HIDE DEF c, R
    <3> QED
      BY <1>1, <3>2, <3>3, <3>4
  <2>3. Reach(x) = Num(x) /\ Span(x) = Num(x) /\ Num(x) \in Int
    BY <1>2, <2>2
  <2>4. (Num(x) * One) * d <= (R * c) * d
    <3>1. Num(x) * One \in Int /\ R * c \in Int /\ Num(x) * One <= R * c
      BY <1>1, <1>5, <1>6, <2>1, <2>3
    <3> QED
      BY <1>3, <3>1
  <2>5. n * c <= d * (Num(x) * One)
    BY <2>1, <2>3
  <2>6. d * (Num(x) * One) = (Num(x) * One) * d /\ (R * c) * d = (R * d) * c
        /\ n * c \in Int /\ (Num(x) * One) * d \in Int /\ (R * d) * c \in Int /\ R * d \in Int
    BY <1>1, <1>5, <2>1, <2>3
  <2>7. n * c <= (R * d) * c
    BY <2>4, <2>5, <2>6
  <2> QED
    BY <2>1, <2>6, <2>7, ProductsCompare
<1>8. CASE e = Infinity
  <2> DEFINE g == (Largest + 1) * Fine
  <2>1. Reach(e) = Beyond /\ Span(e) = (Largest + 1) * Beyond * Fine
    BY <1>2, <1>8
  <2>2. g \in Nat /\ g >= 1
    <3>1. Largest + 1 \in Nat /\ Largest + 1 > 0 /\ Fine > 0
      BY <1>1
    <3> QED
      BY <1>1, <3>1, SignsMultiply
  <2>3. Span(e) = g * Beyond
    BY <1>1, <2>1
  <2> HIDE DEF g
  <2>4. CASE x # Infinity
    <3>1. Reach(x) = Num(x) /\ Span(x) = Num(x) /\ Num(x) \in Int /\ Num(x) >= -Largest
      BY <1>2, <2>4
    <3>2. Num(x) * One <= R * Beyond
      BY <1>6, <2>1, <3>1
    <3>3. R >= 0
      <4>1. SUFFICES ASSUME R <= -1 PROVE FALSE
        BY <1>5
      <4>2. R * Beyond <= (-1) * Beyond /\ (-Largest) * One <= Num(x) * One
        BY <1>1, <1>3, <1>5, <3>1, <4>1
      <4>3. (-1) * Beyond = -Beyond /\ (-Largest) * One = -(Largest * One)
        BY <1>1
      <4>4. R * Beyond \in Int /\ Num(x) * One \in Int
        BY <1>1, <1>5, <3>1
      <4> HIDE DEF R
      <4> QED
        BY <1>1, <3>2, <4>2, <4>3, <4>4
    <3>4. R * d >= 0 /\ R * d \in Int
      BY <1>5, <3>3, SignsMultiply
    <3>5. n <= 0 \/ n >= 1
      OBVIOUS
    <3>6. CASE n <= 0
      BY <3>4, <3>6
    <3>7. CASE n >= 1
      <4>1. n * (g * Beyond) <= d * (Num(x) * One)
        BY <2>3, <3>1
      <4>2. (Num(x) * One) * d <= (R * Beyond) * d
        <5>1. Num(x) * One \in Int /\ R * Beyond \in Int
          BY <1>1, <1>5, <3>1
        <5> QED
          BY <1>3, <3>2, <5>1
      <4>3. /\ d * (Num(x) * One) = (Num(x) * One) * d /\ (R * Beyond) * d = (R * d) * Beyond
            /\ n * (g * Beyond) = (n * g) * Beyond /\ n * g \in Int
            /\ (n * g) * Beyond \in Int /\ (Num(x) * One) * d \in Int /\ (R * d) * Beyond \in Int
        BY <1>1, <1>5, <2>2, <3>1
      <4>4. (n * g) * Beyond <= (R * d) * Beyond
        BY <4>1, <4>2, <4>3
      <4>5. n * g <= R * d
        BY <1>1, <3>4, <4>3, <4>4, ProductsCompare
      <4>6. 1 * n <= g * n
        BY <1>3, <2>2, <3>7
      <4>7. 1 * n = n /\ g * n = n * g
        BY <2>2
      <4> QED
        BY <3>4, <4>3, <4>5, <4>6, <4>7
    <3> QED
      BY <3>5, <3>6, <3>7
  <2>5. CASE x = Infinity
    <3>1. Beyond * One <= R * Beyond
      BY <1>2, <1>6, <2>1, <2>5
    <3> DEFINE h == (Largest + 1) * Beyond * Fine
    <3>2. n * h <= d * (h * One)
      BY <1>2, <1>8, <2>1, <2>5
    <3>3. h \in Nat /\ h >= 1
      <4>1. h = g * Beyond
        BY <2>1, <2>3
      <4> HIDE DEF h
      <4> QED
        BY <1>1, <2>2, <4>1, SignsMultiply
    <3> HIDE DEF h
    <3>4. d * (h * One) = (d * One) * h /\ d * One \in Int
      BY <1>1, <3>3
    <3>5. n <= d * One
      BY <3>2, <3>3, <3>4, ProductsCompare
    <3>6. One <= R
      <4>1. Beyond * One = One * Beyond
        BY <1>1
      <4> QED
        BY <1>1, <1>5, <3>1, <4>1, ProductsCompare
    <3>7. One * d <= R * d
      BY <1>1, <1>3, <1>5, <3>6
    <3>8. One * d = d * One /\ R * d \in Int
      BY <1>1, <1>5
    <3> QED
      BY <3>4, <3>5, <3>7, <3>8
  <2> QED
    BY <2>4, <2>5
<1> QED
  BY <1>7, <1>8

(* A quotient of a number below 0 is what a solution is below.              *)
LEMMA PieceIsUpper ==
  ASSUME NEW x \in Ends, NEW y \in Ends, Num(x) < 0, Num(y) > 0
  PROVE  /\ DivUp(x, y) \in Ends
         /\ DivUp(x, y) # Infinity => Reach(x) * One <= Num(DivUp(x, y)) * Reach(y)
<1> DEFINE v == DivUp(x, y)
<1>1. /\ x \in Doubles /\ y \in Doubles /\ Num(x) \in Int /\ Num(y) \in Int
      /\ x # NaN /\ y # NaN /\ x # Infinity /\ Largest \in Nat
      /\ IsInf(x) <=> x = Infinity
      /\ IsInf(y) <=> y = Infinity
      /\ One \in Nat
  BY EndsAre, ConstantsAre, LargestMagnitude
<1>2. Reach(x) = Num(x)
  BY <1>1, ReachIs
<1>3. CASE y # Infinity
  <2>1. v \in Ends /\ AtLeast(v, One * Num(x), Num(y))
    BY <1>1, <1>3, QuotientIsUpper
  <2>2. Reach(y) = Num(y) /\ Num(v) \in Int
    BY <1>3, <2>1, ReachIs, EndsAre
  <2> HIDE DEF v
  <2>3. v # Infinity => One * Num(x) <= Num(y) * Num(v)
    BY <2>1 DEF AtLeast
  <2>4. One * Num(x) = Num(x) * One /\ Num(y) * Num(v) = Num(v) * Num(y)
    BY <1>1, <2>2
  <2> QED
    BY <1>2, <2>1, <2>2, <2>3, <2>4 DEF v
<1>4. CASE y = Infinity
  <2>1. ~IsZero(x) /\ ~IsZero(y)
    BY <1>1, FiniteOrInfinite
  <2>2. v = Zero(x.neg # y.neg)
    BY <1>1, <1>4, <2>1 DEF DivUp
  <2>3. v \in Ends /\ Num(v) = 0
    <3>1. (x.neg # y.neg) \in BOOLEAN
      OBVIOUS
    <3> HIDE DEF v
    <3> QED
      BY <2>2, <3>1, EndsAre
  <2>4. Reach(y) \in Int /\ Num(x) * One <= 0 /\ Num(x) * One \in Int
    BY <1>1, ReachIs, SignsMultiply
  <2> HIDE DEF v
  <2>5. Num(v) * Reach(y) = 0
    BY <2>3, <2>4
  <2> QED
    BY <1>2, <2>3, <2>4, <2>5 DEF v
<1> QED
  BY <1>3, <1>4

(* The opposite of a left bound above 0, as a divisor.                      *)
LEMMA OppositeDivides ==
  ASSUME NEW e \in Ends, Num(e) < 0
  PROVE  /\ Opposite(e) \in Ends /\ Num(Opposite(e)) = -Num(e) /\ Num(Opposite(e)) >= 1
         /\ Reach(Opposite(e)) = -Num(e) /\ Span(Opposite(e)) = -Num(e) /\ Span(e) = Num(e)
<1>1. /\ e \in Doubles /\ Num(e) \in Int /\ Num(e) >= -Largest /\ Largest \in Nat
      /\ e # Infinity /\ ~IsInf(e)
  BY EndsAre, ConstantsAre
<1>2. Opposite(e) \in Doubles /\ Num(Opposite(e)) = -Num(e)
  BY <1>1, OppositeIsDouble
<1>3. Opposite(e) \in Ends
  BY <1>1, <1>2, ConstantsAre DEF Ends, Oo
<1>4. Opposite(e) # Infinity /\ ~IsInf(Opposite(e))
  BY <1>1, <1>2, <1>3, EndsAre
<1> QED
  BY <1>1, <1>2, <1>3, <1>4, ReachIs DEF Span

(* The quotient by an interval that does not have 0 inside has every solution, *)
(* when 0 is not one of the dividends and one of the divisors.               *)
LEMMA QuotientHasSolutions ==
  ASSUME NEW K \in NonEmpty, NEW J \in NonEmpty, Sse \in BOOLEAN,
         NEW q, q[1] \in Int, q[2] \in Nat, q[2] >= 1, Solves(q, J, K),
         ~(straddles_zero(K) /\ straddles_zero(J)), Class(J) # "M"
  PROVE  LET Q == Quotient(K, J, FALSE) IN Q \in NonEmpty /\ InRational(q, Q)
<1> DEFINE Q == Quotient(K, J, FALSE)
           n == q[1]
           d == q[2]
<1>1. /\ K.lb \in Ends /\ K.rb \in Ends /\ J.lb \in Ends /\ J.rb \in Ends
      /\ Num(K.lb) \in Int /\ Num(K.rb) \in Int /\ Num(J.lb) \in Int /\ Num(J.rb) \in Int
      /\ Num(K.lb) + Num(K.rb) >= 0 /\ Num(J.lb) + Num(J.rb) >= 0
      /\ ~is_empty(K) /\ ~is_empty(J)
  BY NonEmptyIs
<1>2. /\ (-n) * Span(J.lb) <= d * (Span(K.rb) * One) \/ n * Span(J.rb) <= d * (Span(K.rb) * One)
      /\ n * Span(J.lb) <= d * (Span(K.lb) * One) \/ (-n) * Span(J.rb) <= d * (Span(K.lb) * One)
  BY SolvesIs
<1>3. n \in Int /\ -n \in Int /\ d \in Nat /\ d >= 1 /\ -(-n) = n
  OBVIOUS
<1>4. Class(J) \in {"N1", "N0", "Z", "P0", "P1"}
  BY ClassIs
<1>5. /\ straddles_zero(K) <=> Num(K.lb) >= 0 /\ Num(K.rb) >= 0
      /\ straddles_zero(J) <=> Num(J.lb) >= 0 /\ Num(J.rb) >= 0
  BY StraddlesAre
<1>6. Q \in Intervals /\ Value(Q) = Hull(Ratios(K, J))
  <2>1. K \in Intervals /\ J \in Intervals
    BY DEF Intervals
  <2> QED
    BY <2>1, QuotientIsHull, QuotientIsInterval
<1> HIDE DEF Q
<1>7. ASSUME ~(Num(J.lb) = 0 /\ Num(J.rb) = 0) PROVE Q \in NonEmpty
  <2>1. Ratios(K, J) # {}
    BY <1>7, RatiosAre
  <2>2. Value(Q) # << >>
    BY <1>6, <2>1 DEF Hull
  <2>3. Q # emptyset
    BY <2>2, ValueIs
  <2> QED
    BY <1>6, <2>3 DEF Intervals
<1>8. ASSUME Q \in NonEmpty, AtLeast(Q.lb, -n, d), AtLeast(Q.rb, n, d)
      PROVE  Q \in NonEmpty /\ InRational(q, Q)
  BY <1>8, InRationalIs
<1>9. ASSUME NEW u \in Int, NEW c \in Int
      PROVE  (-u) * c = u * (-c) /\ (-u) * (-c) = u * c
  BY SignsMultiply
<1>10. One \in Nat /\ One >= 1 /\ Infinity \in Ends
  BY LargestMagnitude, EndsAre
<1>11. \A m \in Int : AtLeast(Infinity, m, d)
  BY DEF AtLeast
<1>12. ASSUME NEW e \in Ends, Num(e) < 0
       PROVE  d * (Span(e) * One) < 0 /\ d * (Span(e) * One) \in Int
  <2>1. Span(e) \in Int /\ Span(e) <= -1
    BY <1>1, <1>12, OppositeDivides, EndsAre
  <2>2. Span(e) * One \in Int /\ (-Span(e)) * One > 0 /\ -(Span(e) * One) = (-Span(e)) * One
    BY <1>10, <2>1, SignsMultiply
  <2>3. d * (-(Span(e) * One)) > 0
    BY <1>3, <2>2, SignsMultiply
  <2>4. d * (-(Span(e) * One)) = -(d * (Span(e) * One)) /\ d * (Span(e) * One) \in Int
    BY <1>3, <2>2
  <2> QED
    BY <2>3, <2>4
<1>13. ASSUME NEW e \in Ends, Num(e) = 0 PROVE Span(e) = 0
  BY <1>13, EndsAre, ConstantsAre DEF Span
<1> HIDE DEF n, d
<1>14. CASE Class(J) = "P1"
  <2> DEFINE c == Opposite(J.lb)
  <2>1. Num(J.lb) < 0 /\ Num(J.rb) > 0
    BY <1>1, <1>14, ClassIs
  <2>2. Q \in NonEmpty /\ Q.lb \in Ends /\ Q.rb \in Ends
    BY <1>7, <2>1, NonEmptyIs
  <2>3. /\ c \in Ends /\ Num(c) >= 1 /\ Reach(c) = -Num(J.lb) /\ Span(c) = -Num(J.lb) /\ Span(J.lb) = Num(J.lb)
    BY <1>1, <2>1, OppositeDivides
  <2> HIDE DEF c
  <2>4. /\ Q.rb # Infinity => /\ Reach(K.rb) * One <= Num(Q.rb) * Reach(c)
                              /\ Reach(K.rb) * One <= Num(Q.rb) * Reach(J.rb)
        /\ Q.lb # Infinity => /\ Reach(K.lb) * One <= Num(Q.lb) * Reach(c)
                              /\ Reach(K.lb) * One <= Num(Q.lb) * Reach(J.rb)
    BY <1>6, <2>1, <2>2, <2>3, QuotientsReach
  <2>5. /\ (-n) * Span(J.lb) = n * Span(c)
        /\ n * Span(J.lb) = (-n) * Span(c)
    BY <1>1, <1>3, <1>9, <2>3
  <2>6. /\ n * Span(c) <= d * (Span(K.rb) * One) \/ n * Span(J.rb) <= d * (Span(K.rb) * One)
        /\ (-n) * Span(c) <= d * (Span(K.lb) * One) \/ (-n) * Span(J.rb) <= d * (Span(K.lb) * One)
    BY <1>2, <2>5
  <2>7. AtLeast(Q.rb, n, d)
    <3>1. ASSUME NEW e \in {c, J.rb}, n * Span(e) <= d * (Span(K.rb) * One) PROVE AtLeast(Q.rb, n, d)
      <4>1. e \in Ends /\ Num(e) >= 1 /\ (Q.rb # Infinity => Reach(K.rb) * One <= Num(Q.rb) * Reach(e))
        BY <1>1, <2>1, <2>3, <2>4
      <4> QED
        BY <1>1, <1>3, <2>2, <3>1, <4>1, SolutionIsBelow
    <3> QED
      BY <2>6, <3>1
  <2>8. AtLeast(Q.lb, -n, d)
    <3>1. ASSUME NEW e \in {c, J.rb}, (-n) * Span(e) <= d * (Span(K.lb) * One) PROVE AtLeast(Q.lb, -n, d)
      <4>1. e \in Ends /\ Num(e) >= 1 /\ (Q.lb # Infinity => Reach(K.lb) * One <= Num(Q.lb) * Reach(e))
        BY <1>1, <2>1, <2>3, <2>4
      <4> QED
        BY <1>1, <1>3, <2>2, <3>1, <4>1, SolutionIsBelow
    <3> QED
      BY <2>6, <3>1
  <2> QED
    BY <1>8, <2>2, <2>7, <2>8 DEF Q
<1>15. CASE Class(J) = "N1"
  <2> DEFINE c == Opposite(J.rb)
  <2>1. Num(J.rb) < 0 /\ Num(J.lb) > 0
    BY <1>1, <1>15, ClassIs
  <2>2. Q \in NonEmpty /\ Q.lb \in Ends /\ Q.rb \in Ends
    BY <1>7, <2>1, NonEmptyIs
  <2>3. /\ c \in Ends /\ Num(c) >= 1 /\ Reach(c) = -Num(J.rb) /\ Span(c) = -Num(J.rb) /\ Span(J.rb) = Num(J.rb)
    BY <1>1, <2>1, OppositeDivides
  <2> HIDE DEF c
  <2>4. /\ Q.rb # Infinity => /\ Reach(K.lb) * One <= Num(Q.rb) * Reach(c)
                              /\ Reach(K.lb) * One <= Num(Q.rb) * Reach(J.lb)
        /\ Q.lb # Infinity => /\ Reach(K.rb) * One <= Num(Q.lb) * Reach(c)
                              /\ Reach(K.rb) * One <= Num(Q.lb) * Reach(J.lb)
    BY <1>6, <2>1, <2>2, <2>3, QuotientsReach
  <2>5. /\ n * Span(J.rb) = (-n) * Span(c)
        /\ (-n) * Span(J.rb) = n * Span(c)
    BY <1>1, <1>3, <1>9, <2>3
  <2>6. /\ n * Span(c) <= d * (Span(K.lb) * One) \/ n * Span(J.lb) <= d * (Span(K.lb) * One)
        /\ (-n) * Span(c) <= d * (Span(K.rb) * One) \/ (-n) * Span(J.lb) <= d * (Span(K.rb) * One)
    BY <1>2, <2>5
  <2>7. AtLeast(Q.rb, n, d)
    <3>1. ASSUME NEW e \in {c, J.lb}, n * Span(e) <= d * (Span(K.lb) * One) PROVE AtLeast(Q.rb, n, d)
      <4>1. e \in Ends /\ Num(e) >= 1 /\ (Q.rb # Infinity => Reach(K.lb) * One <= Num(Q.rb) * Reach(e))
        BY <1>1, <2>1, <2>3, <2>4
      <4> QED
        BY <1>1, <1>3, <2>2, <3>1, <4>1, SolutionIsBelow
    <3> QED
      BY <2>6, <3>1
  <2>8. AtLeast(Q.lb, -n, d)
    <3>1. ASSUME NEW e \in {c, J.lb}, (-n) * Span(e) <= d * (Span(K.rb) * One) PROVE AtLeast(Q.lb, -n, d)
      <4>1. e \in Ends /\ Num(e) >= 1 /\ (Q.lb # Infinity => Reach(K.rb) * One <= Num(Q.lb) * Reach(e))
        BY <1>1, <2>1, <2>3, <2>4
      <4> QED
        BY <1>1, <1>3, <2>2, <3>1, <4>1, SolutionIsBelow
    <3> QED
      BY <2>6, <3>1
  <2> QED
    BY <1>8, <2>2, <2>7, <2>8 DEF Q
<1>16. CASE Class(J) = "Z"
  <2>1. Num(J.lb) = 0 /\ Num(J.rb) = 0
    BY <1>16, ClassIs
  <2>2. /\ (-n) * Span(J.lb) = 0 /\ n * Span(J.rb) = 0
        /\ n * Span(J.lb) = 0 /\ (-n) * Span(J.rb) = 0
    BY <1>1, <1>3, <1>13, <2>1
  <2>3. Num(K.lb) < 0 \/ Num(K.rb) < 0
    BY <1>1, <1>5, <2>1
  <2>4. d * (Span(K.lb) * One) < 0 \/ d * (Span(K.rb) * One) < 0
    BY <1>1, <1>12, <2>3
  <2>5. 0 <= d * (Span(K.lb) * One) /\ 0 <= d * (Span(K.rb) * One)
    BY <1>2, <2>2
  <2>6. \A e \in Ends : d * (Span(e) * One) \in Int
    <3>1. \A e \in Ends : Span(e) \in Int
      BY EndsAre, ConstantsAre DEF Span
    <3> QED
      BY <1>3, <1>10, <3>1
  <2> QED
    BY <1>1, <2>4, <2>5, <2>6
<1>17. CASE Class(J) = "P0" \/ Class(J) = "N0"
  <2>1. Num(J.lb) >= 0 /\ Num(J.rb) >= 0
    BY <1>1, <1>17, ClassIs
  <2>2. ~(Num(K.lb) >= 0 /\ Num(K.rb) >= 0) /\ ~(Num(J.lb) = 0 /\ Num(J.rb) = 0)
    BY <1>1, <1>5, <1>17, <2>1, ClassIs
  <2>3. Class(K) \in {"N1", "P1"}
    <3>1. /\ Class(K) \in {"N1", "N0", "Z", "M", "P0", "P1"}
          /\ Class(K) = "N0" => Num(K.rb) = 0 /\ Num(K.lb) > 0
          /\ Class(K) = "Z"  => Num(K.rb) = 0 /\ Num(K.lb) = 0
          /\ Class(K) = "M"  => Num(K.rb) > 0 /\ Num(K.lb) > 0
          /\ Class(K) = "P0" => Num(K.rb) > 0 /\ Num(K.lb) = 0
      BY ClassIs
    <3> QED
      BY <1>1, <2>2, <3>1
  <2>4. Q \in NonEmpty /\ Q.lb \in Ends /\ Q.rb \in Ends
    BY <1>7, <2>2, NonEmptyIs
  <2>5. Q = QuotientTo0(<<Class(K), Class(J)>>, K, J)
    <3>1. <<Class(K), Class(J)>>[2] = Class(J) /\ <<Class(K), Class(J)>>[1] = Class(K)
      OBVIOUS
    <3> QED
      BY <1>1, <1>17, <2>3, <3>1 DEF Quotient, Q
  <2>6. CASE Class(J) = "P0"
    <3>1. Num(J.lb) = 0 /\ Num(J.rb) >= 1 /\ Span(J.lb) = 0
      BY <1>1, <1>13, <2>6, ClassIs
    <3>2. /\ Q.rb # Infinity => Reach(K.rb) * One <= Num(Q.rb) * Reach(J.rb)
          /\ Q.lb # Infinity => Reach(K.lb) * One <= Num(Q.lb) * Reach(J.rb)
      BY <1>1, <1>6, <2>4, <3>1, QuotientsReach
    <3>3. (-n) * Span(J.lb) = 0 /\ n * Span(J.lb) = 0
      BY <1>3, <3>1
    <3>4. CASE Class(K) = "P1"
      <4>1. Q.rb = Infinity
        BY <2>5, <2>6, <3>4 DEF QuotientTo0, Bounds
      <4>2. d * (Span(K.lb) * One) < 0 /\ d * (Span(K.lb) * One) \in Int
        BY <1>1, <1>12, <3>4, ClassIs
      <4>3. (-n) * Span(J.rb) <= d * (Span(K.lb) * One)
        BY <1>2, <3>3, <4>2
      <4>4. AtLeast(Q.lb, -n, d)
        BY <1>1, <1>3, <2>4, <3>1, <3>2, <4>3, SolutionIsBelow
      <4> QED
        BY <1>3, <1>8, <1>11, <2>4, <4>1, <4>4 DEF Q
    <3>5. CASE Class(K) = "N1"
      <4>1. Q.lb = Infinity
        BY <2>5, <2>6, <3>5 DEF QuotientTo0, Bounds
      <4>2. d * (Span(K.rb) * One) < 0 /\ d * (Span(K.rb) * One) \in Int
        BY <1>1, <1>12, <3>5, ClassIs
      <4>3. n * Span(J.rb) <= d * (Span(K.rb) * One)
        BY <1>2, <3>3, <4>2
      <4>4. AtLeast(Q.rb, n, d)
        BY <1>1, <1>3, <2>4, <3>1, <3>2, <4>3, SolutionIsBelow
      <4> QED
        BY <1>3, <1>8, <1>11, <2>4, <4>1, <4>4 DEF Q
    <3> QED
      BY <2>3, <3>4, <3>5
  <2>7. CASE Class(J) = "N0"
    <3>1. Num(J.rb) = 0 /\ Num(J.lb) >= 1 /\ Span(J.rb) = 0
      BY <1>1, <1>13, <2>7, ClassIs
    <3>2. /\ Q.rb # Infinity => Reach(K.lb) * One <= Num(Q.rb) * Reach(J.lb)
          /\ Q.lb # Infinity => Reach(K.rb) * One <= Num(Q.lb) * Reach(J.lb)
      BY <1>1, <1>6, <2>4, <3>1, QuotientsReach
    <3>3. (-n) * Span(J.rb) = 0 /\ n * Span(J.rb) = 0
      BY <1>3, <3>1
    <3>4. CASE Class(K) = "P1"
      <4>1. Q.lb = Infinity
        BY <2>5, <2>7, <3>4 DEF QuotientTo0, Bounds
      <4>2. d * (Span(K.lb) * One) < 0 /\ d * (Span(K.lb) * One) \in Int
        BY <1>1, <1>12, <3>4, ClassIs
      <4>3. n * Span(J.lb) <= d * (Span(K.lb) * One)
        BY <1>2, <3>3, <4>2
      <4>4. AtLeast(Q.rb, n, d)
        BY <1>1, <1>3, <2>4, <3>1, <3>2, <4>3, SolutionIsBelow
      <4> QED
        BY <1>3, <1>8, <1>11, <2>4, <4>1, <4>4 DEF Q
    <3>5. CASE Class(K) = "N1"
      <4>1. Q.rb = Infinity
        BY <2>5, <2>7, <3>5 DEF QuotientTo0, Bounds
      <4>2. d * (Span(K.rb) * One) < 0 /\ d * (Span(K.rb) * One) \in Int
        BY <1>1, <1>12, <3>5, ClassIs
      <4>3. (-n) * Span(J.lb) <= d * (Span(K.rb) * One)
        BY <1>2, <3>3, <4>2
      <4>4. AtLeast(Q.lb, -n, d)
        BY <1>1, <1>3, <2>4, <3>1, <3>2, <4>3, SolutionIsBelow
      <4> QED
        BY <1>3, <1>8, <1>11, <2>4, <4>1, <4>4 DEF Q
    <3> QED
      BY <2>3, <3>4, <3>5
  <2> QED
    BY <1>17, <2>6, <2>7
<1> QED
  BY <1>4, <1>14, <1>15, <1>16, <1>17

(* The two pieces of div_rel() are in what it takes them out of.             *)
LEMMA PiecesAreWithin ==
  ASSUME NEW I \in NonEmpty, NEW A \in NonEmpty, NEW B \in NonEmpty
  PROVE  LET U == Join(Meet(I, A), Meet(I, B))
         IN U = emptyset \/ (U \in NonEmpty /\ Num(U.lb) <= Num(I.lb) /\ Num(U.rb) <= Num(I.rb))
<1>1. ASSUME NEW P \in NonEmpty
      PROVE  \/ Meet(I, P) = emptyset
             \/ /\ Meet(I, P) \in NonEmpty
                /\ Num(Meet(I, P).lb) <= Num(I.lb) /\ Num(Meet(I, P).rb) <= Num(I.rb)
  <2>1. /\ Num(I.lb) \in Int /\ Num(I.rb) \in Int /\ Num(P.lb) \in Int /\ Num(P.rb) \in Int
    BY NonEmptyIs
  <2> QED
    BY <2>1, MeetIs
<1> DEFINE P == Meet(I, A)
           Q == Meet(I, B)
<1>2. /\ P = emptyset \/ (P \in NonEmpty /\ Num(P.lb) <= Num(I.lb) /\ Num(P.rb) <= Num(I.rb))
      /\ Q = emptyset \/ (Q \in NonEmpty /\ Num(Q.lb) <= Num(I.lb) /\ Num(Q.rb) <= Num(I.rb))
  BY <1>1
<1> HIDE DEF P, Q
<1>3. CASE P = emptyset
  <2>1. Join(P, Q) = Q
    BY <1>3, EmptySetIs DEF Join
  <2> QED
    BY <1>2, <2>1 DEF P, Q
<1>4. CASE P \in NonEmpty /\ Q = emptyset
  <2>1. Join(P, Q) = P
    BY <1>4, EmptySetIs, NonEmptyIs DEF Join
  <2> QED
    BY <1>2, <1>4, <2>1 DEF P, Q
<1>5. CASE P \in NonEmpty /\ Q \in NonEmpty
  <2>1. ~is_empty(P) /\ ~is_empty(Q)
    BY <1>5, NonEmptyIs
  <2>2. /\ Num(P.lb) <= Num(I.lb) /\ Num(P.rb) <= Num(I.rb)
        /\ Num(Q.lb) <= Num(I.lb) /\ Num(Q.rb) <= Num(I.rb)
    BY <1>2, <2>1, EmptySetIs
  <2>3. Join(P, Q) \in NonEmpty /\ Num(Join(P, Q).lb) <= Num(I.lb) /\ Num(Join(P, Q).rb) <= Num(I.rb)
    BY <1>5, <2>2, JoinIs
  <2> QED
    BY <2>3 DEF P, Q
<1> QED
  BY <1>2, <1>3, <1>4, <1>5

(* div_rel(), from the classes of its operands, and its pieces.             *)
LEMMA DivRelIs ==
  ASSUME NEW K \in NonEmpty, NEW J \in NonEmpty, NEW I \in NonEmpty
  PROVE  /\ straddles_zero(K) /\ straddles_zero(J) => div_rel(K, J, I) = I
         /\ ~(straddles_zero(K) /\ straddles_zero(J)) /\ Class(J) = "M" =>
              /\ Class(K) \in {"N1", "P1"}
              /\ Class(K) = "N1" =>
                   div_rel(K, J, I) = Join(Meet(I, Bounds(Infinity, DivUp(K.rb, J.rb))),
                                           Meet(I, Bounds(DivUp(K.rb, J.lb), Infinity)))
              /\ Class(K) = "P1" =>
                   div_rel(K, J, I) = Join(Meet(I, Bounds(Infinity, DivUp(K.lb, J.lb))),
                                           Meet(I, Bounds(DivUp(K.lb, J.rb), Infinity)))
         /\ ~(straddles_zero(K) /\ straddles_zero(J)) /\ Class(J) # "M" =>
              div_rel(K, J, I) = Meet(I, Quotient(K, J, FALSE))
<1>1. /\ ~is_empty(K) /\ ~is_empty(J) /\ ~is_empty(I)
      /\ Num(K.lb) \in Int /\ Num(K.rb) \in Int /\ Num(J.lb) \in Int /\ Num(J.rb) \in Int
  BY NonEmptyIs
<1>2. ASSUME ~(straddles_zero(K) /\ straddles_zero(J)), Class(J) = "M" PROVE Class(K) \in {"N1", "P1"}
  <2>1. /\ Class(K) \in {"N1", "N0", "Z", "M", "P0", "P1"}
        /\ Class(K) = "N0" => Num(K.rb) = 0 /\ Num(K.lb) > 0
        /\ Class(K) = "Z"  => Num(K.rb) = 0 /\ Num(K.lb) = 0
        /\ Class(K) = "M"  => Num(K.rb) > 0 /\ Num(K.lb) > 0
        /\ Class(K) = "P0" => Num(K.rb) > 0 /\ Num(K.lb) = 0
        /\ Class(J) = "M"  => Num(J.rb) > 0 /\ Num(J.lb) > 0
    BY ClassIs
  <2>2. ~(Num(K.lb) >= 0 /\ Num(K.rb) >= 0)
    BY <1>1, <1>2, <2>1, StraddlesAre
  <2> QED
    BY <1>1, <2>1, <2>2
<1> QED
  BY <1>1, <1>2 DEF div_rel

(* div_rel() keeps what is in its interval and solves, of any rational.      *)
LEMMA DivRelHasSolutions ==
  ASSUME NEW K \in NonEmpty, NEW J \in NonEmpty, NEW I \in NonEmpty, Sse \in BOOLEAN,
         NEW q, q[1] \in Int, q[2] \in Nat, q[2] >= 1, InRational(q, I), Solves(q, J, K)
  PROVE  InRational(q, div_rel(K, J, I))
<1> DEFINE n == q[1]
           d == q[2]
<1>1. /\ K.lb \in Ends /\ K.rb \in Ends /\ J.lb \in Ends /\ J.rb \in Ends /\ Infinity \in Ends
      /\ Num(J.lb) \in Int /\ Num(J.rb) \in Int
  BY NonEmptyIs, EndsAre
<1>2. CASE straddles_zero(K) /\ straddles_zero(J)
  BY <1>2, DivRelIs
<1>3. CASE ~(straddles_zero(K) /\ straddles_zero(J)) /\ Class(J) # "M"
  <2> DEFINE Q == Quotient(K, J, FALSE)
  <2>1. div_rel(K, J, I) = Meet(I, Q)
    BY <1>3, DivRelIs
  <2>2. Q \in NonEmpty /\ InRational(q, Q)
    BY <1>3, QuotientHasSolutions
  <2> HIDE DEF Q
  <2> QED
    BY <2>1, <2>2, MeetHas
<1>4. CASE ~(straddles_zero(K) /\ straddles_zero(J)) /\ Class(J) = "M"
  <2>1. ASSUME NEW v \in Ends, NEW w \in Ends, AtLeast(v, n, d) \/ AtLeast(w, -n, d)
        PROVE  InRational(q, Join(Meet(I, Bounds(Infinity, v)), Meet(I, Bounds(w, Infinity))))
    <3> DEFINE A == Bounds(Infinity, v)
               B == Bounds(w, Infinity)
    <3>1. /\ A \in NonEmpty /\ B \in NonEmpty
          /\ A.lb = Infinity /\ A.rb = v /\ B.lb = w /\ B.rb = Infinity
      BY ConstantsAreIntervals DEF Bounds
    <3>2. \A m \in Int : AtLeast(Infinity, m, d)
      BY DEF AtLeast
    <3> HIDE DEF A, B
    <3>3. /\ AtLeast(v, n, d) => InRational(q, A)
          /\ AtLeast(w, -n, d) => InRational(q, B)
      BY <3>1, <3>2, InRationalIs
    <3>4. /\ AtLeast(v, n, d) => Meet(I, A) \in NonEmpty /\ InRational(q, Meet(I, A))
          /\ AtLeast(w, -n, d) => Meet(I, B) \in NonEmpty /\ InRational(q, Meet(I, B))
      BY <3>1, <3>3, MeetHas
    <3>5. Meet(I, A) \in Intervals /\ Meet(I, B) \in Intervals
      BY <3>1, MeetIsInterval DEF Intervals
    <3>6. InRational(q, Join(Meet(I, A), Meet(I, B)))
      BY <2>1, <3>4, <3>5, JoinHas
    <3> QED
      BY <3>6 DEF A, B
  <2>2. /\ (-n) * Span(J.lb) <= d * (Span(K.rb) * One) \/ n * Span(J.rb) <= d * (Span(K.rb) * One)
        /\ n * Span(J.lb) <= d * (Span(K.lb) * One) \/ (-n) * Span(J.rb) <= d * (Span(K.lb) * One)
    BY SolvesIs
  <2>3. n \in Int /\ -n \in Int /\ d \in Nat /\ d >= 1
    OBVIOUS
  <2>4. Num(J.lb) >= 1 /\ Num(J.rb) >= 1 /\ Class(K) \in {"N1", "P1"}
    <3>1. Num(J.rb) > 0 /\ Num(J.lb) > 0
      BY <1>4, ClassIs
    <3>2. Class(K) \in {"N1", "P1"}
      BY <1>4, DivRelIs
    <3> QED
      BY <1>1, <3>1, <3>2
  <2>5. ASSUME NEW x \in Ends, Num(x) < 0, NEW y \in {J.lb, J.rb}
        PROVE  /\ DivUp(x, y) \in Ends
               /\ \A m \in Int : m * Span(y) <= d * (Span(x) * One) => AtLeast(DivUp(x, y), m, d)
    <3>1. y \in Ends /\ Num(y) >= 1
      BY <1>1, <2>4
    <3>2. Num(y) > 0
      BY <3>1, EndsAre
    <3>3. DivUp(x, y) \in Ends /\ (DivUp(x, y) # Infinity => Reach(x) * One <= Num(DivUp(x, y)) * Reach(y))
      BY <2>5, <3>1, <3>2, PieceIsUpper
    <3> QED
      BY <2>3, <3>1, <3>3, SolutionIsBelow
  <2> HIDE DEF n, d
  <2>6. CASE Class(K) = "N1"
    <3>1. Num(K.rb) < 0
      BY <2>6, ClassIs
    <3>2. /\ DivUp(K.rb, J.rb) \in Ends /\ DivUp(K.rb, J.lb) \in Ends
          /\ AtLeast(DivUp(K.rb, J.rb), n, d) \/ AtLeast(DivUp(K.rb, J.lb), -n, d)
      BY <1>1, <2>2, <2>3, <2>5, <3>1
    <3>3. div_rel(K, J, I) = Join(Meet(I, Bounds(Infinity, DivUp(K.rb, J.rb))),
                                  Meet(I, Bounds(DivUp(K.rb, J.lb), Infinity)))
      BY <1>4, <2>6, DivRelIs
    <3> QED
      BY <2>1, <3>2, <3>3
  <2>7. CASE Class(K) = "P1"
    <3>1. Num(K.lb) < 0
      BY <2>7, ClassIs
    <3>2. /\ DivUp(K.lb, J.lb) \in Ends /\ DivUp(K.lb, J.rb) \in Ends
          /\ AtLeast(DivUp(K.lb, J.lb), n, d) \/ AtLeast(DivUp(K.lb, J.rb), -n, d)
      BY <1>1, <2>2, <2>3, <2>5, <3>1
    <3>3. div_rel(K, J, I) = Join(Meet(I, Bounds(Infinity, DivUp(K.lb, J.lb))),
                                  Meet(I, Bounds(DivUp(K.lb, J.rb), Infinity)))
      BY <1>4, <2>7, DivRelIs
    <3> QED
      BY <2>1, <3>2, <3>3
  <2> QED
    BY <2>4, <2>6, <2>7
<1> QED
  BY <1>2, <1>3, <1>4

(* div_rel() gives nothing that its interval or the quotient does not have.   *)
LEMMA DivRelIsWithin ==
  ASSUME NEW K \in NonEmpty, NEW J \in NonEmpty, NEW I \in NonEmpty, Sse \in BOOLEAN
  PROVE  set_contains(Meet(I, RelQuotient(K, J, FALSE)), div_rel(K, J, I))
<1> DEFINE U == div_rel(K, J, I)
           R == RelQuotient(K, J, FALSE)
<1>1. /\ ~is_empty(K) /\ ~is_empty(J)
      /\ K.lb \in Ends /\ K.rb \in Ends /\ J.lb \in Ends /\ J.rb \in Ends
      /\ Num(I.lb) \in Int /\ Num(I.rb) \in Int /\ Num(I.lb) + Num(I.rb) >= 0
      /\ Num(I.lb) <= Largest + 1 /\ Num(I.rb) <= Largest + 1
  BY NonEmptyIs, EndsAre
<1>2. R = IF straddles_zero(K) /\ straddles_zero(J) THEN universe ELSE Quotient(K, J, FALSE)
  BY <1>1 DEF RelQuotient
<1>3. set_contains(Meet(I, universe), emptyset)
  BY EmptySetIs DEF set_contains
<1>4. /\ Meet(I, universe) \in NonEmpty
      /\ Num(Meet(I, universe).lb) = Num(I.lb) /\ Num(Meet(I, universe).rb) = Num(I.rb)
  <2>1. universe \in NonEmpty /\ Num(universe.lb) = Largest + 1 /\ Num(universe.rb) = Largest + 1
    BY ConstantsAreIntervals, EndsAre DEF universe, Bounds
  <2> QED
    BY <1>1, <2>1, MeetIs, ConstantsAre
<1>5. ASSUME NEW S \in NonEmpty, Num(S.lb) <= Num(I.lb), Num(S.rb) <= Num(I.rb)
      PROVE  set_contains(Meet(I, universe), S)
  BY <1>4, <1>5, RelationsCompare
<1>6. CASE straddles_zero(K) /\ straddles_zero(J)
  <2>1. U = I /\ R = universe
    BY <1>2, <1>6, DivRelIs
  <2>2. set_contains(Meet(I, universe), I)
    BY <1>1, <1>5
  <2> HIDE DEF U, R
  <2> QED
    BY <2>1, <2>2 DEF U, R
<1>7. CASE ~(straddles_zero(K) /\ straddles_zero(J)) /\ Class(J) # "M"
  <2>1. U = Meet(I, R)
    <3>1. R = Quotient(K, J, FALSE)
      BY <1>2, <1>7
    <3>2. U = Meet(I, Quotient(K, J, FALSE))
      BY <1>7, DivRelIs
    <3> HIDE DEF U, R
    <3> QED
      BY <3>1, <3>2
  <2>2. U \in Intervals
    <3>1. K \in Intervals /\ J \in Intervals /\ I \in Intervals
      BY DEF Intervals
    <3> QED
      BY <3>1, DivRelIsInterval
  <2> HIDE DEF U, R
  <2>3. set_contains(U, U)
    <3>1. CASE U = emptyset
      BY <3>1, EmptySetIs DEF set_contains
    <3>2. CASE U \in NonEmpty
      <4>1. Num(U.lb) \in Int /\ Num(U.rb) \in Int
        BY <3>2, NonEmptyIs
      <4> QED
        BY <3>2, <4>1, RelationsCompare
    <3> QED
      BY <2>2, <3>1, <3>2 DEF Intervals
  <2> QED
    BY <2>1, <2>3 DEF U, R
<1>8. CASE ~(straddles_zero(K) /\ straddles_zero(J)) /\ Class(J) = "M"
  <2>1. Class(K) \in {"N1", "P1"}
    BY <1>8, DivRelIs
  <2>2. R = universe
    <3>1. <<Class(K), Class(J)>>[1] = Class(K) /\ <<Class(K), Class(J)>>[2] = Class(J)
      OBVIOUS
    <3> QED
      BY <1>1, <1>2, <1>8, <2>1, <3>1 DEF Quotient
  <2>3. U = emptyset \/ (U \in NonEmpty /\ Num(U.lb) <= Num(I.lb) /\ Num(U.rb) <= Num(I.rb))
    <3>1. ASSUME NEW v \in Ends, NEW w \in Ends, U = Join(Meet(I, Bounds(Infinity, v)), Meet(I, Bounds(w, Infinity)))
          PROVE  U = emptyset \/ (U \in NonEmpty /\ Num(U.lb) <= Num(I.lb) /\ Num(U.rb) <= Num(I.rb))
      <4>1. Bounds(Infinity, v) \in NonEmpty /\ Bounds(w, Infinity) \in NonEmpty
        BY ConstantsAreIntervals
      <4> HIDE DEF U
      <4> QED
        BY <3>1, <4>1, PiecesAreWithin
    <3>2. CASE Class(K) = "N1"
      <4>1. Num(K.rb) < 0 /\ Num(J.lb) > 0 /\ Num(J.rb) > 0
        BY <1>8, <3>2, ClassIs
      <4>2. DivUp(K.rb, J.rb) \in Ends /\ DivUp(K.rb, J.lb) \in Ends
        BY <1>1, <4>1, PieceIsUpper
      <4>3. U = Join(Meet(I, Bounds(Infinity, DivUp(K.rb, J.rb))), Meet(I, Bounds(DivUp(K.rb, J.lb), Infinity)))
        BY <1>8, <3>2, DivRelIs
      <4> HIDE DEF U
      <4> QED
        BY <3>1, <4>2, <4>3
    <3>3. CASE Class(K) = "P1"
      <4>1. Num(K.lb) < 0 /\ Num(J.lb) > 0 /\ Num(J.rb) > 0
        BY <1>8, <3>3, ClassIs
      <4>2. DivUp(K.lb, J.lb) \in Ends /\ DivUp(K.lb, J.rb) \in Ends
        BY <1>1, <4>1, PieceIsUpper
      <4>3. U = Join(Meet(I, Bounds(Infinity, DivUp(K.lb, J.lb))), Meet(I, Bounds(DivUp(K.lb, J.rb), Infinity)))
        BY <1>8, <3>3, DivRelIs
      <4> HIDE DEF U
      <4> QED
        BY <3>1, <4>2, <4>3
    <3> QED
      BY <2>1, <3>2, <3>3
  <2> HIDE DEF U, R
  <2>4. set_contains(Meet(I, universe), U)
    BY <1>3, <1>5, <2>3
  <2> QED
    BY <2>2, <2>4 DEF U, R
<1> QED
  BY <1>6, <1>7, <1>8

(* The rationals that DivRelKeepsSolutions looks at.                         *)
LEMMA CandidatesAre ==
  ASSUME NEW I \in NonEmpty, NEW K \in NonEmpty, NEW J \in NonEmpty,
         NEW q \in {<<x, Fine>> : x \in Samples(I)} \union Ratios(K, J)
  PROVE  q[1] \in Int /\ q[2] \in Nat /\ q[2] >= 1
<1>1. \A L \in NonEmpty : Samples(L) \subseteq Int
  BY SamplesAre
<1>2. Fine \in Nat /\ Fine >= 1 /\ One \in Nat
  BY ConstantsAre, LargestMagnitude
<1>3. CASE q \in {<<x, Fine>> : x \in Samples(I)}
  <2>1. PICK x \in Samples(I) : q = <<x, Fine>>
    BY <1>3
  <2> QED
    BY <1>1, <1>2, <2>1
<1>4. CASE q \in Ratios(K, J)
  <2>1. PICK x \in Samples(K), y \in Samples(J) \ {0} : q = Ratio(x, y)
    BY <1>4 DEF Ratios
  <2>2. x \in Int /\ y \in Int /\ y # 0
    BY <1>1, <2>1
  <2>3. x * One \in Int /\ -(x * One) \in Int
    BY <1>2, <2>2
  <2> QED
    BY <2>1, <2>2, <2>3 DEF Ratio
<1> QED
  BY <1>3, <1>4

(* The solutions that div_rel() keeps of what a program comes to.            *)
LEMMA SolutionsOfKept ==
  ASSUME Kept
  PROVE  DivRelKeepsSolutions
<1>1. X \in Intervals /\ Y \in Intervals /\ Sse \in BOOLEAN
  BY ProgramAssumption DEF Kept, X, Y, Names
<1>2. universe \in NonEmpty /\ positive \in NonEmpty
  BY <1>1, ConstantsAreIntervals
<1>3. ASSUME NEW I \in NonEmpty PROVE SolutionsAreIn(div_rel(X, Y, I), I)
  <2>1. CASE X = emptyset \/ Y = emptyset
    <3>1. is_empty(X) \/ is_empty(Y)
      BY <2>1, EmptySetIs
    <3>2. div_rel(X, Y, I) = emptyset
      BY <3>1 DEF div_rel
    <3>3. \A q : ~Solves(q, Y, X)
      BY <3>1 DEF Solves
    <3>4. set_contains(Meet(I, RelQuotient(X, Y, FALSE)), emptyset)
      BY EmptySetIs DEF set_contains
    <3> QED
      BY <3>2, <3>3, <3>4 DEF SolutionsAreIn
  <2>2. CASE X \in NonEmpty /\ Y \in NonEmpty
    <3>1. ASSUME NEW q \in {<<x, Fine>> : x \in Samples(I)} \union Ratios(X, Y),
                 InRational(q, I), Solves(q, Y, X)
          PROVE  InRational(q, div_rel(X, Y, I))
      <4>1. q[1] \in Int /\ q[2] \in Nat /\ q[2] >= 1
        BY <2>2, CandidatesAre
      <4> QED
        BY <1>1, <2>2, <3>1, <4>1, DivRelHasSolutions
    <3>2. set_contains(Meet(I, RelQuotient(X, Y, FALSE)), div_rel(X, Y, I))
      BY <1>1, <2>2, DivRelIsWithin
    <3> QED
      BY <3>1, <3>2 DEF SolutionsAreIn
  <2> QED
    BY <1>1, <2>1, <2>2 DEF Intervals
<1> QED
  BY <1>2, <1>3 DEF DivRelKeepsSolutions

-----------------------------------------------------------------------------
(* What a number of units stands for, whichever bound it is that of.         *)
LEMMA ReachOfNum ==
  /\ \A x, y \in Ends : Num(x) = Num(y) => Reach(x) = Reach(y)
  /\ \A x \in Ends : Num(x) = 0 => Reach(x) = 0
<1>1. ASSUME NEW x \in Ends, NEW y \in Ends, Num(x) = Num(y) PROVE Reach(x) = Reach(y)
  <2>1. Reach(x) <= Reach(y) /\ Reach(y) <= Reach(x)
    BY <1>1, ReachesCompare, EndsAre
  <2> QED
    BY <2>1, ReachIs
<1>2. ASSUME NEW x \in Ends, Num(x) = 0 PROVE Reach(x) = 0
  <2>1. x # Infinity
    BY <1>2, EndsAre, ConstantsAre
  <2> QED
    BY <1>2, <2>1, ReachIs
<1> QED
  BY <1>1, <1>2

(* An end is the ceiling of what it stands for.                              *)
LEMMA EndIsCeiling ==
  ASSUME NEW x \in Ends
  PROVE  IsCeiling(x, From(Reach(x), 1))
<1>1. \A w \in FiniteNums : w \in Int /\ w <= Largest /\ w * 1 = w
  BY FiniteNumsRange
<1>2. CASE x = Infinity
  <2>1. Reach(x) = Beyond /\ Beyond \in Int /\ Beyond > Largest /\ Largest \in Nat
    BY <1>2, ReachIs, ConstantsAre
  <2>2. From(Reach(x), 1) = {}
    BY <1>1, <2>1 DEF From
  <2> QED
    BY <1>2, <2>2 DEF IsCeiling
<1>3. CASE x # Infinity
  <2>1. Reach(x) = Num(x) /\ Num(x) \in Int
    BY <1>3, ReachIs, EndsAre
  <2>2. Num(x) \in FiniteNums
    BY <1>3, EndsAre, FiniteOrInfinite
  <2> QED
    BY <1>1, <2>1, <2>2 DEF IsCeiling, From
<1> QED
  BY <1>2, <1>3

(* The hull of samples whose extremes are those of an interval is what its    *)
(* bounds are worth.                                                        *)
LEMMA HullOfSamples ==
  ASSUME NEW M \in NonEmpty, NEW V, Extremes(V, -Bottom(M), Top(M))
  PROVE  Value(M) = Hull(Over(V, Fine))
<1>1. /\ M.lb \in Ends /\ M.rb \in Ends /\ M = Bounds(M.lb, M.rb)
      /\ Reach(M.lb) \in Int /\ Reach(M.rb) \in Int
      /\ Fine \in Nat /\ Fine >= 1
  BY NonEmptyIs, ReachIs, ConstantsAre
<1>2. /\ Bounding(Over(V, Fine)) = From(Top(M), Fine)
      /\ Bounding(Opposites(Over(V, Fine))) = From(-(-Bottom(M)), Fine)
      /\ Over(V, Fine) # {}
  BY <1>1, FractionsAreBounded
<1>3. -(-Bottom(M)) = Bottom(M)
  BY SamplesAre
<1>4. /\ Bounding(Over(V, Fine)) = From(Reach(M.rb), 1)
      /\ Bounding(Opposites(Over(V, Fine))) = From(Reach(M.lb), 1)
  BY <1>1, <1>2, <1>3, FromOfSamples DEF Top, Bottom
<1>5. Hull(Over(V, Fine)) = <<Num(M.lb), Num(M.rb)>>
  BY <1>1, <1>2, <1>4, EndIsCeiling, HullIs
<1> QED
  BY <1>1, <1>5, ValueIs

(* An interval with the bounds of others, or 0, has their samples as extremes *)
LEMMA ExtremesOfBounds ==
  ASSUME NEW M \in NonEmpty, NEW x \in Ends
  PROVE  /\ Num(M.rb) = Num(x) => Top(M) = Reach(x) * Fine
         /\ Num(M.lb) = Num(x) => Bottom(M) = Reach(x) * Fine
         /\ Num(M.rb) = 0 => Top(M) = 0
         /\ Num(M.lb) = 0 => Bottom(M) = 0
<1>1. M.lb \in Ends /\ M.rb \in Ends
  BY NonEmptyIs
<1>2. /\ Num(M.rb) = Num(x) => Reach(M.rb) = Reach(x)
      /\ Num(M.lb) = Num(x) => Reach(M.lb) = Reach(x)
      /\ Num(M.rb) = 0 => Reach(M.rb) = 0
      /\ Num(M.lb) = 0 => Reach(M.lb) = 0
  BY <1>1, ReachOfNum
<1>3. 0 * Fine = 0
  BY ConstantsAre
<1> QED
  BY <1>2, <1>3 DEF Top, Bottom

(* The bounds of an interval are of the sign of its extremes, and compare as  *)
(* them.                                                                     *)
LEMMA SignsOfExtremes ==
  ASSUME NEW I \in NonEmpty
  PROVE  /\ Top(I) \in Int /\ Bottom(I) \in Int /\ -Bottom(I) <= Top(I)
         /\ Bottom(I) <= 0 <=> Num(I.lb) <= 0
         /\ Top(I) <= 0 <=> Num(I.rb) <= 0
         /\ Bottom(I) >= 0 <=> Num(I.lb) >= 0
         /\ Top(I) >= 0 <=> Num(I.rb) >= 0
         /\ Bottom(I) <= Top(I) <=> Num(I.lb) <= Num(I.rb)
<1>1. /\ I.lb \in Ends /\ I.rb \in Ends
      /\ Num(I.lb) \in Int /\ Num(I.rb) \in Int
  BY NonEmptyIs
<1> DEFINE z == Zero(TRUE)
<1>2. z \in Ends /\ Num(z) = 0
  BY EndsAre
<1> HIDE DEF z
<1>3. Reach(z) = 0
  BY <1>2, ReachOfNum
<1> DEFINE a == Reach(I.lb)
           b == Reach(I.rb)
<1>4. /\ a \in Int /\ b \in Int
      /\ a <= 0 <=> Num(I.lb) <= 0
      /\ b <= 0 <=> Num(I.rb) <= 0
      /\ 0 <= a <=> 0 <= Num(I.lb)
      /\ 0 <= b <=> 0 <= Num(I.rb)
      /\ a <= b <=> Num(I.lb) <= Num(I.rb)
  BY <1>1, <1>2, <1>3, ReachIs, ReachesCompare
<1>5. Bottom(I) = a * Fine /\ Top(I) = b * Fine /\ 0 * Fine = 0 /\ Fine \in Nat /\ Fine >= 1
  BY ConstantsAre DEF Top, Bottom
<1> HIDE DEF a, b
<1>6. /\ a <= 0 <=> a * Fine <= 0 * Fine
      /\ b <= 0 <=> b * Fine <= 0 * Fine
      /\ 0 <= a <=> 0 * Fine <= a * Fine
      /\ 0 <= b <=> 0 * Fine <= b * Fine
      /\ a <= b <=> a * Fine <= b * Fine
  BY <1>4, <1>5, ProductsCompare
<1>7. /\ Top(I) \in Int /\ Bottom(I) \in Int /\ -Bottom(I) <= Top(I)
  BY SamplesAre
<1> QED
  BY <1>4, <1>5, <1>6, <1>7

(* The extremes of the magnitudes of a bounded set of numbers.               *)
LEMMA ModuliHaveExtremes ==
  ASSUME NEW S, NEW a, NEW b, Extremes(S, a, b), a <= 0 /\ b >= 0 => 0 \in S
  PROVE  LET M == {Modulus(x) : x \in S}
             most == IF -a <= b THEN b ELSE -a
         IN /\ a >= 0 => Extremes(M, a, most)
            /\ b < 0 => Extremes(M, -b, most)
            /\ a <= 0 /\ b >= 0 => Extremes(M, 0, most)
<1> DEFINE M == {Modulus(x) : x \in S}
           most == IF -a <= b THEN b ELSE -a
<1>1. /\ S \subseteq Int /\ a \in S /\ b \in S /\ a \in Int /\ b \in Int /\ a <= b
      /\ \A x \in S : x \in Int /\ a <= x /\ x <= b
  BY DEF Extremes
<1>2. Modulus(a) \in M /\ Modulus(b) \in M /\ (0 \in S => Modulus(0) \in M) /\ Modulus(0) = 0
  BY <1>1 DEF Modulus
<1>3. ASSUME NEW m \in M
      PROVE  /\ m \in Int /\ m <= most
             /\ a >= 0 => a <= m
             /\ b < 0 => -b <= m
             /\ 0 <= m
  <2>1. PICK x \in S : m = Modulus(x)
    OBVIOUS
  <2> QED
    BY <1>1, <2>1 DEF Modulus
<1>4. most \in M
  BY <1>1, <1>2 DEF Modulus
<1>5. /\ a >= 0 => a \in M
      /\ b < 0 => -b \in M
  <2>1. a >= 0 => Modulus(a) = a
    BY <1>1 DEF Modulus
  <2>2. b < 0 => Modulus(b) = -b
    BY <1>1 DEF Modulus
  <2> QED
    BY <1>1, <1>2, <2>1, <2>2
<1> HIDE DEF M, most
<1>6. M \subseteq Int
  BY <1>3
<1> QED
  BY <1>2, <1>3, <1>4, <1>5, <1>6 DEF Extremes, M, most

(* abs() gives the hull of the magnitudes.                                   *)
LEMMA MagnitudesAreHull ==
  ASSUME NEW I \in Intervals
  PROVE  Value(abs(I)) = Hull(Over({Modulus(x) : x \in Samples(I)}, Fine))
<1>1. CASE I = emptyset
  <2>1. abs(I) = emptyset
    BY <1>1, EmptySetIs DEF abs
  <2>2. Over({Modulus(x) : x \in Samples(I)}, Fine) = {}
    BY <1>1, EmptyHasNone DEF Over
  <2> QED
    BY <2>1, <2>2, ValueIs
<1>2. CASE I \in NonEmpty
  <2> DEFINE A == abs(I)
             V == {Modulus(x) : x \in Samples(I)}
  <2>1. /\ A \in NonEmpty /\ A.lb \in Ends /\ A.rb \in Ends /\ I.lb \in Ends /\ I.rb \in Ends
        /\ Num(A.lb) = IF Num(I.lb) <= 0 THEN Num(I.lb) ELSE IF Num(I.rb) <= 0 THEN Num(I.rb) ELSE 0
        /\ Num(A.rb) = IF Num(I.lb) <= Num(I.rb) THEN Num(I.rb) ELSE Num(I.lb)
    BY <1>2, MagnitudesOf, NonEmptyIs
  <2> HIDE DEF A
  <2> DEFINE a == -Bottom(I)
             b == Top(I)
             most == IF -a <= b THEN b ELSE -a
  <2>2. /\ Top(I) \in Int /\ Bottom(I) \in Int /\ -Bottom(I) <= Top(I)
        /\ Bottom(I) <= 0 <=> Num(I.lb) <= 0
        /\ Top(I) <= 0 <=> Num(I.rb) <= 0
        /\ Bottom(I) <= Top(I) <=> Num(I.lb) <= Num(I.rb)
    BY <1>2, SignsOfExtremes
  <2>3. Extremes(Samples(I), a, b)
    BY <1>2, SamplesHaveExtremes
  <2>4. a <= 0 /\ b >= 0 => 0 \in Samples(I)
    BY <1>2, ZeroIsSample
  <2>5. /\ a >= 0 => Extremes(V, a, most)
        /\ b < 0 => Extremes(V, -b, most)
        /\ a <= 0 /\ b >= 0 => Extremes(V, 0, most)
    BY <2>3, <2>4, ModuliHaveExtremes
  <2>6. Top(A) = IF Bottom(I) <= Top(I) THEN Top(I) ELSE Bottom(I)
    BY <2>1, <2>2, ExtremesOfBounds DEF Top, Bottom
  <2>7. Bottom(A) = IF Bottom(I) <= 0 THEN Bottom(I) ELSE IF Top(I) <= 0 THEN Top(I) ELSE 0
    <3>1. CASE Num(I.lb) <= 0
      <4>1. Bottom(A) = Reach(I.lb) * Fine
        BY <2>1, <3>1, ExtremesOfBounds
      <4> QED
        BY <2>2, <3>1, <4>1 DEF Bottom
    <3>2. CASE ~(Num(I.lb) <= 0) /\ Num(I.rb) <= 0
      <4>1. Bottom(A) = Reach(I.rb) * Fine
        BY <2>1, <3>2, ExtremesOfBounds
      <4>2. Bottom(A) = Top(I)
        BY <4>1 DEF Top
      <4> QED
        BY <2>2, <3>2, <4>2
    <3>3. CASE ~(Num(I.lb) <= 0) /\ ~(Num(I.rb) <= 0)
      <4>1. Bottom(A) = 0
        BY <2>1, <3>3, ExtremesOfBounds
      <4> QED
        BY <2>2, <3>3, <4>1
    <3> QED
      BY <3>1, <3>2, <3>3
  <2> HIDE DEF V
  <2>8. most = Top(A)
    BY <2>2, <2>6
  <2>9. Extremes(V, -Bottom(A), Top(A))
    <3>1. CASE Bottom(I) <= 0
      <4>1. a >= 0 /\ Bottom(A) = Bottom(I)
        BY <2>2, <2>7, <3>1
      <4> QED
        BY <2>5, <2>8, <4>1
    <3>2. CASE ~(Bottom(I) <= 0) /\ Top(I) < 0
      <4>1. b < 0 /\ Bottom(A) = Top(I)
        BY <2>2, <2>7, <3>2
      <4> QED
        BY <2>5, <2>8, <4>1
    <3>3. CASE ~(Bottom(I) <= 0) /\ ~(Top(I) < 0)
      <4>1. a <= 0 /\ b >= 0 /\ Bottom(A) = 0
        BY <2>2, <2>7, <3>3
      <4>2. Bottom(A) \in Int /\ -Bottom(A) = 0 - Bottom(A)
        BY <2>1, SignsOfExtremes
      <4>3. -Bottom(A) = 0
        BY <4>1, <4>2
      <4> QED
        BY <2>5, <2>8, <4>1, <4>3
    <3> QED
      BY <3>1, <3>2, <3>3
  <2> QED
    BY <2>1, <2>9, HullOfSamples DEF V, A
<1> QED
  BY <1>1, <1>2 DEF Intervals

(* The magnitude of a double                                                 *)
LEMMA ModulusOfDouble ==
  ASSUME NEW x \in Doubles
  PROVE  fabs(x) \in Doubles /\ Num(fabs(x)) = Modulus(Num(x)) /\ fabs(x).neg = FALSE
<1>1. /\ x.mag \in Nat /\ x.neg \in BOOLEAN /\ x # NaN
      /\ x.neg => Num(x) = -x.mag
      /\ ~x.neg => Num(x) = x.mag
  BY NumOfMagnitude, FiniteOrInfinite
<1>2. fabs(x) = [x EXCEPT !.neg = FALSE]
  BY <1>1 DEF fabs
<1>3. fabs(x) \in Doubles /\ fabs(x).neg = FALSE /\ fabs(x).mag = x.mag
  BY <1>2 DEF Doubles
<1>4. Num(fabs(x)) = x.mag
  BY <1>3 DEF Num
<1>5. Modulus(Num(x)) = x.mag
  <2>1. CASE x.neg
    <3>1. CASE x.mag = 0
      <4>1. Num(x) = 0
        BY <3>1, NumOfMagnitude
      <4> QED
        BY <3>1, <4>1 DEF Modulus
    <3>2. CASE x.mag # 0
      BY <1>1, <2>1, <3>2 DEF Modulus
    <3> QED
      BY <3>1, <3>2
  <2>2. CASE ~x.neg
    BY <1>1, <2>2 DEF Modulus
  <2> QED
    BY <2>1, <2>2
<1> QED
  BY <1>3, <1>4, <1>5

(* mig() and mag() are the bounds of the magnitudes.                         *)
LEMMA MagnitudesAreBounds ==
  ASSUME NEW I \in NonEmpty
  PROVE  <<-Num(mig(I)), Num(mag(I))>> = Value(abs(I))
<1>1. /\ abs(I) \in NonEmpty /\ abs(I).lb \in Ends /\ abs(I).rb \in Ends
      /\ abs(I) = Bounds(abs(I).lb, abs(I).rb)
      /\ Num(abs(I).lb) = IF Num(I.lb) <= 0 THEN Num(I.lb) ELSE IF Num(I.rb) <= 0 THEN Num(I.rb) ELSE 0
      /\ Num(abs(I).rb) = IF Num(I.lb) <= Num(I.rb) THEN Num(I.rb) ELSE Num(I.lb)
  BY MagnitudesOf, NonEmptyIs
<1>2. Value(abs(I)) = <<Num(abs(I).lb), Num(abs(I).rb)>>
  BY <1>1, ValueIs
<1>3. /\ left(I) \in Doubles /\ right(I) \in Doubles /\ right(I) = I.rb /\ ~is_empty(I)
      /\ Num(left(I)) = -Num(I.lb) /\ Num(I.lb) \in Int /\ Num(I.rb) \in Int
      /\ Num(I.lb) + Num(I.rb) >= 0
  BY NonEmptyIs
<1>4. /\ straddles_zero(I) <=> Num(I.lb) >= 0 /\ Num(I.rb) >= 0
      /\ Lt(right(I), Zero(FALSE)) <=> Num(I.rb) < 0
  BY BoundsCompare, StraddlesAre
<1>5. Num(mag(I)) = Num(abs(I).rb)
  <2>1. /\ fabs(left(I)) \in Doubles /\ Num(fabs(left(I))) = Modulus(Num(left(I)))
        /\ fabs(right(I)) \in Doubles /\ Num(fabs(right(I))) = Modulus(Num(right(I)))
    BY <1>3, ModulusOfDouble
  <2> DEFINE u == Modulus(Num(left(I)))
             v == Modulus(Num(right(I)))
  <2>2. Num(mag(I)) = IF u <= v THEN v ELSE u
    BY <2>1, ExtremesOfTwo DEF mag
  <2>3. /\ u \in Int /\ v \in Int
        /\ IF Num(I.lb) <= 0 THEN u + Num(I.lb) = 0 ELSE u = Num(I.lb)
        /\ IF Num(I.rb) < 0 THEN v + Num(I.rb) = 0 ELSE v = Num(I.rb)
    BY <1>3 DEF Modulus
  <2> HIDE DEF u, v
  <2> QED
    BY <1>1, <1>3, <2>2, <2>3
<1> DEFINE s == smig(I)
<1>6. s = IF straddles_zero(I) THEN Zero(FALSE)
          ELSE IF Lt(right(I), Zero(FALSE)) THEN right(I) ELSE left(I)
  BY <1>3, Zenon DEF smig
<1>7. /\ s \in Doubles
      /\ Num(s) = IF Num(I.lb) >= 0 /\ Num(I.rb) >= 0 THEN 0
                  ELSE IF Num(I.rb) < 0 THEN Num(I.rb) ELSE -Num(I.lb)
  <2>1. Zero(FALSE) \in Doubles /\ Num(Zero(FALSE)) = 0
    BY EndsAre
  <2> HIDE DEF s
  <2> QED
    BY <1>3, <1>4, <1>6, <2>1
<1>8. Num(mig(I)) = Modulus(Num(s))
  BY <1>7, ModulusOfDouble DEF mig
<1> HIDE DEF s
<1>9. Num(mig(I)) \in Int /\ Num(mig(I)) + Num(abs(I).lb) = 0
  BY <1>1, <1>3, <1>7, <1>8 DEF Modulus
<1>10. -Num(mig(I)) = Num(abs(I).lb)
  BY <1>1, <1>3, <1>9
<1> QED
  BY <1>2, <1>5, <1>10

(* max() and min() give the hulls.                                           *)
LEMMA MaximumIsHull ==
  ASSUME NEW I \in Intervals, NEW J \in Intervals
  PROVE  /\ Value(max(I, J)) = Hull(Over(Greater(Samples(I), Samples(J)), Fine))
         /\ Value(min(I, J)) = Hull(Over(Lesser(Samples(I), Samples(J)), Fine))
<1>1. CASE I = emptyset \/ J = emptyset
  <2>1. \A x : /\ maximum(NaN, x) = NaN /\ maximum(x, NaN) = NaN
               /\ minimum(NaN, x) = NaN /\ minimum(x, NaN) = NaN
    BY DEF maximum, minimum
  <2>2. Interval(NaN, NaN) = emptyset
    BY DEF Interval, Leq
  <2>3. max(I, J) = emptyset /\ min(I, J) = emptyset
    BY <1>1, <2>1, <2>2, EmptySetIs DEF max, min
  <2>4. Samples(I) = {} \/ Samples(J) = {}
    BY <1>1, EmptyHasNone
  <2>5. Over(Greater(Samples(I), Samples(J)), Fine) = {} /\ Over(Lesser(Samples(I), Samples(J)), Fine) = {}
    BY <2>4 DEF Over, Greater, Lesser
  <2> QED
    BY <2>3, <2>5, ValueIs
<1>2. CASE I \in NonEmpty /\ J \in NonEmpty
  <2> DEFINE U == max(I, J)
             L == min(I, J)
  <2>1. /\ left(I) \in Doubles /\ right(I) \in Doubles /\ left(J) \in Doubles /\ right(J) \in Doubles
        /\ Num(left(I)) = -Num(I.lb) /\ Num(left(J)) = -Num(J.lb)
        /\ right(I) = I.rb /\ right(J) = J.rb
        /\ Num(I.lb) \in Int /\ Num(I.rb) \in Int /\ Num(J.lb) \in Int /\ Num(J.rb) \in Int
        /\ Num(I.lb) + Num(I.rb) >= 0 /\ Num(J.lb) + Num(J.rb) >= 0
        /\ -Largest <= Num(I.lb) /\ -Largest <= Num(J.lb)
        /\ -Largest <= Num(I.rb) /\ -Largest <= Num(J.rb)
        /\ I.lb \in Ends /\ I.rb \in Ends /\ J.lb \in Ends /\ J.rb \in Ends
        /\ Largest \in Nat
    BY <1>2, NonEmptyIs, EndsAre, ConstantsAre
  <2> DEFINE ul == maximum(left(I), left(J))
             ur == maximum(right(I), right(J))
             ll == minimum(left(I), left(J))
             lr == minimum(right(I), right(J))
  <2>2. /\ ul \in Doubles /\ Num(ul) = IF Num(left(I)) <= Num(left(J)) THEN Num(left(J)) ELSE Num(left(I))
        /\ ur \in Doubles /\ Num(ur) = IF Num(right(I)) <= Num(right(J)) THEN Num(right(J)) ELSE Num(right(I))
        /\ ll \in Doubles /\ Num(ll) = IF Num(left(I)) <= Num(left(J)) THEN Num(left(I)) ELSE Num(left(J))
        /\ lr \in Doubles /\ Num(lr) = IF Num(right(I)) <= Num(right(J)) THEN Num(right(I)) ELSE Num(right(J))
    BY <2>1, ExtremesOfTwo
  <2>3. U = Interval(ul, ur) /\ L = Interval(ll, lr)
    BY DEF max, min
  <2> HIDE DEF ul, ur, ll, lr, U, L
  <2>4. /\ U \in NonEmpty /\ U.lb = Opposite(ul) /\ U.rb = ur /\ Num(U.lb) = -Num(ul)
        /\ L \in NonEmpty /\ L.lb = Opposite(ll) /\ L.rb = lr /\ Num(L.lb) = -Num(ll)
    <3>1. /\ Num(ul) <= Num(ur) /\ Num(ul) <= Largest /\ Num(ur) >= -Largest
          /\ Num(ll) <= Num(lr) /\ Num(ll) <= Largest /\ Num(lr) >= -Largest
      BY <2>1, <2>2
    <3> QED
      BY <2>2, <2>3, <3>1, ConstructedIs
  <2>5. /\ Num(U.lb) = IF Num(J.lb) <= Num(I.lb) THEN Num(J.lb) ELSE Num(I.lb)
        /\ Num(U.rb) = IF Num(I.rb) <= Num(J.rb) THEN Num(J.rb) ELSE Num(I.rb)
        /\ Num(L.lb) = IF Num(J.lb) <= Num(I.lb) THEN Num(I.lb) ELSE Num(J.lb)
        /\ Num(L.rb) = IF Num(I.rb) <= Num(J.rb) THEN Num(I.rb) ELSE Num(J.rb)
    BY <2>1, <2>2, <2>4
  <2>6. /\ Bottom(U) = IF Bottom(J) <= Bottom(I) THEN Bottom(J) ELSE Bottom(I)
        /\ Top(U) = IF Top(I) <= Top(J) THEN Top(J) ELSE Top(I)
        /\ Bottom(L) = IF Bottom(J) <= Bottom(I) THEN Bottom(I) ELSE Bottom(J)
        /\ Top(L) = IF Top(I) <= Top(J) THEN Top(I) ELSE Top(J)
    <3>1. /\ Top(J) <= Top(I) <=> Num(J.rb) <= Num(I.rb)
          /\ Top(I) <= Top(J) <=> Num(I.rb) <= Num(J.rb)
          /\ Bottom(J) <= Bottom(I) <=> Num(J.lb) <= Num(I.lb)
      BY <1>2, ExtremesCompare
    <3>2. \A M \in NonEmpty : /\ Num(M.rb) = Num(I.rb) => Top(M) = Top(I)
                              /\ Num(M.rb) = Num(J.rb) => Top(M) = Top(J)
                              /\ Num(M.lb) = Num(I.lb) => Bottom(M) = Bottom(I)
                              /\ Num(M.lb) = Num(J.lb) => Bottom(M) = Bottom(J)
      BY <2>1, ExtremesOfBounds DEF Top, Bottom
    <3> QED
      BY <2>4, <2>5, <3>1, <3>2
  <2>7. /\ Extremes(Greater(Samples(I), Samples(J)), IF -Bottom(I) < -Bottom(J) THEN -Bottom(J) ELSE -Bottom(I),
                                                     IF Top(I) < Top(J) THEN Top(J) ELSE Top(I))
        /\ Extremes(Lesser(Samples(I), Samples(J)), IF -Bottom(I) < -Bottom(J) THEN -Bottom(I) ELSE -Bottom(J),
                                                    IF Top(I) < Top(J) THEN Top(I) ELSE Top(J))
    <3>1. Extremes(Samples(I), -Bottom(I), Top(I)) /\ Extremes(Samples(J), -Bottom(J), Top(J))
      BY <1>2, SamplesHaveExtremes
    <3> QED
      BY <3>1, ExtremesOfPairs
  <2>8. /\ (IF -Bottom(I) < -Bottom(J) THEN -Bottom(J) ELSE -Bottom(I)) = -Bottom(U)
        /\ (IF Top(I) < Top(J) THEN Top(J) ELSE Top(I)) = Top(U)
        /\ (IF -Bottom(I) < -Bottom(J) THEN -Bottom(I) ELSE -Bottom(J)) = -Bottom(L)
        /\ (IF Top(I) < Top(J) THEN Top(I) ELSE Top(J)) = Top(L)
    <3>1. Bottom(I) \in Int /\ Bottom(J) \in Int /\ Top(I) \in Int /\ Top(J) \in Int
      BY <1>2, SamplesAre
    <3> QED
      BY <2>6, <3>1
  <2>9. /\ Extremes(Greater(Samples(I), Samples(J)), -Bottom(U), Top(U))
        /\ Extremes(Lesser(Samples(I), Samples(J)), -Bottom(L), Top(L))
    BY <2>7, <2>8, Zenon
  <2> QED
    BY <2>4, <2>9, HullOfSamples DEF U, L
<1> QED
  BY <1>1, <1>2 DEF Intervals

(* No sample is beyond those of an unbounded interval.                       *)
LEMMA SamplesAreNear ==
  ASSUME NEW I \in NonEmpty
  PROVE  /\ Bottom(I) <= Beyond * Fine /\ Top(I) <= Beyond * Fine
         /\ Bottom(I) \in Int /\ Top(I) \in Int /\ -Bottom(I) <= Top(I)
         /\ Beyond * Fine \in Int
         /\ \A x \in Samples(I) : x \in Int /\ -(Beyond * Fine) <= x /\ x <= Beyond * Fine
<1>1. /\ Reach(I.lb) \in Int /\ Reach(I.lb) <= Beyond
      /\ Reach(I.rb) \in Int /\ Reach(I.rb) <= Beyond
      /\ Fine \in Nat /\ Fine >= 1 /\ Beyond \in Int /\ Beyond * Fine \in Int
  BY NonEmptyIs, ReachIs, ConstantsAre
<1>2. Reach(I.lb) * Fine <= Beyond * Fine /\ Reach(I.rb) * Fine <= Beyond * Fine
  BY <1>1, ProductsCompare
<1>3. Bottom(I) <= Beyond * Fine /\ Top(I) <= Beyond * Fine
  BY <1>2 DEF Bottom, Top
<1>4. /\ \A x \in Samples(I) : x \in Int /\ -Bottom(I) <= x /\ x <= Top(I)
      /\ Bottom(I) \in Int /\ Top(I) \in Int /\ -Bottom(I) <= Top(I)
  BY SamplesAre
<1> DEFINE most == Beyond * Fine
<1>5. most \in Int /\ Bottom(I) <= most /\ Top(I) <= most
  BY <1>1, <1>3
<1> HIDE DEF most
<1>6. \A x \in Samples(I) : x \in Int /\ -most <= x /\ x <= most
  BY <1>4, <1>5
<1> QED
  BY <1>3, <1>4, <1>5, <1>6 DEF most

(* The extremes of the reals of two intervals are those of the interval that  *)
(* has both, and no real is in the two when it is empty.                      *)
LEMMA MeetHasBounds ==
  ASSUME NEW I \in NonEmpty, NEW J \in NonEmpty
  PROVE  \/ /\ Meet(I, J) \in NonEmpty
            /\ Bottom(Meet(I, J)) = IF Bottom(I) <= Bottom(J) THEN Bottom(I) ELSE Bottom(J)
            /\ Top(Meet(I, J)) = IF Top(I) <= Top(J) THEN Top(I) ELSE Top(J)
         \/ /\ Meet(I, J) = emptyset
            /\ Top(I) + Bottom(J) < 0 \/ Top(J) + Bottom(I) < 0
<1> DEFINE M == Meet(I, J)
           l == IF Num(I.lb) <= Num(J.lb) THEN Num(I.lb) ELSE Num(J.lb)
           r == IF Num(I.rb) <= Num(J.rb) THEN Num(I.rb) ELSE Num(J.rb)
<1>1. /\ l + r >= 0 => M \in NonEmpty /\ Num(M.lb) = l /\ Num(M.rb) = r
      /\ l + r < 0 => M = emptyset
  BY MeetIs
<1>2. /\ I.lb \in Ends /\ I.rb \in Ends /\ J.lb \in Ends /\ J.rb \in Ends
      /\ Num(I.lb) \in Int /\ Num(I.rb) \in Int /\ Num(J.lb) \in Int /\ Num(J.rb) \in Int
      /\ Num(I.lb) + Num(I.rb) >= 0 /\ Num(J.lb) + Num(J.rb) >= 0
  BY NonEmptyIs
<1>3. /\ Top(J) + Bottom(I) < 0 <=> Num(J.rb) + Num(I.lb) < 0
      /\ Top(I) <= Top(J) <=> Num(I.rb) <= Num(J.rb)
      /\ Bottom(I) <= Bottom(J) <=> Num(I.lb) <= Num(J.lb)
  BY ExtremesCompare
<1>4. Top(I) + Bottom(J) < 0 <=> Num(I.rb) + Num(J.lb) < 0
  BY ExtremesCompare
<1>5. \A U \in NonEmpty : /\ Num(U.rb) = Num(I.rb) => Top(U) = Top(I)
                          /\ Num(U.rb) = Num(J.rb) => Top(U) = Top(J)
                          /\ Num(U.lb) = Num(I.lb) => Bottom(U) = Bottom(I)
                          /\ Num(U.lb) = Num(J.lb) => Bottom(U) = Bottom(J)
  BY <1>2, ExtremesOfBounds DEF Top, Bottom
<1> HIDE DEF M
<1>6. CASE l + r >= 0
  <2>1. M \in NonEmpty /\ Num(M.lb) = l /\ Num(M.rb) = r
    BY <1>1, <1>6
  <2>2. /\ Bottom(M) = IF Bottom(I) <= Bottom(J) THEN Bottom(I) ELSE Bottom(J)
        /\ Top(M) = IF Top(I) <= Top(J) THEN Top(I) ELSE Top(J)
    BY <1>3, <1>5, <2>1
  <2> QED
    BY <2>1, <2>2 DEF M
<1>7. CASE l + r < 0
  <2>1. Top(I) + Bottom(J) < 0 \/ Top(J) + Bottom(I) < 0
    BY <1>2, <1>3, <1>4, <1>7
  <2> QED
    BY <1>1, <1>7, <2>1 DEF M
<1>8. l + r >= 0 \/ l + r < 0
  BY <1>2
<1> QED
  BY <1>6, <1>7, <1>8

(* The numbers of a set that are in an interval I and in another J.          *)
Shared(V, I, J) == {x \in V : In(x, J) /\ In(x, I)}

(* A set of numbers no farther than the samples *)
Near(V) == \A x \in V : x \in Int /\ -(Beyond * Fine) <= x /\ x <= Beyond * Fine

LEMMA SharedHaveExtremes ==
  ASSUME NEW I \in NonEmpty, NEW J \in NonEmpty, NEW V, Near(V),
         Meet(J, I) \in NonEmpty => -Bottom(Meet(J, I)) \in V /\ Top(Meet(J, I)) \in V
  PROVE  \/ /\ Meet(J, I) \in NonEmpty
            /\ Extremes(Shared(V, I, J), -Bottom(Meet(J, I)), Top(Meet(J, I)))
         \/ Meet(J, I) = emptyset /\ Shared(V, I, J) = {}
<1> DEFINE M == Meet(J, I)
           W == Shared(V, I, J)
<1>1. \A x \in V : x \in Int
  BY DEF Near
<1>2. \A x \in V : /\ In(x, I) <=> -Bottom(I) <= x /\ x <= Top(I)
                   /\ In(x, J) <=> -Bottom(J) <= x /\ x <= Top(J)
  BY InIs DEF Near
<1>3. /\ Bottom(I) \in Int /\ Top(I) \in Int /\ -Bottom(I) <= Top(I)
      /\ Bottom(J) \in Int /\ Top(J) \in Int /\ -Bottom(J) <= Top(J)
  BY SamplesAre
<1>4. W = {x \in V : In(x, J) /\ In(x, I)}
  BY DEF Shared
<1>5. \/ /\ M \in NonEmpty
         /\ Bottom(M) = IF Bottom(J) <= Bottom(I) THEN Bottom(J) ELSE Bottom(I)
         /\ Top(M) = IF Top(J) <= Top(I) THEN Top(J) ELSE Top(I)
      \/ /\ M = emptyset
         /\ Top(J) + Bottom(I) < 0 \/ Top(I) + Bottom(J) < 0
  BY MeetHasBounds
<1>6. M \in NonEmpty => -Bottom(M) \in V /\ Top(M) \in V
  OBVIOUS
<1> HIDE DEF M, W
<1>7. CASE /\ M \in NonEmpty
           /\ Bottom(M) = IF Bottom(J) <= Bottom(I) THEN Bottom(J) ELSE Bottom(I)
           /\ Top(M) = IF Top(J) <= Top(I) THEN Top(J) ELSE Top(I)
  <2>1. /\ Bottom(M) \in Int /\ Top(M) \in Int /\ -Bottom(M) <= Top(M)
    BY <1>7, SamplesAre
  <2>2. \A x \in V : x \in W <=> -Bottom(M) <= x /\ x <= Top(M)
    BY <1>1, <1>2, <1>3, <1>4, <1>7, <2>1
  <2>3. W \subseteq V
    BY <1>4
  <2>4. Extremes(W, -Bottom(M), Top(M))
    BY <1>1, <1>6, <1>7, <2>1, <2>2, <2>3 DEF Extremes
  <2> QED
    BY <1>7, <2>4 DEF M, W
<1>8. CASE M = emptyset /\ (Top(J) + Bottom(I) < 0 \/ Top(I) + Bottom(J) < 0)
  <2>1. W = {}
    BY <1>1, <1>2, <1>3, <1>4, <1>8
  <2> QED
    BY <1>8, <2>1 DEF M, W
<1> QED
  BY <1>5, <1>7, <1>8

(* The reals of I whose magnitude is in K.                                   *)
Measured(V, I, K) == {x \in V : In(x, I) /\ In(Modulus(x), K)}

(* They are those of I in the part of K that is not negative, or in its       *)
(* opposite.                                                                *)
LEMMA MeasuredAreShared ==
  ASSUME NEW I \in NonEmpty, NEW K \in NonEmpty, Num(K.rb) >= 0, Sse \in BOOLEAN,
         NEW V, Near(V)
  PROVE  LET J == Meet(K, positive)
             N == Minus(J)
         IN /\ J \in NonEmpty /\ N \in NonEmpty
            /\ Bottom(J) = IF Bottom(K) <= 0 THEN Bottom(K) ELSE 0
            /\ Top(J) = Top(K)
            /\ Bottom(N) = Top(K) /\ Top(N) = Bottom(J)
            /\ \A x \in V : /\ In(x, J) <=> x >= 0 /\ In(Modulus(x), K)
                            /\ In(x, N) <=> x <= 0 /\ In(Modulus(x), K)
<1> DEFINE J == Meet(K, positive)
           N == Minus(J)
<1>1. /\ J \in NonEmpty /\ N \in NonEmpty
      /\ Num(J.lb) = IF Num(K.lb) <= 0 THEN Num(K.lb) ELSE 0
      /\ Num(J.rb) = Num(K.rb)
      /\ N.lb = J.rb /\ N.rb = J.lb
  BY InverseOfMagnitudes
<1> HIDE DEF J, N
<1>2. /\ K.lb \in Ends /\ K.rb \in Ends
      /\ Bottom(K) \in Int /\ Top(K) \in Int /\ -Bottom(K) <= Top(K)
      /\ Bottom(K) <= 0 <=> Num(K.lb) <= 0
      /\ Top(K) >= 0
  BY NonEmptyIs, SignsOfExtremes
<1>3. Top(J) = Top(K)
  <2>1. Top(J) = Reach(K.rb) * Fine
    BY <1>1, <1>2, ExtremesOfBounds
  <2> QED
    BY <2>1 DEF Top
<1>4. Bottom(J) = IF Bottom(K) <= 0 THEN Bottom(K) ELSE 0
  <2>1. CASE Num(K.lb) <= 0
    <3>1. Bottom(J) = Reach(K.lb) * Fine
      BY <1>1, <1>2, <2>1, ExtremesOfBounds
    <3> QED
      BY <1>2, <2>1, <3>1 DEF Bottom
  <2>2. CASE ~(Num(K.lb) <= 0)
    <3>1. Bottom(J) = 0
      BY <1>1, <1>2, <2>2, ExtremesOfBounds
    <3> QED
      BY <1>2, <2>2, <3>1
  <2> QED
    BY <2>1, <2>2
<1>5. Bottom(N) = Top(J) /\ Top(N) = Bottom(J)
  BY <1>1 DEF Top, Bottom
<1>6. ASSUME NEW x \in V
      PROVE  /\ In(x, J) <=> x >= 0 /\ In(Modulus(x), K)
             /\ In(x, N) <=> x <= 0 /\ In(Modulus(x), K)
  <2> DEFINE most == Beyond * Fine
             s == Modulus(x)
  <2>1. most \in Int /\ x \in Int /\ -most <= x /\ x <= most
    BY ConstantsAre DEF Near
  <2>2. s \in Int /\ (x >= 0 => s = x) /\ (x <= 0 => s + x = 0) /\ -most <= s /\ s <= most /\ s >= 0
    <3> HIDE DEF most
    <3> QED
      BY <2>1 DEF Modulus
  <2> HIDE DEF s
  <2>3. /\ In(x, J) <=> -Bottom(J) <= x /\ x <= Top(J)
        /\ In(x, N) <=> -Bottom(N) <= x /\ x <= Top(N)
        /\ In(s, K) <=> -Bottom(K) <= s /\ s <= Top(K)
    BY <1>1, <2>1, <2>2, InIs
  <2>4. /\ In(x, J) <=> x >= 0 /\ In(s, K)
        /\ In(x, N) <=> x <= 0 /\ In(s, K)
    BY <1>2, <1>3, <1>4, <1>5, <2>1, <2>2, <2>3
  <2> QED
    BY <2>4 DEF s
<1> QED
  BY <1>1, <1>3, <1>4, <1>5, <1>6 DEF J, N

(* The reals that measure the magnitudes of K: the samples of I, those of K   *)
(* and their opposites.                                                      *)
Measures(I, K) == Samples(I) \union Samples(K) \union {-y : y \in Samples(K)}

LEMMA MeasuresAreNear ==
  ASSUME NEW I \in NonEmpty, NEW K \in NonEmpty
  PROVE  /\ Near(Measures(I, K))
         /\ -Bottom(I) \in Measures(I, K) /\ Top(I) \in Measures(I, K)
         /\ -Bottom(K) \in Measures(I, K) /\ Top(K) \in Measures(I, K)
         /\ Bottom(K) \in Measures(I, K) /\ -Top(K) \in Measures(I, K)
         /\ Bottom(I) >= 0 /\ Top(I) >= 0 => 0 \in Measures(I, K)
<1> DEFINE most == Beyond * Fine
           opposites == {-y : y \in Samples(K)}
<1>1. /\ most \in Int
      /\ \A x \in Samples(I) : x \in Int /\ -most <= x /\ x <= most
      /\ \A x \in Samples(K) : x \in Int /\ -most <= x /\ x <= most
      /\ Bottom(I) \in Int /\ Top(I) \in Int /\ Bottom(K) \in Int /\ Top(K) \in Int
  BY SamplesAreNear
<1>2. /\ -Bottom(I) \in Samples(I) /\ Top(I) \in Samples(I)
      /\ -Bottom(K) \in Samples(K) /\ Top(K) \in Samples(K)
  BY SamplesAre
<1>3. -(-Bottom(K)) \in opposites /\ -Top(K) \in opposites /\ -(-Bottom(K)) = Bottom(K)
  BY <1>1, <1>2
<1>4. ASSUME NEW x \in opposites PROVE x \in Int /\ -most <= x /\ x <= most
  <2> HIDE DEF most
  <2>1. PICK y \in Samples(K) : x = -y
    OBVIOUS
  <2> QED
    BY <1>1, <2>1
<1>5. Bottom(I) >= 0 /\ Top(I) >= 0 => 0 \in Samples(I)
  <2>1. Bottom(I) >= 0 => -Bottom(I) <= 0
    BY <1>1
  <2> QED
    BY <2>1, ZeroIsSample
<1>6. Measures(I, K) = Samples(I) \union Samples(K) \union opposites
  BY DEF Measures
<1>7. Near(Measures(I, K))
  BY <1>1, <1>4, <1>6 DEF Near
<1> QED
  BY <1>2, <1>3, <1>5, <1>6, <1>7

(* invabs_rel() gives the hull of the reals of an interval whose magnitude is *)
(* in the other one.                                                        *)
LEMMA MeasuredHaveHull ==
  ASSUME NEW I \in NonEmpty, NEW K \in NonEmpty, Sse \in BOOLEAN
  PROVE  Value(invabs_rel(K, I)) = Hull(Over(Measured(Measures(I, K), I, K), Fine))
<1> DEFINE V == Measures(I, K)
           W == Measured(V, I, K)
           U == invabs_rel(K, I)
           J == Meet(K, positive)
           N == Minus(J)
           A == Meet(J, I)
           B == Meet(N, I)
           S == Shared(V, I, J)
           T == Shared(V, I, N)
<1> SUFFICES Value(U) = Hull(Over(W, Fine))
  OBVIOUS
<1>1. /\ Near(V)
      /\ -Bottom(I) \in V /\ Top(I) \in V
      /\ -Bottom(K) \in V /\ Top(K) \in V
      /\ Bottom(K) \in V /\ -Top(K) \in V
      /\ Bottom(I) >= 0 /\ Top(I) >= 0 => 0 \in V
  BY MeasuresAreNear
<1>2. W = {x \in V : In(x, I) /\ In(Modulus(x), K)}
  BY DEF Measured
<1>3. /\ Num(I.lb) \in Int /\ Num(I.rb) \in Int /\ Num(K.rb) \in Int
      /\ Bottom(I) \in Int /\ Top(I) \in Int /\ -Bottom(I) <= Top(I)
      /\ Bottom(I) <= 0 <=> Num(I.lb) <= 0
      /\ Top(I) <= 0 <=> Num(I.rb) <= 0
      /\ Bottom(K) \in Int /\ Top(K) \in Int /\ -Bottom(K) <= Top(K)
      /\ Top(K) >= 0 <=> Num(K.rb) >= 0
  BY NonEmptyIs, SignsOfExtremes
<1>4. ASSUME NEW x \in V
      PROVE  /\ x \in Int /\ Modulus(x) \in Int /\ Modulus(x) >= 0
             /\ In(x, I) <=> -Bottom(I) <= x /\ x <= Top(I)
             /\ In(Modulus(x), K) => Modulus(x) <= Top(K)
  <2> DEFINE most == Beyond * Fine
             s == Modulus(x)
  <2>1. most \in Int /\ x \in Int /\ -most <= x /\ x <= most
    BY <1>1, ConstantsAre DEF Near
  <2> HIDE DEF V
  <2>2. s \in Int /\ -most <= s /\ s <= most /\ s >= 0
    <3> HIDE DEF most
    <3> QED
      BY <2>1 DEF Modulus
  <2> HIDE DEF s
  <2>3. /\ In(x, I) <=> -Bottom(I) <= x /\ x <= Top(I)
        /\ In(s, K) <=> -Bottom(K) <= s /\ s <= Top(K)
    BY <2>1, <2>2, InIs
  <2> QED
    BY <2>1, <2>2, <2>3 DEF s
<1>5. ASSUME W = {}, U = emptyset PROVE Value(U) = Hull(Over(W, Fine))
  <2> HIDE DEF W, U
  <2>1. Over(W, Fine) = {}
    BY <1>5 DEF Over
  <2> QED
    BY <1>5, <2>1, ValueIs
<1>6. CASE Num(K.rb) < 0
  <2>1. U = emptyset
    BY <1>6, InverseOfMagnitudes
  <2>2. Top(K) < 0
    BY <1>3, <1>6
  <2>3. W = {}
    <3> HIDE DEF V, W
    <3> QED
      BY <1>2, <1>3, <1>4, <2>2
  <2> QED
    BY <1>5, <2>1, <2>3
<1>7. CASE Num(K.rb) >= 0
  <2>1. U = IF Num(I.lb) <= 0 THEN A ELSE IF Num(I.rb) <= 0 THEN B ELSE Join(A, B)
    BY <1>7, InverseOfMagnitudes
  <2>2. /\ J \in NonEmpty /\ N \in NonEmpty
        /\ Bottom(J) = IF Bottom(K) <= 0 THEN Bottom(K) ELSE 0
        /\ Top(J) = Top(K)
        /\ Bottom(N) = Top(K) /\ Top(N) = Bottom(J)
        /\ \A x \in V : /\ In(x, J) <=> x >= 0 /\ In(Modulus(x), K)
                        /\ In(x, N) <=> x <= 0 /\ In(Modulus(x), K)
    BY <1>1, <1>7, MeasuredAreShared
  <2>3. A \in NonEmpty => -Bottom(A) \in V /\ Top(A) \in V
    <3>1. \/ /\ A \in NonEmpty
             /\ Bottom(A) = IF Bottom(J) <= Bottom(I) THEN Bottom(J) ELSE Bottom(I)
             /\ Top(A) = IF Top(J) <= Top(I) THEN Top(J) ELSE Top(I)
          \/ A = emptyset
      BY <2>2, MeetHasBounds
    <3>2. A \in NonEmpty => Top(A) \in Int /\ Bottom(A) \in Int /\ -Bottom(A) <= Top(A)
      BY SamplesAre
    <3>3. emptyset \notin NonEmpty
      BY NonEmptyIs, EmptySetIs
    <3> HIDE DEF V, A, J, N
    <3>4. A \in NonEmpty => Top(A) \in V
      BY <1>1, <2>2, <3>1, <3>3
    <3>5. ASSUME A \in NonEmpty PROVE -Bottom(A) \in V
      <4>1. CASE Bottom(A) = Bottom(I) \/ Bottom(A) = Bottom(K)
        BY <1>1, <4>1
      <4>2. CASE Bottom(A) = 0 /\ Bottom(A) <= Bottom(I) /\ Top(A) <= Top(I)
        <5>1. Bottom(I) >= 0 /\ Top(I) >= 0
          BY <1>3, <3>2, <3>5, <4>2
        <5>2. -Bottom(A) = 0
          <6>1. -Bottom(A) = 0 - Bottom(A)
            BY <3>2, <3>5
          <6> QED
            BY <4>2, <6>1
        <5> QED
          BY <1>1, <5>1, <5>2
      <4> QED
        BY <1>3, <2>2, <3>1, <3>2, <3>3, <3>5, <4>1, <4>2
    <3> QED
      BY <3>4, <3>5
  <2>4. B \in NonEmpty => -Bottom(B) \in V /\ Top(B) \in V
    <3>1. \/ /\ B \in NonEmpty
             /\ Bottom(B) = IF Bottom(N) <= Bottom(I) THEN Bottom(N) ELSE Bottom(I)
             /\ Top(B) = IF Top(N) <= Top(I) THEN Top(N) ELSE Top(I)
          \/ B = emptyset
      BY <2>2, MeetHasBounds
    <3>2. B \in NonEmpty => Top(B) \in Int /\ Bottom(B) \in Int /\ -Bottom(B) <= Top(B)
      BY SamplesAre
    <3>3. emptyset \notin NonEmpty
      BY NonEmptyIs, EmptySetIs
    <3> HIDE DEF V, B, J, N
    <3>4. B \in NonEmpty => -Bottom(B) \in V
      BY <1>1, <2>2, <3>1, <3>3
    <3>5. ASSUME B \in NonEmpty PROVE Top(B) \in V
      <4>1. CASE Top(B) = Top(I) \/ Top(B) = Bottom(K)
        BY <1>1, <4>1
      <4>2. CASE Top(B) = 0 /\ Top(B) <= Top(I) /\ Bottom(B) <= Bottom(I)
        <5>1. Bottom(I) >= 0 /\ Top(I) >= 0
          BY <1>3, <3>2, <3>5, <4>2
        <5> QED
          BY <1>1, <4>2, <5>1
      <4> QED
        BY <1>3, <2>2, <3>1, <3>2, <3>3, <3>5, <4>1, <4>2
    <3> QED
      BY <3>4, <3>5
  <2>5. \/ A \in NonEmpty /\ Extremes(S, -Bottom(A), Top(A))
        \/ A = emptyset /\ S = {}
    BY <1>1, <2>2, <2>3, SharedHaveExtremes
  <2>6. \/ B \in NonEmpty /\ Extremes(T, -Bottom(B), Top(B))
        \/ B = emptyset /\ T = {}
    BY <1>1, <2>2, <2>4, SharedHaveExtremes
  <2>7. S = {x \in V : In(x, J) /\ In(x, I)} /\ T = {x \in V : In(x, N) /\ In(x, I)}
    BY DEF Shared
  <2>8. W = S \union T
    <3> HIDE DEF V, W, S, T, J, N
    <3> QED
      BY <1>2, <1>4, <2>2, <2>7
  <2>9. ASSUME NEW M, (M \in NonEmpty /\ Extremes(W, -Bottom(M), Top(M))) \/ (M = emptyset /\ W = {}), U = M
        PROVE  Value(U) = Hull(Over(W, Fine))
    <3> HIDE DEF W, U
    <3>1. CASE M \in NonEmpty /\ Extremes(W, -Bottom(M), Top(M))
      BY <2>9, <3>1, HullOfSamples
    <3>2. CASE M = emptyset /\ W = {}
      BY <1>5, <2>9, <3>2
    <3> QED
      BY <2>9, <3>1, <3>2
  <2>10. CASE Num(I.lb) <= 0
    <3>1. U = A
      BY <2>1, <2>10
    <3>2. W = S
      <4> HIDE DEF V, W, S, T, J, N
      <4> QED
        BY <1>2, <1>3, <1>4, <2>2, <2>7, <2>10
    <3> HIDE DEF A, B, W, S, T, U
    <3> QED
      BY <2>5, <2>9, <3>1, <3>2
  <2>11. CASE ~(Num(I.lb) <= 0) /\ Num(I.rb) <= 0
    <3>1. U = B
      BY <2>1, <2>11
    <3>2. W = T
      <4> HIDE DEF V, W, S, T, J, N
      <4> QED
        BY <1>2, <1>3, <1>4, <2>2, <2>7, <2>11
    <3> HIDE DEF A, B, W, S, T, U
    <3> QED
      BY <2>6, <2>9, <3>1, <3>2
  <2>12. CASE ~(Num(I.lb) <= 0) /\ ~(Num(I.rb) <= 0)
    <3>1. U = Join(A, B)
      BY <2>1, <2>12
    <3> DEFINE M == Join(A, B)
    <3> HIDE DEF A, B, W, S, T, U
    <3>2. CASE A = emptyset
      <4>1. M = B
        BY <3>2, EmptySetIs DEF Join
      <4>2. S = {}
        <5>1. emptyset \notin NonEmpty
          BY NonEmptyIs, EmptySetIs
        <5> QED
          BY <2>5, <3>2, <5>1
      <4>3. W = T
        BY <2>8, <4>2
      <4> QED
        BY <2>6, <2>9, <3>1, <4>1, <4>3
    <3>3. CASE A \in NonEmpty /\ B = emptyset
      <4>1. ~is_empty(A) /\ is_empty(B)
        BY <3>3, NonEmptyIs, EmptySetIs
      <4>2. M = A
        BY <4>1 DEF Join
      <4>3. T = {}
        <5>1. emptyset \notin NonEmpty
          BY NonEmptyIs, EmptySetIs
        <5> QED
          BY <2>6, <3>3, <5>1
      <4>4. W = S
        BY <2>8, <4>3
      <4> QED
        BY <2>5, <2>9, <3>1, <4>2, <4>4
    <3>4. CASE A \in NonEmpty /\ B \in NonEmpty
      <4>1. /\ M \in NonEmpty
            /\ Num(M.lb) = IF Num(A.lb) <= Num(B.lb) THEN Num(B.lb) ELSE Num(A.lb)
            /\ Num(M.rb) = IF Num(A.rb) <= Num(B.rb) THEN Num(B.rb) ELSE Num(A.rb)
        BY <3>4, JoinIs
      <4>2. /\ A.lb \in Ends /\ A.rb \in Ends /\ B.lb \in Ends /\ B.rb \in Ends
        BY <3>4, NonEmptyIs
      <4>3. \A C \in NonEmpty : /\ Num(C.rb) = Num(A.rb) => Top(C) = Top(A)
                                /\ Num(C.rb) = Num(B.rb) => Top(C) = Top(B)
                                /\ Num(C.lb) = Num(A.lb) => Bottom(C) = Bottom(A)
                                /\ Num(C.lb) = Num(B.lb) => Bottom(C) = Bottom(B)
        BY <4>2, ExtremesOfBounds DEF Top, Bottom
      <4>4. /\ Top(A) <= Top(B) <=> Num(A.rb) <= Num(B.rb)
            /\ Bottom(A) <= Bottom(B) <=> Num(A.lb) <= Num(B.lb)
        BY <3>4, ExtremesCompare
      <4> HIDE DEF M
      <4>5. /\ Bottom(M) = IF Bottom(A) <= Bottom(B) THEN Bottom(B) ELSE Bottom(A)
            /\ Top(M) = IF Top(A) <= Top(B) THEN Top(B) ELSE Top(A)
        BY <4>1, <4>3, <4>4
      <4>6. emptyset \notin NonEmpty
        BY NonEmptyIs, EmptySetIs
      <4>7. Extremes(S, -Bottom(A), Top(A)) /\ Extremes(T, -Bottom(B), Top(B))
        BY <2>5, <2>6, <3>4, <4>6
      <4>8. /\ Bottom(A) \in Int /\ Top(A) \in Int /\ Bottom(B) \in Int /\ Top(B) \in Int
        BY <3>4, SamplesAre
      <4>9. Extremes(W, -Bottom(M), Top(M))
        <5>1. /\ S \subseteq Int /\ T \subseteq Int
              /\ -Bottom(A) \in S /\ Top(A) \in S /\ -Bottom(B) \in T /\ Top(B) \in T
              /\ \A x \in S : -Bottom(A) <= x /\ x <= Top(A)
              /\ \A x \in T : -Bottom(B) <= x /\ x <= Top(B)
          BY <4>7 DEF Extremes
        <5>2. W \subseteq Int /\ -Bottom(M) \in W /\ Top(M) \in W
          BY <2>8, <4>5, <5>1
        <5>3. \A x \in W : -Bottom(M) <= x /\ x <= Top(M)
          BY <2>8, <4>5, <4>8, <5>1
        <5> QED
          BY <5>2, <5>3 DEF Extremes
      <4>10. U = M
        BY <3>1 DEF M
      <4> QED
        BY <2>9, <4>1, <4>9, <4>10
    <3> QED
      BY <2>5, <2>6, <3>2, <3>3, <3>4
  <2> QED
    BY <2>10, <2>11, <2>12
<1>8. Num(K.rb) < 0 \/ Num(K.rb) >= 0
  BY <1>3
<1> QED
  BY <1>6, <1>7, <1>8

(* An interval whose bounds are NaNs is left empty by what it is met with.    *)
LEMMA MeasuredOfEmpty ==
  ASSUME NEW I \in Intervals, NEW K \in Intervals, Sse \in BOOLEAN
  PROVE  Value(invabs_rel(K, I)) = Hull(Over(Measured(Measures(I, K), I, K), Fine))
<1>1. CASE I \in NonEmpty /\ K \in NonEmpty
  BY <1>1, MeasuredHaveHull
<1>2. CASE I = emptyset \/ K = emptyset
  <2>1. Over(Measured(Measures(I, K), I, K), Fine) = {}
    <3>1. Measured(Measures(I, K), I, K) = {}
      BY <1>2, EmptyHasNone DEF Measured
    <3> QED
      BY <3>1 DEF Over
  <2>2. invabs_rel(K, I) = emptyset
    <3> DEFINE J == Meet(K, positive)
    <3>1. ASSUME is_empty(J) PROVE invabs_rel(K, I) = emptyset
      BY <3>1 DEF invabs_rel
    <3>2. CASE K = emptyset
      <4>1. J = emptyset
        BY <3>2, EmptySetIs DEF Meet
      <4> QED
        BY <3>1, <4>1, EmptySetIs
    <3>3. CASE K # emptyset /\ is_empty(J)
      BY <3>1, <3>3
    <3>4. CASE K # emptyset /\ ~is_empty(J)
      <4>1. K \in NonEmpty /\ I = emptyset
        BY <1>2, <3>4 DEF Intervals
      <4>2. Num(K.rb) >= 0
        <5>1. Num(K.rb) < 0 => Meet(K, positive) = emptyset
          <6>1. /\ positive \in NonEmpty /\ Num(positive.lb) = 0 /\ Num(positive.rb) = Largest + 1
            BY ConstantsAreIntervals, EndsAre DEF positive, Bounds
          <6>2. /\ Num(K.lb) \in Int /\ Num(K.rb) \in Int /\ Largest \in Nat
                /\ Num(K.lb) + Num(K.rb) >= 0
            BY <4>1, NonEmptyIs, ConstantsAre
          <6> QED
            BY <4>1, <6>1, <6>2, MeetIs
        <5>2. Num(K.rb) \in Int
          BY <4>1, NonEmptyIs
        <5> QED
          BY <3>4, <5>1, <5>2, EmptySetIs
      <4>3. J \in NonEmpty /\ Minus(J) \in NonEmpty
        <5>1. universe \in NonEmpty
          BY ConstantsAreIntervals
        <5> QED
          BY <4>1, <4>2, <5>1, InverseOfMagnitudes
      <4>4. ASSUME NEW M \in NonEmpty PROVE Meet(M, emptyset) = emptyset
        <5>1. ~is_empty(M) /\ emptyset.lb = NaN /\ emptyset.rb = NaN
          BY NonEmptyIs, EmptySetIs
        <5>2. ~Leq(M.lb, NaN) /\ ~Leq(M.rb, NaN)
          BY DEF Leq
        <5>3. Bounds(NaN, NaN) = emptyset /\ is_empty(emptyset)
          BY EmptySetIs DEF emptyset
        <5> QED
          BY <5>1, <5>2, <5>3 DEF Meet
      <4>5. Join(emptyset, emptyset) = emptyset
        BY EmptySetIs DEF Join
      <4>6. Meet(J, I) = emptyset /\ Meet(Minus(J), I) = emptyset
        BY <4>1, <4>3, <4>4
      <4>7. invabs_rel(K, I) = IF is_empty(J) THEN emptyset
                               ELSE IF certainly_geq(I, zero) THEN Meet(J, I)
                               ELSE IF certainly_leq(I, zero) THEN Meet(Minus(J), I)
                               ELSE Join(Meet(J, I), Meet(Minus(J), I))
        BY DEF invabs_rel
      <4> HIDE DEF J
      <4> QED
        BY <4>5, <4>6, <4>7
    <3> QED
      BY <3>2, <3>3, <3>4
  <2> QED
    BY <2>1, <2>2, ValueIs
<1> QED
  BY <1>1, <1>2 DEF Intervals

(* A whole number of units rounded upward.                                   *)
LEMMA WholeIsRounded ==
  ASSUME NEW n \in Int, NEW neg \in BOOLEAN
  PROVE  LET r == RoundUp(n, 1, neg) IN
         /\ r \in Doubles /\ Num(r) \in Int
         /\ \/ Num(r) \in FiniteNums /\ n <= Num(r)
            \/ r = Infinity /\ n > Largest
         /\ \A w \in FiniteNums : n <= w => Num(r) <= w
         /\ n > 0 \/ (n = 0 /\ ~neg) => r \in NotNegative
<1> DEFINE d == 1
           r == RoundUp(n, d, neg)
<1>1. d \in Nat /\ d >= 1 /\ \A w \in Int : d * w = w
  OBVIOUS
<1> HIDE DEF d
<1>2. /\ r \in Doubles
      /\ \/ r.mag \in Magnitudes /\ Num(r) \in FiniteNums /\ n <= d * Num(r)
         \/ r = Infinity /\ n > d * Largest
      /\ \A w \in FiniteNums : n <= d * w => Num(r) <= w /\ r.mag \in Magnitudes
      /\ n > 0 \/ (n = 0 /\ ~neg) => r \in NotNegative
  BY <1>1, RoundUpIsLeast
<1> HIDE DEF r
<1>3. /\ Num(r) \in Int /\ Largest \in Int /\ \A w \in FiniteNums : w \in Int
  BY <1>2, NumOfMagnitude, ConstantsAre, FiniteNumsRange
<1>4. /\ r \in Doubles /\ Num(r) \in Int
      /\ \/ Num(r) \in FiniteNums /\ n <= Num(r)
         \/ r = Infinity /\ n > Largest
      /\ \A w \in FiniteNums : n <= w => Num(r) <= w
      /\ n > 0 \/ (n = 0 /\ ~neg) => r \in NotNegative
  BY <1>1, <1>2, <1>3
<1> QED
  BY <1>4 DEF r, d

(* The distance of two numbers of units, rounded upward, a zero being +0.    *)
Away(n) == RoundUp(n, 1, FALSE)

LEMMA AwayIsRounded ==
  ASSUME NEW n \in Int
  PROVE  /\ Away(n) \in Doubles /\ Num(Away(n)) \in Int
         /\ \/ Num(Away(n)) \in FiniteNums /\ n <= Num(Away(n))
            \/ Away(n) = Infinity /\ n > Largest
         /\ \A w \in FiniteNums : n <= w => Num(Away(n)) <= w
         /\ n > 0 \/ n = 0 => Away(n) \in NotNegative
<1> DEFINE neg == FALSE
           r == RoundUp(n, 1, neg)
<1>1. neg \in BOOLEAN /\ ~neg /\ Away(n) = r
  BY DEF Away
<1> HIDE DEF neg
<1>2. /\ r \in Doubles /\ Num(r) \in Int
      /\ \/ Num(r) \in FiniteNums /\ n <= Num(r)
         \/ r = Infinity /\ n > Largest
      /\ \A w \in FiniteNums : n <= w => Num(r) <= w
      /\ n > 0 \/ (n = 0 /\ ~neg) => r \in NotNegative
  BY <1>1, WholeIsRounded
<1> HIDE DEF r
<1> QED
  BY <1>1, <1>2

LEMMA AwayIs ==
  ASSUME NEW n \in Nat
  PROVE  /\ Away(n) \in NotNegative /\ Away(n) \in Doubles /\ ~Away(n).neg
         /\ Num(Away(n)) \in Int /\ Num(Away(n)) >= 0
         /\ n > 0 => Num(Away(n)) > 0
         /\ n = 0 => Num(Away(n)) = 0
         /\ n > 0 => \A neg \in BOOLEAN : RoundUp(n, 1, neg) = Away(n)
<1> DEFINE r == Away(n)
<1>1. /\ r \in Doubles /\ Num(r) \in Int
      /\ \/ Num(r) \in FiniteNums /\ n <= Num(r)
         \/ r = Infinity /\ n > Largest
      /\ \A w \in FiniteNums : n <= w => Num(r) <= w
      /\ n > 0 \/ n = 0 => r \in NotNegative
  BY AwayIsRounded
<1> HIDE DEF r
<1>2. /\ Largest \in Nat /\ Num(Infinity) = Largest + 1 /\ 0 \in FiniteNums
  BY ConstantsAre, EndsAre, FiniteNumsRange
<1>3. r \in NotNegative /\ ~r.neg
  BY <1>1 DEF NotNegative
<1>4. Num(r) >= 0 /\ (n > 0 => Num(r) > 0)
  BY <1>1, <1>2
<1>5. n = 0 => Num(r) = 0
  BY <1>1, <1>2, <1>4
<1>6. ASSUME n > 0, NEW neg \in BOOLEAN PROVE RoundUp(n, 1, neg) = r
  <2>1. n # 0
    BY <1>6
  <2>2. \A b : (IF n = 0 THEN b ELSE TRUE) = TRUE
    BY <2>1
  <2> QED
    BY <2>2, Zenon DEF RoundUp, Away, r
<1> QED
  BY <1>1, <1>3, <1>4, <1>5, <1>6 DEF r

(* The greater of two distances rounded upward is that of the greater one.   *)
LEMMA FarthestIs ==
  ASSUME NEW m \in Nat, NEW n \in Nat
  PROVE  maximum(Away(m), Away(n)) = Away(IF m <= n THEN n ELSE m)
<1>1. /\ Away(m) \in NotNegative /\ Away(n) \in NotNegative
      /\ Away(m) \in Doubles /\ Away(n) \in Doubles
      /\ ~Away(m).neg /\ ~Away(n).neg
      /\ Num(Away(m)) \in Int /\ Num(Away(n)) \in Int
      /\ Away(m) # NaN /\ Away(n) # NaN
  BY AwayIs, FiniteOrInfinite
<1>2. \A k, l \in Nat : k <= l => Num(Away(k)) <= Num(Away(l))
  <2>1. ASSUME NEW k \in Nat, NEW l \in Nat, k <= l PROVE Num(Away(k)) <= Num(Away(l))
    <3> DEFINE r == Away(k)
               s == Away(l)
    <3>1. /\ r \in Doubles /\ Num(r) \in Int
          /\ \A w \in FiniteNums : k <= w => Num(r) <= w
      BY AwayIsRounded
    <3>2. /\ s \in Doubles /\ Num(s) \in Int
          /\ \/ Num(s) \in FiniteNums /\ l <= Num(s)
             \/ s = Infinity
      BY AwayIsRounded
    <3> HIDE DEF r, s
    <3>3. Num(r) <= Largest + 1 /\ Num(Infinity) = Largest + 1
      <4>1. r = MinusInfinity \/ r \in Ends
        BY <3>1, EndsAre
      <4>2. Num(MinusInfinity) = -(Largest + 1) /\ Largest \in Nat
        BY EndsAre, OppositeIsDouble, ConstantsAre DEF MinusInfinity
      <4> QED
        BY <4>1, <4>2, EndsAre
    <3>4. CASE s = Infinity
      BY <3>3, <3>4 DEF r, s
    <3>5. CASE Num(s) \in FiniteNums /\ l <= Num(s)
      <4>1. k <= Num(s)
        BY <2>1, <3>2, <3>5
      <4> QED
        BY <3>1, <3>5, <4>1 DEF r, s
    <3> QED
      BY <3>2, <3>4, <3>5
  <2> QED
    BY <2>1
<1>3. maximum(Away(m), Away(n)) = IF Num(Away(n)) <= Num(Away(m)) THEN Away(m) ELSE Away(n)
  BY <1>1 DEF maximum, Leq
<1>4. CASE m <= n
  <2>1. Num(Away(m)) <= Num(Away(n))
    BY <1>2, <1>4
  <2>2. Num(Away(n)) <= Num(Away(m)) => Away(m) = Away(n)
    BY <1>1, <2>1, NotNegativeAreEqual
  <2> QED
    BY <1>3, <1>4, <2>2
<1>5. CASE ~(m <= n)
  <2>1. Num(Away(n)) <= Num(Away(m))
    BY <1>2, <1>5
  <2> QED
    BY <1>3, <1>5, <2>1
<1> QED
  BY <1>4, <1>5

(* A sum of 0 keeps the sign that it is given.                               *)
LEMMA RoundUpOfZero ==
  ASSUME NEW neg \in BOOLEAN
  PROVE  RoundUp(0, 1, neg) = Zero(neg)
<1> DEFINE r == RoundUp(0, 1, neg)
           q == CeilingOf(0, 1)
           v == Least(q)
<1>1. /\ r \in Doubles
      /\ \/ r.mag \in Magnitudes /\ Num(r) \in FiniteNums /\ 0 <= 1 * Num(r)
         \/ r = Infinity /\ 0 > 1 * Largest
      /\ \A w \in FiniteNums : 0 <= 1 * w => Num(r) <= w /\ r.mag \in Magnitudes
  BY RoundUpIsLeast
<1>2. q \in Int
  BY CeilingIsLeast
<1>3. r = IF q > Largest THEN Infinity ELSE IF v = 0 THEN Zero(neg) ELSE OfNum(v)
  BY DEF RoundUp, Rounded, Signed
<1>4. q <= Largest => v \in Int
  BY <1>2, LeastIsLeast, FiniteNumsRange
<1> HIDE DEF r, v, q
<1>5. Largest \in Nat /\ 0 \in FiniteNums /\ Num(Infinity) = Largest + 1
  BY ConstantsAre, FiniteNumsRange, EndsAre
<1>6. Num(r) = 0
  BY <1>1, <1>5, NumOfMagnitude
<1>7. q <= Largest
  BY <1>2, <1>3, <1>5, <1>6
<1>8. v = 0
  <2>1. ASSUME v # 0 PROVE FALSE
    <3>1. r = OfNum(v)
      BY <1>2, <1>3, <1>5, <1>7, <2>1
    <3>2. r.mag = IF v < 0 THEN -v ELSE v
      BY <3>1 DEF OfNum
    <3>3. r.mag = 0
      BY <1>1, <1>6, FiniteOrInfinite DEF IsZero
    <3> QED
      BY <1>4, <1>7, <2>1, <3>2, <3>3
  <2> QED
    BY <2>1
<1> QED
  BY <1>2, <1>3, <1>5, <1>7, <1>8 DEF r

(* The differences of two bounds, rounded upward one way and the other.      *)
LEMMA ApartIs ==
  ASSUME NEW x \in Doubles, NEW y \in Doubles, ~IsInf(x), ~IsInf(y)
  PROVE  maximum(SubUp(x, y), SubUp(y, x)) = Away(Modulus(Num(x) - Num(y)))
<1>1. /\ Opposite(x) \in Doubles /\ Num(Opposite(x)) = -Num(x) /\ ~IsInf(Opposite(x)) /\ Opposite(x) # NaN
      /\ Opposite(y) \in Doubles /\ Num(Opposite(y)) = -Num(y) /\ ~IsInf(Opposite(y)) /\ Opposite(y) # NaN
      /\ Opposite(x).neg = ~x.neg /\ Opposite(y).neg = ~y.neg
  BY OppositeIsDouble, FiniteOrInfinite DEF IsInf
<1>2. /\ Num(x) \in Int /\ Num(y) \in Int /\ x # NaN /\ y # NaN
      /\ x.neg \in BOOLEAN /\ y.neg \in BOOLEAN
  BY NumOfMagnitude, FiniteOrInfinite
<1> DEFINE p == x = Zero(TRUE) /\ Opposite(y) = Zero(TRUE)
           q == y = Zero(TRUE) /\ Opposite(x) = Zero(TRUE)
           n == Num(x) - Num(y)
           m == Num(y) - Num(x)
           u == RoundUp(n, 1, p)
           v == RoundUp(m, 1, q)
<1>3. SubUp(x, y) = u /\ SubUp(y, x) = v
  <2>1. Num(x) + Num(Opposite(y)) = n /\ Num(y) + Num(Opposite(x)) = m
    BY <1>1, <1>2
  <2> HIDE DEF p, q, n, m
  <2>2. AddUp(x, Opposite(y)) = RoundUp(Num(x) + Num(Opposite(y)), 1, p)
    BY <1>1, <1>2 DEF AddUp, p
  <2>3. AddUp(y, Opposite(x)) = RoundUp(Num(y) + Num(Opposite(x)), 1, q)
    BY <1>1, <1>2 DEF AddUp, q
  <2> QED
    BY <2>1, <2>2, <2>3 DEF SubUp
<1>4. n \in Int /\ m \in Int /\ n + m = 0 /\ p \in BOOLEAN /\ q \in BOOLEAN
  BY <1>2
<1>5. ~(p /\ q)
  <2>1. ASSUME p, q PROVE FALSE
    <3>1. x.neg = TRUE /\ Opposite(x).neg = TRUE
      BY <2>1 DEF Zero
    <3> QED
      BY <1>1, <3>1
  <2> QED
    BY <2>1
<1> HIDE DEF n, m, p, q
<1>6. /\ u \in Doubles /\ v \in Doubles /\ u # NaN /\ v # NaN
      /\ n <= 0 => Num(u) <= 0
      /\ m <= 0 => Num(v) <= 0
      /\ Num(u) \in Int /\ Num(v) \in Int
  <2>1. 0 \in FiniteNums
    BY FiniteNumsRange
  <2>2. \A w \in FiniteNums : n <= w => Num(u) <= w
    BY <1>4, WholeIsRounded
  <2>3. \A w \in FiniteNums : m <= w => Num(v) <= w
    BY <1>4, WholeIsRounded
  <2>4. u \in Doubles /\ v \in Doubles
    BY <1>4, WholeIsRounded
  <2>5. u # NaN /\ v # NaN /\ Num(u) \in Int /\ Num(v) \in Int
    BY <2>4, NumOfMagnitude, FiniteOrInfinite
  <2> HIDE DEF u, v
  <2> QED
    BY <1>4, <2>1, <2>2, <2>3, <2>4, <2>5
<1>7. maximum(u, v) = IF u.neg THEN IF Num(u) <= Num(v) THEN v ELSE u
                      ELSE IF Num(v) <= Num(u) THEN u ELSE v
  <2> HIDE DEF u, v
  <2> QED
    BY <1>6 DEF maximum, Leq
<1>8. CASE n > 0
  <2>1. n \in Nat /\ Modulus(n) = n /\ m <= 0
    BY <1>4, <1>8 DEF Modulus
  <2>2. u = Away(n) /\ Num(u) > 0 /\ ~u.neg
    BY <1>4, <1>8, <2>1, AwayIs
  <2> HIDE DEF u, v
  <2>3. maximum(u, v) = u
    BY <1>6, <1>7, <2>1, <2>2
  <2> QED
    BY <1>3, <2>1, <2>2, <2>3 DEF n
<1>9. CASE n < 0
  <2>1. m \in Nat /\ m > 0 /\ Modulus(n) = m /\ n <= 0
    BY <1>4, <1>9 DEF Modulus
  <2>2. v = Away(m) /\ Num(v) > 0 /\ ~v.neg
    BY <1>4, <2>1, AwayIs
  <2> HIDE DEF u, v
  <2>3. maximum(u, v) = v
    BY <1>6, <1>7, <2>1, <2>2
  <2> QED
    BY <1>3, <2>1, <2>2, <2>3 DEF n
<1>10. CASE n = 0
  <2>1. m = 0 /\ Modulus(n) = 0 /\ n = 0
    BY <1>4, <1>10 DEF Modulus
  <2>2. \A neg \in BOOLEAN : RoundUp(0, 1, neg) = Zero(neg)
    <3>1. ASSUME NEW neg \in BOOLEAN PROVE RoundUp(0, 1, neg) = Zero(neg)
      BY RoundUpOfZero
    <3> QED
      BY <3>1
  <2>3. u = Zero(p) /\ v = Zero(q) /\ Away(0) = Zero(FALSE)
    BY <1>4, <2>1, <2>2 DEF Away
  <2>4. Num(Zero(p)) = 0 /\ Num(Zero(q)) = 0 /\ Zero(p).neg = p /\ Zero(q).neg = q
    BY <1>4, EndsAre DEF Zero
  <2> HIDE DEF u, v
  <2>5. maximum(u, v) = Zero(FALSE)
    <3>1. Num(u) = 0 /\ Num(v) = 0 /\ u.neg = p /\ v.neg = q
      BY <2>3, <2>4, Zenon
    <3>2. 0 <= 0
      OBVIOUS
    <3>3. maximum(u, v) = IF u.neg THEN v ELSE u
      BY <1>7, <3>1, <3>2, Zenon
    <3>4. CASE p
      <4>1. maximum(u, v) = v
        BY <3>1, <3>3, <3>4, Zenon
      <4>2. q = FALSE
        BY <1>4, <1>5, <3>4
      <4> QED
        BY <2>3, <4>1, <4>2, Zenon
    <3>5. CASE ~p
      <4>1. maximum(u, v) = u
        BY <3>1, <3>3, <3>5, Zenon
      <4>2. p = FALSE
        BY <1>4, <3>5
      <4> QED
        BY <2>3, <4>1, <4>2, Zenon
    <3> QED
      BY <3>4, <3>5
  <2> QED
    BY <1>3, <2>1, <2>3, <2>5 DEF n
<1> QED
  BY <1>4, <1>8, <1>9, <1>10

(* hausdorff() of bounded intervals is the farthest that two bounds of one    *)
(* side are, rounded upward.                                                 *)
LEMMA DistanceIsFarthest ==
  ASSUME NEW I \in NonEmpty, NEW J \in NonEmpty, Infinity \notin {I.lb, I.rb, J.lb, J.rb}
  PROVE  hausdorff(I, J) = RoundUp(Farthest(I, J), 1, FALSE)
<1> DEFINE m == Modulus(Num(I.lb) - Num(J.lb))
           n == Modulus(Num(I.rb) - Num(J.rb))
           all == {I.lb, I.rb, J.lb, J.rb}
<1>1. /\ Num(I.lb) \in Int /\ Num(I.rb) \in Int /\ Num(J.lb) \in Int /\ Num(J.rb) \in Int
      /\ left(I) \in Doubles /\ left(J) \in Doubles /\ I.rb \in Doubles /\ J.rb \in Doubles
      /\ Num(left(I)) = -Num(I.lb) /\ Num(left(J)) = -Num(J.lb)
      /\ right(I) = I.rb /\ right(J) = J.rb
      /\ ~is_empty(I) /\ ~is_empty(J)
  BY NonEmptyIs
<1>2. ~IsInf(left(I)) /\ ~IsInf(left(J)) /\ ~IsInf(I.rb) /\ ~IsInf(J.rb)
  <2>1. /\ I.lb \in Ends /\ I.rb \in Ends /\ J.lb \in Ends /\ J.rb \in Ends
        /\ IsInf(left(I)) <=> IsInf(I.lb)
        /\ IsInf(left(J)) <=> IsInf(J.lb)
    BY NonEmptyIs
  <2> QED
    BY <2>1, EndsAre
<1>3. m \in Nat /\ n \in Nat
  BY <1>1 DEF Modulus
<1>4. maximum(SubUp(right(I), right(J)), SubUp(right(J), right(I))) = Away(n)
  BY <1>1, <1>2, ApartIs
<1>5. maximum(SubUp(left(I), left(J)), SubUp(left(J), left(I))) = Away(m)
  <2>1. maximum(SubUp(left(I), left(J)), SubUp(left(J), left(I))) = Away(Modulus(Num(left(I)) - Num(left(J))))
    BY <1>1, <1>2, ApartIs
  <2>2. Modulus(Num(left(I)) - Num(left(J))) = m
    BY <1>1 DEF Modulus
  <2> QED
    BY <2>1, <2>2
<1>6. Infinity \notin all /\ all # {Infinity}
  OBVIOUS
<1>7. hausdorff(I, J) = maximum(Away(m), Away(n))
  <2> DEFINE near == maximum(maximum(SubUp(left(I), left(J)), SubUp(left(J), left(I))),
                             maximum(SubUp(right(I), right(J)), SubUp(right(J), right(I))))
  <2>1. hausdorff(I, J) = IF is_empty(I) \/ is_empty(J) THEN NaN
                          ELSE IF all = {Infinity} THEN Zero(FALSE)
                          ELSE IF Infinity \in all THEN Infinity ELSE near
    BY Zenon DEF hausdorff
  <2> HIDE DEF all, m, n
  <2>2. near = maximum(Away(m), Away(n))
    BY <1>4, <1>5
  <2> HIDE DEF near
  <2> QED
    BY <1>1, <1>6, <2>1, <2>2
<1>9. Farthest(I, J) = Max({m, n})
  BY DEF Farthest
<1> HIDE DEF m, n
<1>8. Max({m, n}) = IF m <= n THEN n ELSE m
  <2> DEFINE g == IF m <= n THEN n ELSE m
  <2>1. g \in {m, n} /\ \A y \in {m, n} : y <= g
    BY <1>3
  <2>2. \A x \in {m, n} : (\A y \in {m, n} : y <= x) => x = g
    BY <1>3, <2>1
  <2> HIDE DEF g
  <2>3. Max({m, n}) = g
    BY <1>3, <2>1, <2>2 DEF Max
  <2> QED
    BY <2>3 DEF g
<1> QED
  BY <1>3, <1>7, <1>8, <1>9, FarthestIs DEF Away

(* The results of the functions on samples are fractions of one denominator.  *)
LEMMA ResultsAreFractions ==
  ASSUME NEW I, NEW J
  PROVE  /\ Moduli(I) = Over({Modulus(x) : x \in Samples(I)}, Fine)
         /\ MaximaOf(I, J) = Over(Greater(Samples(I), Samples(J)), Fine)
         /\ MinimaOf(I, J) = Over(Lesser(Samples(I), Samples(J)), Fine)
         /\ OfModulus(I, J) = Over(Measured(Measures(I, J), I, J), Fine)
<1>1. \A q : q \in Moduli(I) <=> q \in Over({Modulus(x) : x \in Samples(I)}, Fine)
  BY DEF Moduli, Over
<1>2. \A q : q \in MaximaOf(I, J) <=> q \in Over(Greater(Samples(I), Samples(J)), Fine)
  BY DEF MaximaOf, Over, Greater
<1>3. \A q : q \in MinimaOf(I, J) <=> q \in Over(Lesser(Samples(I), Samples(J)), Fine)
  BY DEF MinimaOf, Over, Lesser
<1>4. OfModulus(I, J) = Over(Measured(Measures(I, J), I, J), Fine)
  BY DEF OfModulus, Over, Measured, Measures
<1> QED
  BY <1>1, <1>2, <1>3, <1>4

(* The functions of bounds of what a program comes to.                       *)
LEMMA FunctionsOfKept ==
  ASSUME Kept
  PROVE  FunctionsAreHulls
<1>1. X \in Intervals /\ Y \in Intervals /\ Sse \in BOOLEAN
  BY ProgramAssumption DEF Kept, X, Y, Names
<1>2. Value(abs(X)) = Hull(Moduli(X))
  BY <1>1, MagnitudesAreHull, ResultsAreFractions
<1>3. Value(max(X, Y)) = Hull(MaximaOf(X, Y)) /\ Value(min(X, Y)) = Hull(MinimaOf(X, Y))
  <2>1. /\ Value(max(X, Y)) = Hull(Over(Greater(Samples(X), Samples(Y)), Fine))
        /\ Value(min(X, Y)) = Hull(Over(Lesser(Samples(X), Samples(Y)), Fine))
    BY <1>1, MaximumIsHull, Zenon
  <2>2. /\ MaximaOf(X, Y) = Over(Greater(Samples(X), Samples(Y)), Fine)
        /\ MinimaOf(X, Y) = Over(Lesser(Samples(X), Samples(Y)), Fine)
    BY ResultsAreFractions, Zenon
  <2> QED
    BY <2>1, <2>2, Zenon
<1>4. Value(invabs_rel(Y, X)) = Hull(OfModulus(X, Y))
  BY <1>1, MeasuredOfEmpty, ResultsAreFractions
<1>5. ~is_empty(X) => <<-Num(mig(X)), Num(mag(X))>> = Value(abs(X))
  BY <1>1, EmptySetIs, MagnitudesAreBounds
<1>6. ~is_empty(X) /\ ~is_empty(Y) /\ Infinity \notin {X.lb, X.rb, Y.lb, Y.rb} =>
        hausdorff(X, Y) = RoundUp(Farthest(X, Y), 1, FALSE)
  <2>1. ~is_empty(X) /\ ~is_empty(Y) => X \in NonEmpty /\ Y \in NonEmpty
    BY <1>1, EmptySetIs
  <2> QED
    BY <2>1, DistanceIsFarthest
<1> QED
  BY <1>2, <1>3, <1>4, <1>5, <1>6, Zenon DEF FunctionsAreHulls
=============================================================================
